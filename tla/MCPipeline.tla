----------------------------- MODULE MCPipeline ------------------------------
(* Families of runs, each varying what one stage looks at. *)
EXTENDS Pipeline

All == Range(Order)
Doc(n) == <<"doc", n>>

\* A record that is of no interest but for what a family changes in it.
Said(says, traits, length) ==
    [says |-> says, traits |-> traits, length |-> length,
     words |-> length \div 5, distinct |-> length \div 5]
Quiet == [views |-> 0, likes |-> 0, comments |-> 0, shares |-> 0, followers |-> 0,
          verified |-> FALSE, platform |-> "UNKNOWN"]
PostOf(text) ==
    [raw |-> text, clean |-> text, context |-> {}, counts |-> Quiet, failing |-> {}]
Plain(n, text) ==
    [doc |-> Doc(n), type |-> "post", parent |-> NoId, author |-> "ann", text |-> text,
     supported |-> TRUE, posted |-> NoTime, fate |-> "fine",
     post |-> PostOf(IF text = 0 THEN Said({}, {}, 0) ELSE Said({}, {"vietnamese"}, 60))]
Of(records, enabled) ==
    [records |-> records, enabled |-> enabled, failing |-> {},
     alike |-> {}, bucket |-> [t \in 1 .. 4 |-> 0],
     ontology |-> NoOntology, config |-> NoConfig]

\* Texts 1 .. 4 are long, 5 is not.
MCLongTexts == 1 .. 4

\* Four flat posts, or three of which one is delivered twice, with up to three
\* long texts in all relations up to renaming; and four with texts of their
\* own in all relations.  There are two buckets.
DedupRecords ==
    {[i \in 1 .. 4 |-> Plain(i, f[i])] : f \in [1 .. 4 -> {1, 2, 3, 5}]}
      \cup {[i \in 1 .. 4 |-> Plain(1 + (i % 3), f[1 + (i % 3)])] :
              f \in [1 .. 3 -> {1, 2, 3, 5}]}
DedupOf(records, relations, buckets) ==
    {[Of(rs, {"normalization", "dedup"}) EXCEPT !.alike = a, !.bucket = [t \in MCLongTexts |-> IF t \in b THEN 1 ELSE 0]] :
        rs \in records, a \in relations, b \in buckets}
DedupRuns ==
    DedupOf(DedupRecords, {{}, {{1, 2}}, {{1, 2}, {2, 3}}, {{1, 2}, {2, 3}, {1, 3}}},
            SUBSET {2, 3})
      \cup DedupOf({[i \in 1 .. 4 |-> Plain(i, i)]}, SUBSET kSubset(2, MCLongTexts),
                   SUBSET {2, 3, 4})

\* A post, 4, with comments 1 and 5, the first of which has replies 2 and 3.
Tree == <<[type |-> "comment", up |-> Doc(4)],
          [type |-> "reply", up |-> Doc(1)], [type |-> "reply", up |-> Doc(1)],
          [type |-> "post", up |-> NoId],
          [type |-> "comment", up |-> Doc(4)]>>
InTree(n, supported) == [Plain(n, n) EXCEPT !.type = Tree[n].type, !.parent = Tree[n].up,
                                            !.supported = supported]
ThreadsOf(k) ==
    {Of([i \in 1 .. k |-> InTree(ns[i], lang[i])], {"normalization", "threads", "reporting", "crisis"}) :
        ns \in {s \in [1 .. k -> 1 .. 5] : IsInjective(s)}, lang \in [1 .. k -> BOOLEAN]}
ThreadRuns == UNION {ThreadsOf(k) : k \in 1 .. 4}

\* Three posts of two authors, four of one, with and without a time zone.
MCTimes == {NoTime, [zone |-> "naive", minute |-> 0]}
             \cup [zone : {"aware"}, minute : {0, 50, 70, 130}]
SpamRuns ==
    {Of([i \in 1 .. 3 |-> [Plain(i, 5) EXCEPT !.author = a[i], !.posted = t[i]]],
        {"normalization", "spam"}) :
        a \in [1 .. 3 -> {"ann", "bob"}], t \in [1 .. 3 -> MCTimes]}
      \cup {Of([i \in 1 .. 4 |-> [Plain(i, 5) EXCEPT !.posted = t[i]]],
              {"normalization", "spam"}) :
              t \in [1 .. 4 -> MCTimes]}

\* Three records, one of which may say nothing, and each of which may fail or be
\* spam; or the call of the model fails for all of them.
MCDictionary ==
    LET entry(term, aspect) == [term |-> term, aspect |-> aspect]
    IN  <<entry(<<"pin">>, "BATTERY"), entry(<<"sac">>, "PRICE"), entry(<<"price">>, "PRICE"),
          entry(<<"cell">>, "BATTERY"), entry(<<"sac">>, "BATTERY")>>
MCProposals ==
    [t \in 0 .. 29 |->
        CASE t \in {2, 25, 28} ->
                 [statistical |-> <<[word |-> <<"price", "list">>, score |-> 80],
                                    [word |-> <<"cell", "phone", "price">>, score |-> 70]>>,
                  entities |-> <<<<"xe">>, <<"pin", "moi">>>>,
                  chunks |-> <<<<"price", "tag">>>>]
          [] t = 27 ->
                 [statistical |-> <<[word |-> <<"price", "list">>, score |-> 80]>>,
                  entities |-> <<>>, chunks |-> <<<<"xe", "dep">>, <<"price", "list">>, <<"re">>>>]
          [] OTHER -> [statistical |-> <<>>, entities |-> <<>>, chunks |-> <<>>]]
MCAiNoise == {"moi"}
MCLost == {<<1, <<"sac">>>>}
\* 20 to 24 are about nothing, 25 to 29 about something.
MCOpinions ==
    [t \in 0 .. 29 |-> CASE t \in {2, 20, 25} -> "NEGATIVE" [] t \in {1, 21, 26} -> "POSITIVE"
                         [] OTHER -> "NEUTRAL"]
Junk == PostOf(Said({}, {"vietnamese", "SPAM"}, 60))
NlpOf(fates, failures) ==
    {[Of([i \in 1 .. 3 |->
             IF f[i] = "skip" /\ x[i] # 0 THEN [Plain(i, x[i]) EXCEPT !.post = Junk]
             ELSE [Plain(i, x[i]) EXCEPT !.fate = IF f[i] = "skip" THEN "fine" ELSE f[i]]],
        {"normalization", "nlp"})
        EXCEPT !.failing = failing] :
        x \in [1 .. 3 -> 0 .. 2], f \in [1 .. 3 -> fates], failing \in failures}
NlpRuns == NlpOf(Fates \cup {"skip"}, {{}}) \cup NlpOf({"fine", "skip"}, {{s} : s \in Steps})

\* Any set of stages switched off.
FlagRuns ==
    {Of(<<Plain(1, 1), [Plain(2, 1) EXCEPT !.supported = lang]>>, on) :
        on \in SUBSET All, lang \in BOOLEAN}

-----------------------------------------------------------------------------
\* Words of the texts 10 .. 19, and of those with keywords.
MCWords ==
    [t \in 0 .. 29 |->
        CASE t = 1 -> <<"pin", "sac", "cell", "price">>
          [] t = 2 -> <<"price", "list", "pin">>
          [] t \in 25 .. 28 -> <<"pin", "re", "price">>
          [] t = 10 -> <<"vf", "pin", "loi", ".", "khong", "tot">>
          [] t = 11 -> <<"byd", "pin", "loi", "nhung", "vf", "tot", "sac">>
          [] t = 12 -> <<"nghe_noi", "pin", "loi", "?">>
          [] t = 13 -> <<"minh", "loi", "xe", "refund">>
          [] t = 14 -> <<"vf", "byd", "xe">>
          [] t = 15 -> <<"xe", "dep", "re", "sac">>
          [] t = 16 -> <<"xe", "dep">>
          [] t = 17 -> <<"re", "sac", "sac">>
          [] t = 18 -> <<"xe", "re", "byd">>
          [] t = 19 -> <<"?">>
          [] OTHER  -> <<>>]
MCSurfaces == {"byd"}
MCNoise == {".", "?", "khong", "nghe_noi", "minh", "nhung"}
MCBuiltIn == [kind \in {"ASPECT", "ISSUE"} |->
                 <<[id |-> "price", name |-> "price", phrases |-> {<<"re">>}]>>]
MCPolarity == [ph \in {<<"tot">>, <<"loi">>, <<"re">>} |->
                  CASE ph = <<"tot">> -> 45 [] ph = <<"loi">> -> -40 [] OTHER -> 20]
MCCues == [kind \in CueKinds |->
              CASE kind = "negation"     -> {<<"khong">>}
                [] kind = "uncertainty"  -> {<<"?">>}
                [] kind = "comparison"   -> {<<"hon">>}
                [] kind = "hearsay"      -> {<<"nghe_noi">>}
                [] kind = "escalation"   -> {<<"refund">>}
                [] kind = "first person" -> {<<"minh">>}]
MCContrasts == {"nhung"}
MCMoods == [mood \in {"question", "oppose", "support", "purchase_intent", "praise",
                      "complaint", "compare"} |->
               CASE mood = "question" -> {"?"}
                 [] mood \in {"oppose", "complaint"} -> {"loi"}
                 [] mood \in {"support", "praise"} -> {"tot"}
                 [] mood = "purchase_intent" -> {"re"}
                 [] mood = "compare" -> {"hon"}]

\* Two entities in scans, one that only its name brings up; a category of each
\* kind; and the same with rules of a project.
Cars ==
    [entities |-> <<[id |-> "vinfast", aliases |-> <<<<"vf">>, <<"vf", "e34">>>>, active |-> TRUE],
                    [id |-> "byd", aliases |-> <<<<"byd">>>>, active |-> FALSE],
                    [id |-> "charger", aliases |-> <<<<"sac">>>>, active |-> TRUE]>>,
     aspects  |-> <<[id |-> "battery", name |-> "Battery", phrases |-> {<<"pin">>, <<"sac">>}]>>,
     issues   |-> <<[id |-> "fault", name |-> "Fault", phrases |-> {<<"pin", "loi">>}],
                    [id |-> "cost", name |-> "Cost", phrases |-> {<<"re">>}]>>,
     topics   |-> <<[id |-> "t_battery", name |-> "Battery", phrases |-> {<<"pin">>}]>>,
     rules    |-> <<>>]
Ruled ==
    [Cars EXCEPT !.rules =
        <<[kind |-> "ISSUE", target |-> "fault", name |-> "faults", mode |-> "ALL",
           phrases |-> <<<<"loi">>, <<"refund">>>>, negative |-> {}],
          [kind |-> "ASPECT", target |-> "price", name |-> "prices", mode |-> "ANY",
           phrases |-> <<<<"re">>>>, negative |-> {<<"byd">>}],
          [kind |-> "TOPIC", target |-> "t_money", name |-> "Money", mode |-> "ANY",
           phrases |-> <<<<"refund">>, <<"re">>>>, negative |-> {<<"sac">>}]>>]

\* A post 1 with comments 2 and 3; two posts, one with a comment; a post, a
\* comment and its reply; a comment that is delivered twice; a reply to a
\* comment that names no parent.
Shapes ==
    LET at(n, type, up) == [n |-> n, type |-> type, up |-> up]
    IN  {<<at(1, "post", NoId), at(2, "comment", Doc(1)), at(3, "comment", Doc(1))>>,
         <<at(1, "post", NoId), at(2, "post", NoId), at(3, "comment", Doc(1))>>,
         <<at(1, "post", NoId), at(2, "comment", Doc(1)), at(3, "reply", Doc(2))>>,
         <<at(1, "post", NoId), at(2, "comment", Doc(1)), at(2, "comment", Doc(1))>>,
         <<at(1, "post", NoId), at(2, "comment", NoId), at(3, "reply", Doc(2))>>}

\* Those without a reply.
Flat == {sh \in Shapes : \A i \in DOMAIN sh : sh[i].type # "reply"}

Aware(minute) == [zone |-> "aware", minute |-> minute]
Clocks == {[n \in 1 .. 3 |-> NoTime],
           [n \in 1 .. 3 |-> Aware(50 * n)],
           (1 :> Aware(50) @@ 2 :> [zone |-> "naive", minute |-> 50] @@ 3 :> NoTime)}

Strict == [volume |-> <<[level |-> "WARNING", growth |-> 15], [level |-> "CRITICAL", growth |-> 30]>>,
           spikes |-> <<0, 50>>, viral |-> {100, 350}]

\* Without review, which does nothing here.
AnalysisOf(shapes, texts, ontologies, clocks, configs) ==
    {[Of([i \in 1 .. 3 |-> [Plain(sh[i].n, f[sh[i].n]) EXCEPT
                                !.type = sh[i].type, !.parent = sh[i].up,
                                !.posted = clock[sh[i].n],
                                !.author = IF i = 2 THEN "bob" ELSE "ann"]], All \ {"review"})
        EXCEPT !.ontology = o, !.config = c] :
            sh \in shapes, f \in [1 .. 3 -> texts], o \in ontologies,
            clock \in clocks, c \in configs}
AnalysisRuns ==
    AnalysisOf(Flat, 10 .. 14, {Cars}, {[n \in 1 .. 3 |-> Aware(50 * n)]}, {NoConfig})
      \cup AnalysisOf(Shapes, 10 .. 14, {Ruled}, {[n \in 1 .. 3 |-> Aware(50 * n)]}, {NoConfig})
      \cup AnalysisOf(Flat, 15 .. 19, {NoOntology, Ruled}, {[n \in 1 .. 3 |-> NoTime]}, {NoConfig})
      \cup AnalysisOf(Shapes, {10, 14}, {Ruled}, Clocks, {NoConfig, Strict})

-----------------------------------------------------------------------------
\* One post or comment of any signals in itself and around it; and one that
\* varies what intent, mood, model, counts and failures make of it.
Contexts == {{}, {{"brand"}}, {{"domain"}}, {{"brand"}, {"domain"}}, {{"logistics"}},
             {{"competitor", "brand"}}, {TermKinds}}
Forms == {Said({}, {"vietnamese", "COMPLAINT"}, 25), Said({}, {"vietnamese", "upset"}, 100),
          Said({}, {"vietnamese", "generic", "LEAD"}, 40), Said({}, {"foreign_words"}, 60),
          Said({}, {"marker", "alarm"}, 10), Said({}, {"codm", "gaming"}, 60),
          Said({"logistics"}, {"cod", "gaming", "vietnamese"}, 60),
          Said({"logistics"}, {"cod", "delivery"}, 30), Said({}, {}, 0)}
One(text, type, post) == [Plain(1, text) EXCEPT !.type = type, !.post = post]
SaidRuns ==
    {Of(<<One(IF form.length = 0 THEN 0 ELSE text, type,
              [PostOf([form EXCEPT !.says = IF form.length > 0 THEN @ \cup says ELSE {}])
                  EXCEPT !.context = context])>>, {"nlp"}) :
        says \in SUBSET TermKinds, form \in Forms, text \in {20, 27},
        type \in {"post", "comment"}, context \in Contexts}

Popular == [Quiet EXCEPT !.views = 200, !.likes = 150, !.comments = 20, !.followers = 99999,
                         !.verified = TRUE, !.platform = "YOUTUBE"]
Spread == {Quiet, Popular, [Popular EXCEPT !.shares = 30], [Quiet EXCEPT !.shares = 5]}
Feelings == {{}, {"upset"}, {"happy"}, {"alarm"}, {"happy", "alarm"}}
Wants == {{}, {"COMPLAINT"}, {"SUPPORT", "LEAD"}, {"SPAM", "SEEDING"}, {"CRISIS", "SPAM"}}
JudgedRuns ==
    {[Of(<<One(text, "comment",
               [PostOf(Said({"logistics"}, mood \cup want \cup {"vietnamese"}, 45)) EXCEPT
                   !.raw.length = 60, !.raw.traits = @ \cup {"alarm"}, !.raw.says = @ \cup {"domain"},
                   !.context = {{"brand"}}, !.counts = counts, !.failing = f[1]])>>, {"nlp"})
        EXCEPT !.failing = f[2]] :
        mood \in Feelings, want \in Wants, text \in {20, 21, 22, 25, 26}, counts \in Spread,
        f \in {<<{}, {}>>, <<{"preprocessing"}, {}>>, <<{"intent"}, {}>>, <<{"keywords"}, {}>>,
               <<{"impact"}, {}>>, <<{"preprocessing", "keywords"}, {"overall"}>>,
               <<{}, {"overall"}>>, <<{}, {"windows"}>>, <<{"intent"}, {"batch"}>>, <<{}, {"batch"}>>}}

AllRuns == {SaidRuns, JudgedRuns, DedupRuns, ThreadRuns, SpamRuns, NlpRuns, FlagRuns, AnalysisRuns}
LineageRuns == {ThreadRuns}
==============================================================================
