---------------------------- MODULE MCFunctions ----------------------------
EXTENDS MCScopes, ResultTables

Texts == [kind : {"text"}, minutes : {0, 1, 59, 60}, seconds : {0, 7, 59, 60},
          digits : {<<7>>, <<0, 7>>, <<7, 0>>, <<9, 9>>}]
Deltas == [kind : {"delta"}, seconds : {0, 59, 61, 3599, 3600},
           micro : {0, 5000, 15000, 560000, 994999, 995000, 999999}]
Clocks == {[kind |-> "clock", time |-> Time(h, 1, 2, u)] : h \in {0, 1}, u \in {0, 9999, 129999, 999999}}
TimeQuestions == {[about |-> "time", value |-> v] :
                     v \in Texts \cup Deltas \cup Clocks \cup {[kind |-> "blank"]}}

Row(n, a, born, g, style, heat, final, k) ==
    [id |-> n, athlete |-> a, born |-> born, gender |-> g, style |-> style, result |-> heat,
     final |-> final, competition |-> k.id, start |-> k.start, end |-> k.end, course |-> k.course,
     status |-> k.status]

Meet(id, start, end, course, status) ==
    [id |-> id, start |-> start, end |-> end, course |-> course, status |-> status]

Spring == Meet(1, 20240301, 20240303, "short", Null)      \* the season of 2023
Autumn == Meet(2, 20241001, 20241002, "long", "regional")       \* the season of 2024
Summer == Meet(3, 20250831, 20250901, "long", "national")       \* begins in it and ends after it

RowsOfAll == {Row(1, "a", 2012, "f", "50", 3, Null, Spring), Row(2, "a", 2012, "f", "50", 3, 4, Autumn),
              Row(3, "a", 2012, "f", "50", Null, Null, Autumn), Row(4, "b", 2015, "f", "50", 3, 2, Summer),
              Row(5, "b", 2015, "f", "50", 4, Null, Autumn), Row(6, "c", 2012, "m", "50", 1, Null, Autumn),
              Row(7, "d", 2012, "f", "50", 4, 4, Autumn), Row(8, "a", 2012, "f", "100", 2, Null, Autumn)}

Question(about) ==
    [about |-> about, rows |-> {}, today |-> [year |-> 2025, month |-> 5], style |-> Null, gender |-> Null,
     current |-> FALSE, season |-> Null, year |-> Null, from |-> Null, till |-> Null, courses |-> {}, statuses |-> {},
     categories |-> {}, min_age |-> Null, max_age |-> Null, offset |-> 0, limit |-> 0]

Filters(q) ==
    {q, [q EXCEPT !.style = "50", !.gender = "f", !.limit = 2],
     [q EXCEPT !.season = 2023, !.categories = {"junior", "unknown"}], [q EXCEPT !.current = TRUE, !.limit = 1],
     [q EXCEPT !.current = TRUE, !.today.month = 9, !.today.year = 2024, !.style = "50"],
     [q EXCEPT !.year = 2024, !.categories = {"young", "junior"}, !.offset = 1, !.limit = 1],
     [q EXCEPT !.from = 20241001, !.till = 20241231, !.max_age = 11],
     [q EXCEPT !.courses = {"short"}, !.categories = {"absolute", "young"}, !.min_age = 12],
     [q EXCEPT !.year = 2025, !.categories = {"young"}, !.gender = "f"],
     [q EXCEPT !.statuses = {"regional", "city"}, !.gender = "f"]}

TopQuestions == {[f EXCEPT !.rows = R] : f \in Filters(Question("top")), R \in UpTo(5, RowsOfAll)}
ServerQuestions == {[q EXCEPT !.about = "server"] : q \in
                       {x \in TopQuestions : Cardinality(x.rows) = 2 /\ x.courses = {} /\ x.statuses = {} /\ x.year = Null}}

AthleteQuestions ==
    {[about |-> "athlete", rows |-> [n \in 1 .. k |-> f[n]]] : k \in 0 .. 4,
        f \in [1 .. 4 -> {r \in RowsOfAll : r.athlete = "a"} \cup
                         {Row(9, "a", 2012, "f", "50", 5, 3, Summer), Row(10, "a", 2012, "f", "50", 2, Null, Spring)}]}

RandomQuestions ==
    {[about |-> "random", rows |-> R, today |-> [year |-> y, month |-> m],
      combinations |-> {[style |-> "50", gender |-> g, category |-> c] :
                           g \in {"f", "m"}, c \in {"junior", "kids", "absolute"}}] :
        R \in UpTo(4, RowsOfAll), y \in {2024, 2025}, m \in {8, 9}}

MCQuestions == TimeQuestions \cup TopQuestions \cup ServerQuestions \cup AthleteQuestions \cup RandomQuestions

\* One call at a time: of a list of scopes, or of results.
AllVars == <<input, token, question, answer>>

AllInit == \/ ScopesInit /\ question = Null /\ answer = Null
           \/ TablesInit /\ input = Absent /\ token = Absent

AllNext == \/ input # Absent /\ ScopesNext /\ UNCHANGED tableVars
           \/ question # Null /\ TablesNext /\ UNCHANGED scopeVars

AllSpec == AllInit /\ [][AllNext]_AllVars
=============================================================================
