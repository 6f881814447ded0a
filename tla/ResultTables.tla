---------------------------- MODULE ResultTables ----------------------------
(***************************************************************************)
(* What is computed of results when they are read: the time in a text, the *)
(* time that counts of a heat and a final, the top tables, the marks of an *)
(* athlete's best results, and the combination the front page picks.       *)
(* A question is one call with the rows it finds; the answer is what it    *)
(* returns. A row joins a result with its athlete and its competition.     *)
(***************************************************************************)
EXTENDS Integers, Sequences, FiniteSets, Functions, Orders

CONSTANTS
    Null, Failed,   \* no value; an exception
    Questions       \* what may be asked: [about, ...] as the actions below read it

Million == 1000 * 1000      \* microseconds in a second

Times == [hour : 0 .. 23, minute : 0 .. 59, second : 0 .. 59, microsecond : 0 .. Million - 1]

\* What a time is read from; the pattern takes one digit after the point, or two.
Readable(v) ==
    \/ v.kind = "blank"
    \/ v.kind = "clock" /\ v.time \in Times
    \/ v.kind = "delta" /\ v.seconds \in Nat /\ v.micro \in 0 .. Million - 1
    \/ v.kind = "text" /\ v.minutes \in Nat /\ v.seconds \in Nat
                        /\ v.digits \in Seq(0 .. 9) /\ Len(v.digits) \in {1, 2}

\* Rows as joins make them: what they say of an athlete, or of a competition, is the same
\* in all of them.
Joined(R) ==
    /\ IsFiniteSet(R)
    /\ \A r \in R : {r.result, r.final} \subseteq Nat \cup {Null} /\ {r.born, r.start, r.end} \subseteq Int
    /\ \A r, s \in R : r.athlete = s.athlete => r.born = s.born /\ r.gender = s.gender
    /\ \A r, s \in R : r.competition = s.competition => r.start = s.start

ASSUME QuestionsAssumption ==
    /\ Null \notin Int /\ Failed \notin Times
    /\ Failed \notin [time : Times, again : Times \cup {Failed}]
    /\ \A q \in Questions :
          /\ q.about = "time" => Readable(q.value)
          /\ q.about \in {"top", "random"} => Joined(q.rows) /\ {q.today.year, q.today.month} \subseteq Int
          /\ q.about = "athlete" => q.rows \in Seq(Range(q.rows)) /\ Joined(Range(q.rows))
          /\ q.about = "top" => {q.offset, q.limit} \subseteq Nat /\ {q.min_age, q.max_age} \subseteq Int \cup {Null}

VARIABLES question, answer

tableVars == <<question, answer>>

-----------------------------------------------------------------------------
(* Times: FlexibleTime.                                                    *)

Time(h, m, s, u) == [hour |-> h, minute |-> m, second |-> s, microsecond |-> u]

\* The constructor of datetime.time refuses what no clock shows.
Clock(h, m, s, u) ==
    IF Time(h, m, s, u) \in Times THEN Time(h, m, s, u) ELSE Failed

\* Python rounds a half to the even neighbour.
Round(n, d) ==
    LET q == n \div d IN
    IF 2 * (n % d) > d \/ (2 * (n % d) = d /\ q % 2 = 1) THEN q + 1 ELSE q

Number(digits) == IF Len(digits) = 1 THEN digits[1] ELSE 10 * digits[1] + digits[2]

\* Mutated: the minutes of a duration start again with the hour.
ValidateWithinHour(value) ==
    CASE value.kind = "blank" -> Clock(0, 0, 0, 0)
      [] value.kind = "clock" -> value.time
      [] value.kind = "delta" -> Clock(0, (value.seconds \div 60) % 60, value.seconds % 60,
                                       10000 * Round(value.micro, 10000))
      [] value.kind = "text"  -> Clock(0, value.minutes, value.seconds, 10000 * Number(value.digits))
      [] OTHER                -> Failed

\* A blank text is the time zero; the digits after the point are a number of hundredths.
validate(value) ==
    CASE value.kind = "blank" -> Clock(0, 0, 0, 0)
      [] value.kind = "clock" -> value.time
      [] value.kind = "delta" -> Clock(0, value.seconds \div 60, value.seconds % 60,
                                       10000 * Round(value.micro, 10000))
      [] value.kind = "text"  -> Clock(0, value.minutes, value.seconds, 10000 * Number(value.digits))
      [] OTHER                -> Failed

\* As printed: the hour is written only when there is one.
str(t) ==
    LET h == t.microsecond \div 10000 IN
    IF t.hour # 0 THEN [kind |-> "hours", of |-> t]
    ELSE [kind |-> "text", minutes |-> t.minute, seconds |-> t.second, digits |-> <<h \div 10, h % 10>>]

\* A value is read, stored and printed; what is printed is what other code sends back.
ReadTime ==
    /\ answer = Null /\ question.about = "time"
    /\ answer' = LET t == validate(question.value) IN
                 IF t = Failed THEN Failed ELSE [time |-> t, again |-> validate(str(t))]
    /\ UNCHANGED question

-----------------------------------------------------------------------------
(* Top tables.                                                             *)

Least(S) == CHOOSE n \in S : \A m \in S : n <= m

\* The generated column: the better of the heat and the final.
resolved_time(r) ==
    LET T == {r.result, r.final} \ {Null} IN IF T = {} THEN Null ELSE Least(T)

Category(min, max) == [min |-> min, max |-> max]

categories ==
    [kids   |-> Category(Null, 9), young |-> Category(10, 11), junior |-> Category(12, 13),
     cadet  |-> Category(14, 15), junior_senior |-> Category(16, 17), youth |-> Category(18, 21),
     adult  |-> Category(22, 34), masters |-> Category(35, 44), legends |-> Category(45, 150),
     absolute |-> Category(Null, Null)]

\* A season begins in September and has the number of the year it begins in.
current_season(today) == IF today.month >= 9 THEN today.year ELSE today.year - 1

Date(y, m, d) == 10000 * y + 100 * m + d

\* The competition lies between the two days.
Within(r, first, last) == r.start >= first /\ r.end <= last

Season(r, s) == Within(r, Date(s, 9, 1), Date(s + 1, 8, 31))
Year(r, y)   == Within(r, Date(y, 1, 1), Date(y, 12, 31))

Base(q) ==
    {r \in q.rows : /\ resolved_time(r) # Null
                    /\ q.style \in {Null, r.style}
                    /\ q.gender \in {Null, r.gender}}

\* The results among which the best of an athlete is looked for.
Dated(q) ==
    LET season == IF q.current THEN current_season(q.today) ELSE q.season IN
    {r \in Base(q) : /\ season # Null => Season(r, season)
                     /\ q.year # Null => Year(r, q.year)
                     /\ q.from # Null => r.start >= q.from
                     /\ q.till # Null => r.end <= q.till
                     /\ q.courses # {} => r.course \in q.courses
                     /\ q.statuses # {} => r.status \in q.statuses}

\* Born not before year - max and not after year - min; Null is no bound.
Aged(q, r, bounds) ==
    /\ bounds.max # Null => r.born >= q.today.year - bounds.max
    /\ bounds.min # Null => r.born <= q.today.year - bounds.min

\* Unknown categories are skipped; one without bounds lifts the condition.
InCategories(q, r) ==
    LET known == q.categories \cap DOMAIN categories IN
    \/ known = {} \/ "absolute" \in known
    \/ \E c \in known : Aged(q, r, categories[c])

\* Every result that equals the best of its athlete, the ages filtered before the ranks.
Listed(q) ==
    {r \in Base(q) : /\ \E b \in Dated(q) : b.athlete = r.athlete /\ b.style = r.style
                     /\ resolved_time(r) =
                          Least({resolved_time(b) : b \in {d \in Dated(q) :
                                    d.athlete = r.athlete /\ d.style = r.style}})
                     /\ InCategories(q, r)
                     /\ Aged(q, r, Category(q.min_age, q.max_age))}

\* Mutated: every row that is better counts, not every time (rank for dense_rank).
RankOfRows(R, r) ==
    1 + Cardinality({x \in R : x.style = r.style /\ x.gender = r.gender
                               /\ resolved_time(x) < resolved_time(r)})

\* dense_rank over the stroke, the distance and the gender.
row_num(R, r) ==
    1 + Cardinality({resolved_time(x) : x \in {y \in R :
            y.style = r.style /\ y.gender = r.gender /\ resolved_time(y) < resolved_time(r)}})

\* A page in the order of the ranks, whatever the order of equal ones; 0 is no limit.
PagesOf(R, offset, limit) ==
    LET n == Cardinality(R) IN
    {P \in SUBSET R : \E S \in SUBSET (R \ P) :
        /\ Cardinality(S) = Least({offset, n})
        /\ Cardinality(P) = IF limit = 0 THEN n - Cardinality(S) ELSE Least({limit, n - Cardinality(S)})
        /\ \A s \in S, r \in R \ S : row_num(R, s) <= row_num(R, r)
        /\ \A p \in P, r \in R \ (S \cup P) : row_num(R, p) <= row_num(R, r)}

build_top_results_query(q) ==
    {{[row |-> r, rank |-> row_num(Listed(q), r)] : r \in P} : P \in PagesOf(Listed(q), q.offset, q.limit)}

GetTop ==
    /\ answer = Null /\ question.about = "top"
    /\ \E table \in build_top_results_query(question) : answer' = table
    /\ UNCHANGED question

\* What gets through from the endpoint for servers, which passes its arguments by
\* position: `current` as the year 1; a season as the categories, which are not iterable.
ByPosition(q) ==
    [q EXCEPT !.season = Null, !.current = FALSE, !.courses = {}, !.statuses = {},
              !.categories = {}, !.year = IF q.current THEN 1 ELSE Null]

GetTopForServers ==
    /\ answer = Null /\ question.about = "server"
    /\ IF question.season # Null THEN answer' = Failed
       ELSE \E table \in build_top_results_query(ByPosition(question)) : answer' = table
    /\ UNCHANGED question

-----------------------------------------------------------------------------
(* The results of an athlete, and the pick of the front page.              *)

\* Mutated: the later of two equal times is the best.
MarkedLast(rows, best, n) ==
    LET t == resolved_time(rows[n])
        s == rows[n].style
    IN IF t # Null /\ (s \in DOMAIN best => resolved_time(rows[best[s]]) >= t)
       THEN [x \in DOMAIN best \cup {s} |-> IF x = s THEN n ELSE best[x]] ELSE best

\* The best of each style, when result n has been read after those before it.
Marked(rows, best, n) ==
    LET t == resolved_time(rows[n])
        s == rows[n].style
    IN IF t # Null /\ (s \in DOMAIN best => resolved_time(rows[best[s]]) > t)
       THEN [x \in DOMAIN best \cup {s} |-> IF x = s THEN n ELSE best[x]] ELSE best

\* The position of the best of every style, in the order the rows are read.
best_results(rows) ==
    LET best[n \in 0 .. Len(rows)] ==
            IF n = 0 THEN [s \in {} |-> 0] ELSE Marked(rows, best[n - 1], n)
    IN best[Len(rows)]

\* Where each competition is met first, and their order: the latest first, those of one
\* day in the order they came.
Firsts(rows) == {n \in DOMAIN rows : \A m \in 1 .. n - 1 : rows[m].competition # rows[n].competition}

LaterFirst(rows) ==
    {p \in (DOMAIN rows) \X (DOMAIN rows) :
        \/ rows[p[1]].start > rows[p[2]].start
        \/ rows[p[1]].start = rows[p[2]].start /\ p[1] < p[2]}

\* Under each competition its results, which stay in the order they came.
ByCompetition(rows) ==
    [k \in 1 .. Cardinality(Firsts(rows)) |->
        {n \in DOMAIN rows :
            rows[n].competition = rows[Sorted(Firsts(rows), LaterFirst(rows))[k]].competition}]

get_athlete_results ==
    /\ answer = Null /\ question.about = "athlete"
    /\ answer' = [groups |-> ByCompetition(question.rows), best |-> Range(best_results(question.rows))]
    /\ UNCHANGED question

\* A style, a gender and a category with three results this season, timed or not.
Counted(q, c) ==
    {r \in q.rows : /\ r.style = c.style /\ r.gender = c.gender
                    /\ Aged(q, r, categories[c.category])
                    /\ r.start \in Date(current_season(q.today), 9, 1) .. Date(current_season(q.today) + 1, 8, 31)}

get_random_top ==
    /\ answer = Null /\ question.about = "random"
    /\ \/ \E c \in question.combinations : Cardinality(Counted(question, c)) >= 3 /\ answer' = c
       \/ /\ \A c \in question.combinations : Cardinality(Counted(question, c)) < 3
          /\ answer' = Failed
    /\ UNCHANGED question

TablesInit == question \in Questions /\ answer = Null

TablesNext == ReadTime \/ GetTop \/ GetTopForServers \/ get_athlete_results \/ get_random_top

-----------------------------------------------------------------------------
(* What the answers promise.                                               *)

Asked(about) == answer # Null /\ question.about = about

\* The second of the day, and the microseconds that digits after a point stand for.
SecondOf(t) == 3600 * t.hour + 60 * t.minute + t.second

Fraction(digits) == 100000 * digits[1] + (IF Len(digits) = 2 THEN 10000 * digits[2] ELSE 0)

\* A text or a duration that is accepted is the time it shows, a duration to half a
\* hundredth, and one that is refused has a part beyond its bounds or would round up to
\* the next second; what is printed is read back, within the hour, as the same time to the
\* hundredth (FlexibleTime.validate and __str__). Except a text with one digit after the
\* point, the digit of which is counted as hundredths: of it is said only that it is in
\* the second it shows and not later than the time it shows.
TimesRead ==
    Asked("time") =>
        LET v == question.value
            t == answer.time
            back == answer.again
        IN /\ answer = Failed =>
                \/ v.kind = "text" /\ (v.minutes > 59 \/ v.seconds > 59)
                \/ v.kind = "delta" /\ (v.seconds >= 3600 \/ v.micro >= Million - 5000)
           /\ answer # Failed /\ v.kind = "text" =>
                /\ SecondOf(t) = 60 * v.minutes + v.seconds
                /\ t.microsecond <= Fraction(v.digits)
                /\ Len(v.digits) = 2 => t.microsecond = Fraction(v.digits)
           /\ answer # Failed /\ v.kind = "delta" =>
                LET later == SecondOf(t) - v.seconds
                    off == Million * later + t.microsecond - v.micro
                IN later \in {0, 1} /\ -5000 <= off /\ off <= 5000
           /\ answer # Failed =>
                IF back = Failed THEN t.hour # 0
                ELSE /\ SecondOf(back) = SecondOf(t)
                     /\ back.microsecond = 10000 * (t.microsecond \div 10000)

\* The age of an athlete, as the year and the birth say, is one a question asks for.
OfAge(q, a) ==
    LET age == q.today.year - a.born
        In(c) == (c.min # Null => age >= c.min) /\ (c.max # Null => age <= c.max)
    IN /\ In(Category(q.min_age, q.max_age))
       /\ q.categories \cap DOMAIN categories # {} =>
              \E c \in q.categories \cap DOMAIN categories : In(categories[c])

\* An athlete's place is one more than the number of different times that athletes of
\* his gender swam faster in the style, each with his best in the period; nobody who
\* belongs into the table is left out of it, and nobody stands in it with a time that
\* is not his best (build_top_results_query). Its rows may be of another period: a
\* result that equals the best is listed wherever it was swum.
BestAndPlace ==
    Asked("top") =>
        LET q == question
            swam == {r \in Dated(q) : OfAge(q, r)}
            Best(a, s) == Least({resolved_time(r) : r \in {x \in swam : x.athlete = a /\ x.style = s}})
            Place(r) == 1 + Cardinality({t \in {Best(x.athlete, x.style) :
                                  x \in {y \in swam : y.style = r.style /\ y.gender = r.gender}} :
                                t < Best(r.athlete, r.style)})
        IN /\ \A e \in answer : /\ \E r \in swam : r.athlete = e.row.athlete /\ r.style = e.row.style
                                /\ resolved_time(e.row) = Best(e.row.athlete, e.row.style)
                                /\ e.rank = Place(e.row)
           /\ q.limit = 0 /\ q.offset = 0 =>
                \A r \in swam : \E e \in answer : e.row.athlete = r.athlete /\ e.row.style = r.style
           /\ q.offset = 0 => \A r \in swam, e \in answer :
                Place(r) < e.rank =>
                    \E f \in answer : f.row.athlete = r.athlete /\ f.row.style = r.style

\* Of an athlete's results in a style with a time one is marked, none is better and of
\* equal ones it is the first; every result is shown once, beside those of its competition
\* and no others, the latest competition first (get_athlete_results).
BestMarked ==
    Asked("athlete") =>
        LET rows == question.rows
            groups == answer.groups
            Time_(n) == resolved_time(rows[n])
        IN /\ \A n \in DOMAIN rows :
                n \in answer.best <=>
                    /\ Time_(n) # Null
                    /\ \A m \in DOMAIN rows : rows[m].style = rows[n].style /\ Time_(m) # Null =>
                           Time_(n) < Time_(m) \/ (Time_(n) = Time_(m) /\ n <= m)
           /\ \A n \in DOMAIN rows : \E k \in DOMAIN groups : n \in groups[k]
           /\ \A k, l \in DOMAIN groups : \A n \in groups[k], m \in groups[l] :
                /\ k = l <=> rows[n].competition = rows[m].competition
                /\ k < l => rows[n].start >= rows[m].start

\* Somebody was counted for the pick of the front page, and the table it opens shows
\* somebody, unless those who were counted have no time yet or the competition runs on into the next season
\* (get_random_top, build_top_results_query).
PickHasTable ==
    Asked("random") /\ answer # Failed =>
        LET q == [rows |-> question.rows, today |-> question.today, style |-> answer.style,
                  gender |-> answer.gender, categories |-> {answer.category}, min_age |-> Null,
                  max_age |-> Null, current |-> TRUE, season |-> Null, year |-> Null, from |-> Null,
                  till |-> Null, courses |-> {}, statuses |-> {}]
        IN /\ Counted(question, answer) # {}
           /\ \/ Listed(q) # {}
              \/ \A r \in Counted(question, answer) :
                    resolved_time(r) = Null \/ r.end > Date(current_season(question.today) + 1, 8, 31)

\* What a table shows, of its own and opened from the front page.
TableIsBest == BestAndPlace /\ PickHasTable
=============================================================================
