------------------------------ MODULE CoachLinks ------------------------------
(***************************************************************************)
(* The links between coaches and athletes: a coach invites, an athlete     *)
(* agrees, and either takes it back.                                       *)
(*                                                                         *)
(* Every handler reads the link, decides, and saves the whole row or       *)
(* inserts one; nothing keeps the links of a pair unique, and with several *)
(* any of them may be read.                                                *)
(***************************************************************************)
EXTENDS Naturals

CONSTANTS
    Requests,       \* handler executions, each used once
    Coaches, Athletes,
    None

Statuses == {"pending", "accepted", "rejected_coach", "rejected_athlete"}

Sides == {"coach", "athlete"}

Link == [coach : Coaches, athlete : Athletes, status : Statuses]

ASSUME NamesAssumption == None \notin Coaches \cup Athletes \cup Requests \cup Statuses \cup Link

VARIABLES
    athletes,       \* rows that exist
    links,          \* each link, named by the request that inserted it
    pc,
    job,            \* who asks for what, and of whom
    seen,           \* the link it has read and the status it had
    rivals,         \* history: links of the pair inserted since it found none
    agreed,         \* history: pairs to which the athlete has agreed
    withdrawn       \* history: links that a coach has rejected

local   == <<job, seen>>
history == <<rivals, agreed, withdrawn>>
vars == <<athletes, links, pc, local, history>>

Jobs == [side : Sides, op : {"add", "reject"}, coach : Coaches, athlete : Athletes]

Present == {x \in Requests : links[x] # None}

LinksOf(c, a) == {x \in Present : links[x].coach = c /\ links[x].athlete = a}

SamePair(j, k) == j.coach = k.coach /\ j.athlete = k.athlete

TypeOK ==
    /\ athletes \subseteq Athletes
    /\ links \in [Requests -> Link \cup {None}]
    /\ \A x \in Present : links[x].athlete \in athletes
    /\ pc \in [Requests -> {"idle", "read", "insert", "save", "done", "refused", "failed"}]
    /\ job \in [Requests -> Jobs \cup {None}]
    /\ seen \in [Requests -> [link : Requests \cup {None}, status : Statuses \cup {None}]]
    /\ rivals \in [Requests -> SUBSET Requests]
    /\ agreed \subseteq Coaches \X Athletes
    /\ withdrawn \subseteq Requests

Init ==
    /\ athletes = Athletes
    /\ links = [x \in Requests |-> None]
    /\ pc = [r \in Requests |-> "idle"]
    /\ job = [r \in Requests |-> None]
    /\ seen = [r \in Requests |-> [link |-> None, status |-> None]]
    /\ rivals = [r \in Requests |-> {}]
    /\ agreed = {}
    /\ withdrawn = {}

-----------------------------------------------------------------------------

Goto(r, label) == pc' = [pc EXCEPT ![r] = label]

\* Its own profile comes from the role, the other's from the request.
Start(r) ==
    /\ pc[r] = "idle"
    /\ \E j \in Jobs :
          /\ job' = [job EXCEPT ![r] = j]
          /\ Goto(r, IF j.athlete \in athletes THEN "read" ELSE "refused")
    /\ UNCHANGED <<athletes, links, seen, history>>

Rejected(side) == IF side = "coach" THEN "rejected_coach" ELSE "rejected_athlete"

Other(side) == IF side = "coach" THEN "athlete" ELSE "coach"

\* What is written over a link of status s (None where there is no link), None where
\* nothing is: by a coach that adds, an athlete that adds, and a side that rejects.
Invitation(s) == IF s = None THEN "pending" ELSE IF s = "rejected_coach" THEN "accepted" ELSE None

Agreement(s) == IF s \in {None, "pending", "rejected_athlete"} THEN "accepted" ELSE None

\* Mutated: the other's rejection is not looked for.
RejectionOverriding(side, s) == IF s = None THEN None ELSE Rejected(side)

Rejection(side, s) == IF s \in {None, Rejected(Other(side))} THEN None ELSE Rejected(side)

Answer(j, s) == IF j.op = "reject" THEN Rejection(j.side, s)
                ELSE IF j.side = "coach" THEN Invitation(s) ELSE Agreement(s)

\* What it will write.
Written(r) == Answer(job[r], seen[r].status)

\* Mutated: links that were rejected are not looked for.
FoundAlive(j) == {x \in LinksOf(j.coach, j.athlete) : links[x].status \in {"pending", "accepted"}}

Found(j) == LinksOf(j.coach, j.athlete)

\* Any link of the pair, and the decision from its status.
ReadLink(r) ==
    /\ pc[r] = "read"
    /\ \E x \in IF Found(job[r]) = {} THEN {None} ELSE Found(job[r]) :
          LET s == IF x = None THEN None ELSE links[x].status IN
          /\ seen' = [seen EXCEPT ![r] = [link |-> x, status |-> s]]
          /\ Goto(r, IF Answer(job[r], s) = None THEN "refused"
                     ELSE IF x = None THEN "insert" ELSE "save")
    /\ UNCHANGED <<athletes, links, job, history>>

\* An athlete that writes "accepted" agrees.
Agree(r) ==
    agreed' = IF job[r].side = "athlete" /\ Written(r) = "accepted"
              THEN agreed \cup {<<job[r].coach, job[r].athlete>>} ELSE agreed

Insert(r) ==
    /\ pc[r] = "insert"
    /\ IF job[r].athlete \in athletes
       THEN /\ links' = [links EXCEPT ![r] = [coach |-> job[r].coach, athlete |-> job[r].athlete,
                                              status |-> Written(r)]]
            /\ rivals' = [q \in Requests |-> IF pc[q] = "insert" /\ q # r /\ SamePair(job[q], job[r])
                                             THEN rivals[q] \cup {r} ELSE rivals[q]]
            /\ Agree(r)
            /\ Goto(r, "done")
       ELSE Goto(r, "failed") /\ UNCHANGED <<links, rivals, agreed>>
    /\ UNCHANGED <<athletes, local, withdrawn>>

\* The row is written whatever its status has become; a row that is gone is not.
Save(r) ==
    /\ pc[r] = "save"
    /\ LET x == seen[r].link IN
       IF links[x] = None
       THEN UNCHANGED <<links, agreed, withdrawn>>
       ELSE /\ links' = [links EXCEPT ![x].status = Written(r)]
            /\ Agree(r)
            /\ withdrawn' = IF Written(r) = "rejected_coach" THEN withdrawn \cup {x} ELSE withdrawn
    /\ Goto(r, "done")
    /\ UNCHANGED <<athletes, local, rivals>>

\* The links go with the athlete.
DeleteAthlete(r) ==
    /\ pc[r] = "idle"
    /\ \E a \in athletes :
          /\ athletes' = athletes \ {a}
          /\ links' = [x \in Requests |-> IF links[x] # None /\ links[x].athlete = a
                                          THEN None ELSE links[x]]
    /\ Goto(r, "done")
    /\ UNCHANGED <<local, history>>

\* A statement fails, or the process dies.
Fail(r) ==
    /\ pc[r] \in {"read", "insert", "save"}
    /\ Goto(r, "failed")
    /\ UNCHANGED <<athletes, links, local, history>>

Next == \E r \in Requests :
    Start(r) \/ ReadLink(r) \/ Insert(r) \/ Save(r) \/ DeleteAthlete(r) \/ Fail(r)

Spec == Init /\ [][Next]_vars

-----------------------------------------------------------------------------
(* Properties.                                                             *)

\* A pair has two links only if the second was on its way when the first came
\* (add_athlete and add_coach look before they insert).
OneLinkUnlessRaced ==
    \A x, y \in Present :
        x # y /\ SamePair(links[x], links[y]) => x \in rivals[y] \/ y \in rivals[x]

\* Nobody but the one who rejected takes a rejection back, except by a save decided on
\* an earlier status (both handlers of both sides).
RejectionStands ==
    [][\A x \in Present, s \in Sides :
          links[x].status = Rejected(s) /\ links'[x] # None /\ links'[x].status # Rejected(s) =>
             \E r \in Requests :
                /\ pc[r] = "save" /\ seen[r].link = x
                /\ job[r].side = s \/ seen[r].status # links[x].status]_vars

\* A link is accepted only if its athlete has agreed at some time, or its coach has
\* rejected it and thought better of it: inviting alone accepts nothing.
AcceptedExplained ==
    \A x \in Present : links[x].status = "accepted" =>
        <<links[x].coach, links[x].athlete>> \in agreed \/ x \in withdrawn

\* What is true of every link.
LinksExplained == OneLinkUnlessRaced /\ AcceptedExplained
=============================================================================
