------------------------------ MODULE MCRoles ------------------------------
(***************************************************************************)
(* The links of an athlete and its profile, side by side: they share no    *)
(* state but the athlete, whose deletion each has as an action of its own. *)
(* A behaviour is of one of them.                                          *)
(***************************************************************************)
EXTENDS CoachLinks, TLC

CONSTANTS Savers, Files, Foreign, Clubs

ASSUME FilesAssumption == Files \cap Foreign = {} /\ None \notin Files \cup Foreign \cup Clubs

VARIABLES profile, files, savers, op, row, want, removed, doubtful, dropped

P == INSTANCE AthleteProfile WITH Requests <- Savers, pc <- savers, seen <- row

profileVars == <<profile, files, savers, op, row, want, removed, doubtful, dropped>>
rolesVars   == <<vars, profileVars>>

RolesInit == Init /\ P!Init

RolesNext ==
    \/ /\ \A r \in Savers : savers[r] = "idle"
       /\ Next /\ UNCHANGED profileVars
    \/ /\ \A r \in Requests : pc[r] = "idle"
       /\ P!Next /\ UNCHANGED vars

RolesSpec == RolesInit /\ [][RolesNext]_rolesVars

AvatarThere == P!AvatarThere
ColumnsKept == P!ColumnsKept

Symmetry == Permutations(Requests) \cup Permutations(Savers)
=============================================================================
