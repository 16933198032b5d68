------------------------------- MODULE Forest -------------------------------
(***************************************************************************)
(* velum-forest: what a cover service answers, and the traffic profile     *)
(* with its authenticated rotation and its kill switch.                    *)
(*                                                                         *)
(* A profile is its identifier, its expiry and its write sizes; the        *)
(* verifier belongs to the application, so an update may pass or not.      *)
(***************************************************************************)
EXTENDS Naturals, Sequences

CONSTANTS
  NoProfile,
  TrafficProfiles,  \* profiles an update may carry
  MaxForestTime     \* bound: ticks of the clock

ASSUME ForestAssumption ==
  /\ \A p \in TrafficProfiles : p.expires \in Nat       \* seconds since the epoch
  /\ MaxForestTime \in Nat

VARIABLES
  active,           \* the active profile
  enabled,          \* traffic_enabled, the kill switch
  forestNow,        \* the clock
  rotations         \* profiles that were active before, with their time of rotation

forestVars == <<active, enabled, forestNow, rotations>>

----------------------------------------------------------------------------
(* CoverServiceConfig::validate.                                           *)
ValidPath(path) == path # "bad path"
ValidContentType(type) == type # ""
CoverConfigValid(c) ==
  /\ c.schema = 1 /\ c.headTimeout > 0 /\ c.upstreamTimeout > 0
  /\ c.mode = "static" =>
       /\ c.assets # << >>
       /\ \A i \in DOMAIN c.assets : ValidPath(c.assets[i].path) /\ ValidContentType(c.assets[i].type)

(* serve_static: only GET and HEAD are answered, HEAD without the body.    *)
StaticAnswer(c, request) ==
  IF request.method \notin {"GET", "HEAD"} THEN "dropped"
  ELSE IF \E i \in DOMAIN c.assets : c.assets[i].path = request.path
  THEN IF request.method = "HEAD" THEN "found, head" ELSE "found"
  ELSE IF request.method = "HEAD" THEN "not found, head" ELSE "not found"

(* serve_cover_connection, for a head that came in time (or did not) and   *)
(* an upstream that could be reached (or not).                             *)
CoverAnswer(c, request, inTime, reached) ==
  IF ~CoverConfigValid(c) \/ ~inTime \/ ~request.complete THEN "dropped"
  ELSE IF c.mode = "static" THEN StaticAnswer(c, request)
  ELSE IF reached THEN "relayed" ELSE "dropped"

----------------------------------------------------------------------------
(* TrafficProfile::validate.                                               *)
ProfileValid(p, now) ==
  /\ p.schema = 1 /\ p.identifier # "" /\ p.sizes # << >>
  /\ \A i \in 1 .. Len(p.sizes) - 1 : p.sizes[i] < p.sizes[i + 1]
  /\ p.expires > now

ForestInit ==
  /\ forestNow = 0 /\ enabled = TRUE /\ rotations = << >>
  /\ active \in {p \in TrafficProfiles : ProfileValid(p, 0)}

(* Mutant: a rotation may go back to a profile that expires earlier.       *)
RotateBack(p) ==
  /\ ProfileValid(p, forestNow)
  /\ p.identifier # active.identifier
  /\ active' = p /\ rotations' = Append(rotations, active)
  /\ UNCHANGED <<enabled, forestNow>>

(* ProfileStore::rotate, of an update the verifier accepted.               *)
Rotate(p) ==
  /\ ProfileValid(p, forestNow)
  /\ p.identifier # active.identifier
  /\ p.expires > active.expires
  /\ active' = p /\ rotations' = Append(rotations, active)
  /\ UNCHANGED <<enabled, forestNow>>

DisableAfterFailure == enabled /\ enabled' = FALSE /\ UNCHANGED <<active, forestNow, rotations>>
Enable == ~enabled /\ enabled' = TRUE /\ UNCHANGED <<active, forestNow, rotations>>
ForestTick ==
  /\ forestNow < MaxForestTime /\ forestNow' = forestNow + 1
  /\ UNCHANGED <<active, enabled, rotations>>

(* ForestRuntime::active_profile.                                          *)
ActiveProfile == IF enabled /\ active.expires > forestNow THEN active ELSE NoProfile

ForestNext ==
  \/ \E p \in TrafficProfiles : Rotate(p)
  \/ DisableAfterFailure \/ Enable \/ ForestTick

----------------------------------------------------------------------------
(* A profile that was rotated out never comes back, not even when its      *)
(* authenticated update is applied a second time, whatever the kill switch *)
(* and the clock did in between; and no profile is shown past its end.     *)
NoProfileReturns ==
  /\ \A i \in DOMAIN rotations : active # rotations[i]
  /\ ActiveProfile # NoProfile => ProfileValid(ActiveProfile, forestNow)
=============================================================================
