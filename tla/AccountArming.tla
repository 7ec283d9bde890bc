---------------------------- MODULE AccountArming ----------------------------
(***************************************************************************)
(* Which account may an order reach?                                       *)
(*                                                                         *)
(*   Matriks   external: the account its user is logged in to, at will     *)
(*   gateway   its last account verification, position snapshot and copy   *)
(*             of the server's arming; loses all of it when it restarts    *)
(*   server    the arming rows of system_config, written key by key with a *)
(*             commit each; the admin's arm and disarm requests; the       *)
(*             account watcher and the scanner task that dispatches        *)
(*                                                                         *)
(* The mode is AUTO_TRADE throughout.  A session reference is a digest of  *)
(* the account and of the time the algo started, so the pair of them.      *)
(***************************************************************************)
EXTENDS Naturals

CONSTANTS
  Accounts, NoAcc,  \* account references, and the empty one
  Real,             \* those of type REAL; the others are DEMO accounts
  First,            \* those that may be logged in to at first
  MaxSwitches,      \* bound: logins to another account
  MaxGwStarts,      \* bound: restarts of the gateway
  MaxSrvStarts,     \* bound: restarts of the server
  MaxArms           \* bound: requests to arm, requests to disarm

ASSUME ConstantsAssumption ==
  /\ Real \subseteq Accounts /\ First \subseteq Accounts /\ NoAcc \notin Accounts
  /\ {MaxSwitches, MaxGwStarts, MaxSrvStarts, MaxArms} \subseteq Nat

VARIABLES
  active,    \* external: the account Matriks is logged in to
  epoch,     \* starts of the gateway so far (_startedAt)
  gw,        \* the gateway's memory
  fetch,     \* its configuration request; _configFetchLock admits one
  db,        \* realAccountArmed, armedAccountRef, armedAccountSessionRef
  arm,       \* the arm request: keys left to write and the account it read
  disarm,    \* per author of a disarm: keys left to clear
  seen,      \* the watcher's baseline
  scan,      \* the scanner task: its step and the health answer it holds
  wire,      \* the last POST /order: the account and session it was decided for,
             \* how far it got, the ones SendLimitOrder reached; history: whether
             \* the login changed after the last comparison
  validated, \* history: REAL accounts an arm request has read
  switches, starts, requests

bounds  == <<switches, starts, requests>>
server  == <<db, arm, disarm, seen, scan>>
vars    == <<active, epoch, gw, fetch, server, wire, validated, bounds>>

NoSession == <<NoAcc, 0>>
Sessions  == {<<a, e>> : a \in Accounts, e \in 0..MaxGwStarts} \union {NoSession}
FreshGw   == [ref |-> NoAcc, fresh |-> FALSE, changed |-> FALSE, snap |-> NoAcc,
              own |-> NoAcc, armed |-> FALSE, armedRef |-> NoAcc]
NoFetch   == [step |-> "idle", ref |-> NoAcc, armed |-> FALSE, armedRef |-> NoAcc]
NoArm     == [step |-> "idle", session |-> NoSession]
Disarmers == {"watcher", "admin", "startup"}
NoWire    == [session |-> NoSession, step |-> "none", now |-> NoSession, raced |-> FALSE]

Init ==
  /\ active \in First /\ epoch = 0
  /\ gw = FreshGw /\ fetch = NoFetch
  /\ db = [armed |-> FALSE, ref |-> NoAcc, session |-> NoSession]
  /\ arm = NoArm /\ disarm = [d \in Disarmers |-> "idle"]
  /\ seen = NoSession
  /\ scan = [step |-> "idle", session |-> NoSession]
  /\ wire = NoWire /\ validated = {}
  /\ switches = 0 /\ starts = 0 /\ requests = 0

-----------------------------------------------------------------------------
(* The gateway.                                                            *)

\* External: the user logs in to another account.
Login ==
  /\ switches < MaxSwitches
  /\ active' \in Accounts \ {active}
  /\ switches' = switches + 1
  /\ wire' = [wire EXCEPT !.raced = @ \/ wire.step = "checked"]
  /\ UNCHANGED <<epoch, gw, fetch, server, validated, starts, requests>>

\* RefreshAccountVerification; the change is remembered until the next one.
Verified(g) ==
  LET changed == g.ref # NoAcc /\ g.ref # active
  IN [g EXCEPT !.ref = active, !.fresh = TRUE, !.changed = changed,
               !.snap = IF changed THEN NoAcc ELSE @]
Unverified(g) == [g EXCEPT !.fresh = FALSE, !.snap = NoAcc]

\* Any handler or the timer refreshes the verification, or fails to.
Verify ==
  /\ gw' = Verified(gw)
  /\ UNCHANGED <<active, epoch, fetch, server, wire, validated, bounds>>
VerifyFails ==
  /\ gw' = Unverified(gw)
  /\ UNCHANGED <<active, epoch, fetch, server, wire, validated, bounds>>

\* LoadRealPositionsSnapshot, or a position event of the account.
LoadPositions ==
  /\ gw' = [Verified(gw) EXCEPT !.snap = active]
  /\ UNCHANGED <<active, epoch, fetch, server, wire, validated, bounds>>

\* FetchAndApplyServerConfigAsync: verify, or fail to, and ask
\* with the last account verified,
FetchStart ==
  /\ fetch.step = "idle"
  /\ \E g \in {Verified(gw), Unverified(gw)} :
       /\ gw' = g
       /\ fetch' = [NoFetch EXCEPT !.step = "sent", !.ref = g.ref]
  /\ UNCHANGED <<active, epoch, server, wire, validated, bounds>>

\* the server answers with one consistent read of its rows,
FetchAnswer ==
  /\ fetch.step = "sent"
  /\ fetch' = [fetch EXCEPT !.step = "answered", !.armed = db.armed, !.armedRef = db.ref]
  /\ UNCHANGED <<active, epoch, gw, server, wire, validated, bounds>>

\* Mutation: a reference the answer leaves empty keeps its old value.
FetchApplyKeepsRef ==
  /\ fetch.step = "answered" /\ fetch.ref = gw.ref /\ gw.ref # NoAcc
  /\ gw' = [gw EXCEPT !.own = fetch.ref, !.armed = fetch.armed,
                      !.armedRef = IF fetch.armedRef # NoAcc THEN fetch.armedRef ELSE @]
  /\ fetch' = NoFetch
  /\ UNCHANGED <<active, epoch, server, wire, validated, bounds>>

\* the answer is applied unless it is for another account than the last one
\* verified; a request may fail at any time.
FetchApply ==
  /\ fetch.step = "answered" /\ fetch.ref = gw.ref /\ gw.ref # NoAcc
  /\ gw' = [gw EXCEPT !.own = fetch.ref, !.armed = fetch.armed, !.armedRef = fetch.armedRef]
  /\ fetch' = NoFetch
  /\ UNCHANGED <<active, epoch, server, wire, validated, bounds>>
FetchFail ==
  /\ fetch.step # "idle"
  /\ fetch' = NoFetch
  /\ UNCHANGED <<active, epoch, gw, server, wire, validated, bounds>>

\* HandleOrder's account and position gates, then CheckDispatchGates.
Gates(session) ==
  /\ session = <<gw.ref, epoch>> /\ gw.fresh /\ gw.snap # NoAcc /\ ~gw.changed
  /\ gw.own = gw.ref
  /\ gw.ref \in Real => gw.armed /\ gw.armedRef = gw.ref

GatePass ==
  /\ wire.step = "asked" /\ Gates(wire.session)
  /\ wire' = [wire EXCEPT !.step = "gated"]
  /\ UNCHANGED <<active, epoch, gw, fetch, server, validated, bounds>>

\* Mutation: the account is not looked at again.
SameAccountTrusted(g, session) == TRUE

\* SendGatewayLimitOrder compares once more with a fresh verification,
SameAccount(g, session) == session = <<g.ref, epoch>> /\ g.snap = g.ref

FinalCheck ==
  /\ wire.step = "gated"
  /\ \E g \in {Verified(gw), Unverified(gw)} :
       /\ gw' = g
       /\ wire' = IF SameAccount(g, wire.session)
                  THEN [wire EXCEPT !.step = "checked"] ELSE NoWire
  /\ UNCHANGED <<active, epoch, fetch, server, validated, bounds>>

\* and calls SendLimitOrder, which names no account: it goes to the active one.
SdkSend ==
  /\ wire.step = "checked"
  /\ wire' = [wire EXCEPT !.step = "sent", !.now = <<active, epoch>>]
  /\ UNCHANGED <<active, epoch, gw, fetch, server, validated, bounds>>

\* A gate refuses, or the request never arrives.
GateRefuse ==
  /\ wire.step = "asked"
  /\ wire' = NoWire
  /\ UNCHANGED <<active, epoch, gw, fetch, server, validated, bounds>>

\* The algo is stopped and started: OnInit begins with empty memory.
GwRestart ==
  /\ epoch < MaxGwStarts
  /\ epoch' = epoch + 1
  /\ gw' = FreshGw /\ fetch' = NoFetch /\ wire' = NoWire
  /\ UNCHANGED <<active, server, validated, bounds>>

-----------------------------------------------------------------------------
(* The server.                                                             *)

\* arm_real_account reads the live account, which must be REAL, from Matriks
\* itself and not from the gateway's last verification.
ArmRead ==
  /\ arm.step = "idle" /\ requests < MaxArms /\ active \in Real
  /\ arm' = [step |-> "ref", session |-> <<active, epoch>>]
  /\ validated' = validated \union {active}
  /\ requests' = requests + 1
  /\ UNCHANGED <<active, epoch, gw, fetch, db, disarm, seen, scan, wire, switches, starts>>

\* set_admin_config_value commits each key: the reference, the session (and
\* the type, which nothing reads back), the flag last.
ArmWrite ==
  /\ \/ /\ arm.step = "ref"
        /\ db' = [db EXCEPT !.ref = arm.session[1]]
        /\ arm' = [arm EXCEPT !.step = "session"]
     \/ /\ arm.step = "session"
        /\ db' = [db EXCEPT !.session = arm.session]
        /\ arm' = [arm EXCEPT !.step = "armed"]
     \/ /\ arm.step = "armed"
        /\ db' = [db EXCEPT !.armed = TRUE]
        /\ arm' = NoArm
  /\ UNCHANGED <<active, epoch, gw, fetch, disarm, seen, scan, wire, validated, bounds>>

\* disarm_real_account: the flag first, then the references.
DisarmWrite(d) ==
  /\ \/ /\ disarm[d] = "armed"
        /\ db' = [db EXCEPT !.armed = FALSE]
        /\ disarm' = [disarm EXCEPT ![d] = "ref"]
     \/ /\ disarm[d] = "ref"
        /\ db' = [db EXCEPT !.ref = NoAcc]
        /\ disarm' = [disarm EXCEPT ![d] = "session"]
     \/ /\ disarm[d] = "session"
        /\ db' = [db EXCEPT !.session = NoSession]
        /\ disarm' = [disarm EXCEPT ![d] = "idle"]
  /\ UNCHANGED <<active, epoch, gw, fetch, arm, seen, scan, wire, validated, bounds>>

AdminDisarm ==
  /\ disarm["admin"] = "idle" /\ requests < MaxArms
  /\ disarm' = [disarm EXCEPT !["admin"] = "armed"]
  /\ requests' = requests + 1
  /\ UNCHANGED <<active, epoch, gw, fetch, db, arm, seen, scan, wire, validated, switches, starts>>

\* The server restarts: requests die between two commits, the watcher forgets
\* its baseline, and an armed account is disarmed before the scanner starts.
ServerRestart ==
  /\ starts < MaxSrvStarts
  /\ starts' = starts + 1
  /\ arm' = NoArm /\ seen' = NoSession
  /\ disarm' = [d \in Disarmers |-> IF d = "startup" /\ db.armed THEN "armed" ELSE "idle"]
  /\ scan' = [step |-> "idle", session |-> NoSession]
  /\ UNCHANGED <<active, epoch, gw, fetch, db, wire, validated, switches, requests>>

\* A tick or a dispatch reads /health, which warms the verification up; an
\* account of unknown type stops it here.
ReadHealth ==
  /\ scan.step = "idle" /\ disarm["startup"] = "idle" /\ gw.fresh
  /\ scan' = [step |-> "health", session |-> <<gw.ref, epoch>>]
  /\ UNCHANGED <<active, epoch, gw, fetch, db, arm, disarm, seen, wire, validated, bounds>>

\* AccountWatcher.check: a change of account or session since the baseline,
\* or an armed account or session that is not the live one, disarms.
Changed  == seen # NoSession /\ seen # scan.session
Mismatch ==
  /\ db.armed
  /\ \/ db.ref # NoAcc /\ db.ref # scan.session[1]
     \/ db.session # NoSession /\ db.session # scan.session

\* Mutation: only a change since the baseline disarms.
WatchChangesOnly ==
  /\ scan.step = "health"
  /\ seen' = scan.session
  /\ IF Changed
     THEN /\ disarm' = [disarm EXCEPT !["watcher"] = IF db.armed THEN "armed" ELSE "idle"]
          /\ scan' = [scan EXCEPT !.step = "blocked"]
     ELSE /\ scan' = [scan EXCEPT !.step = "allowed"]
          /\ UNCHANGED disarm
  /\ UNCHANGED <<active, epoch, gw, fetch, db, arm, wire, validated, bounds>>

Watch ==
  /\ scan.step = "health"
  /\ seen' = scan.session
  /\ IF Changed \/ Mismatch
     THEN /\ disarm' = [disarm EXCEPT !["watcher"] = IF db.armed THEN "armed" ELSE "idle"]
          /\ scan' = [scan EXCEPT !.step = "blocked"]
     ELSE /\ scan' = [scan EXCEPT !.step = "allowed"]
          /\ UNCHANGED disarm
  /\ UNCHANGED <<active, epoch, gw, fetch, db, arm, wire, validated, bounds>>

\* Blocked for this tick, once the disarm is written; or nothing to send.
EndTick ==
  /\ scan.step \in {"blocked", "allowed"} /\ disarm["watcher"] = "idle"
  /\ scan' = [step |-> "idle", session |-> NoSession]
  /\ UNCHANGED <<active, epoch, gw, fetch, db, arm, disarm, seen, wire, validated, bounds>>

\* The order is reserved for the account and session the watcher allowed.
Dispatch ==
  /\ scan.step = "allowed" /\ wire.step \in {"none", "sent"}
  /\ wire' = [NoWire EXCEPT !.step = "asked", !.session = scan.session]
  /\ scan' = [step |-> "idle", session |-> NoSession]
  /\ UNCHANGED <<active, epoch, gw, fetch, db, arm, disarm, seen, validated, bounds>>

Next ==
  \/ Login \/ Verify \/ VerifyFails \/ LoadPositions \/ GwRestart
  \/ FetchStart \/ FetchAnswer \/ FetchApply \/ FetchFail
  \/ GatePass \/ FinalCheck \/ SdkSend \/ GateRefuse
  \/ ArmRead \/ ArmWrite \/ AdminDisarm \/ \E d \in Disarmers : DisarmWrite(d)
  \/ ServerRestart \/ ReadHealth \/ Watch \/ EndTick \/ Dispatch

Spec == Init /\ [][Next]_vars

\* The timer and the handlers verify and fetch for ever, and a request that is
\* tried for ever succeeds now and then; the scanner ticks for ever; a request
\* of the admin or a disarm runs to its end.
Fairness ==
  /\ WF_vars(Verify) /\ SF_vars(ReadHealth)
  /\ WF_vars(FetchStart) /\ SF_vars(FetchAnswer) /\ SF_vars(FetchApply) /\ WF_vars(FetchFail)
  /\ WF_vars(Watch) /\ WF_vars(EndTick) /\ WF_vars(ArmWrite)
  /\ \A d \in Disarmers : WF_vars(DisarmWrite(d))
FairSpec == Spec /\ Fairness

-----------------------------------------------------------------------------
AnyAcc    == Accounts \union {NoAcc}
GwType    == [ref : AnyAcc, fresh : BOOLEAN, changed : BOOLEAN, snap : AnyAcc,
              own : AnyAcc, armed : BOOLEAN, armedRef : AnyAcc]
FetchType == [step : {"idle", "sent", "answered"}, ref : AnyAcc, armed : BOOLEAN,
              armedRef : AnyAcc]
DbType    == [armed : BOOLEAN, ref : AnyAcc, session : Sessions]
ArmType   == [step : {"idle", "ref", "session", "armed"}, session : Sessions]
ScanType  == [step : {"idle", "health", "blocked", "allowed"}, session : Sessions]
WireType  == [session : Sessions, step : {"none", "asked", "gated", "checked", "sent"},
              now : Sessions, raced : BOOLEAN]

\* Every part of the state has its type.
TypeOK ==
  /\ active \in Accounts /\ epoch \in 0..MaxGwStarts
  /\ gw \in GwType /\ fetch \in FetchType
  /\ db \in DbType /\ arm \in ArmType
  /\ disarm \in [Disarmers -> {"idle", "armed", "ref", "session"}]
  /\ seen \in Sessions /\ scan \in ScanType
  /\ wire \in WireType
  /\ validated \subseteq Real
  /\ switches \in 0..MaxSwitches /\ starts \in 0..MaxSrvStarts /\ requests \in 0..MaxArms

\* An order reaches the account and the session it was decided and reserved
\* for, although the SDK call names neither and the login may change at any
\* step on the way; all that is left is a login during the SDK call itself.
SentToItsSession == wire.step = "sent" => wire.raced \/ wire.session = wire.now

\* With the same exception, an order reaches a REAL account only if an arm
\* request has read that very account as the live one.
RealSendWasValidated ==
  wire.step = "sent" /\ wire.now[1] \in Real /\ ~wire.raced => wire.now[1] \in validated

\* Both: an order reaches the session it was decided for, and that one was validated for it.
SendsAreAuthorised == SentToItsSession /\ RealSendWasValidated

\* What the comment at the last comparison says: no change of account or
\* session lets an order cross over.
NeverCrosses == wire.step = "sent" => wire.session = wire.now

\* Once the login stays, an armed reference is the live account's: whatever
\* arm and disarm requests have interleaved, the watcher disarms any other.
ArmedIsLive == <>[](db.armed /\ db.ref # NoAcc => db.ref = active)

\* The gateway's copy of the arming ends up as the server's.
GatewayFollows == <>[](gw.armed = db.armed /\ gw.armedRef = db.ref)
=============================================================================
