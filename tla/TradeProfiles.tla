--------------------------- MODULE TradeProfiles ---------------------------
(***************************************************************************)
(* The trade profiles an operator keeps, and which of them an evaluation   *)
(* runs under.  Every request of the operator reads, awaits and commits    *)
(* in a database session of its own, with nothing locked between: two      *)
(* pages, or a page and the API, interleave at each await, and so does an  *)
(* evaluation that resolves the active profile.  The audit rows of the     *)
(* changes are left out, and so are the cache of decisions they clear,     *)
(* which nothing fills, and the notice to the gateway, which only brings   *)
(* its next poll forward (AccountArming).                                  *)
(***************************************************************************)
EXTENDS Integers, FiniteSets

CONSTANTS
  Builtins, Customs,  \* codes of the profiles that are shipped, and others
  Default,            \* of Builtins: the one with is_default
  Fields, Values,     \* of the limits of a profile
  Shipped,            \* BUILTIN_PROFILES: the limits of each
  Spellings,          \* how a path may spell a code; "exact" is as it is stored
  Admins,             \* requests that are served at once
  MaxRequests         \* bound

Codes == Builtins \union Customs
Names == Codes \X Spellings
Limits == [Fields -> Values]

ASSUME ProfilesAssumption ==
  /\ Default \in Builtins /\ "exact" \in Spellings /\ "none" \notin Spellings
  /\ Shipped \in [Builtins -> Limits] /\ MaxRequests \in Nat

\* TradeProfile. id tells the row from those its code had before; 0 is of one never stored.
Profile == [id : Int, version : Nat, limits : Limits, enabled : BOOLEAN, builtin : BOOLEAN,
            default : BOOLEAN]
NoProfile == [id |-> -1, version |-> 0, limits |-> Shipped[Default], enabled |-> FALSE,
              builtin |-> FALSE, default |-> FALSE]
NoName == <<Default, "none">>

\* What a request may change: some of the editable fields; those that a form left empty or a body
\* did not name are not among them, nor are id, version, is_enabled, is_builtin and is_default.
Changes == UNION {[S -> Values] : S \in SUBSET Fields}
NoChange == [f \in {} |-> 0]
Changed(limits, changes) == [f \in Fields |-> IF f \in DOMAIN changes THEN changes[f] ELSE limits[f]]

\* What the pages and the API ask: a code in the path is as it was typed, a new one is upper-cased.
Requests ==
  [op : {"update"}, name : Names, to : {Default}, changes : Changes]
    \union [op : {"create"}, name : {NoName}, to : Codes, changes : Changes]
    \union [op : {"clone"}, name : Names, to : Codes, changes : {NoChange}]
    \union [op : {"disable", "delete", "activate"}, name : Names, to : {Default}, changes : {NoChange}]
NoRequest == [op |-> "none", name |-> NoName, to |-> Default, changes |-> NoChange]

VARIABLES
  stored,   \* the table, by code
  pointer,  \* SystemConfig activeTradeProfileCode, as it was spelled
  task,     \* a request: its step, the profile and the pointer it read; stale: since it read,
            \* another has committed
  eval,     \* an evaluation that resolves its profile
  ids,      \* the last id given
  asked     \* requests so far (bound)

profileVars == <<stored, pointer, task, eval, ids, asked>>

NoTask == [step |-> "idle", req |-> NoRequest, seen |-> NoProfile, ptr |-> NoName, stale |-> FALSE]
Resting == [at |-> "idle", missing |-> {}, name |-> NoName, used |-> NoProfile]

Exists(p) == p # NoProfile
Row(id, limits) == [id |-> id, version |-> 1, limits |-> limits, enabled |-> TRUE,
                    builtin |-> FALSE, default |-> FALSE]
Built(c, id) == [id |-> id, version |-> 1, limits |-> Shipped[c], enabled |-> TRUE,
                 builtin |-> TRUE, default |-> (c = Default)]

\* A database that was initialised; a later release may ship more profiles.
ProfilesInit ==
  /\ \E S \in SUBSET Builtins :
       /\ Default \in S
       /\ stored = [c \in Codes |-> IF c \in S THEN Built(c, 1) ELSE NoProfile]
  /\ pointer = NoName /\ task = [a \in Admins |-> NoTask] /\ eval = Resting
  /\ ids = 1 /\ asked = 0

-----------------------------------------------------------------------------
(* A request: what it reads, one await after the other.                    *)

Arrives(a, q) ==
  /\ task[a].step = "idle" /\ asked < MaxRequests
  /\ task' = [task EXCEPT ![a] = [NoTask EXCEPT !.step = "read", !.req = q]]
  /\ asked' = asked + 1
  /\ UNCHANGED <<stored, pointer, eval, ids>>

Answer(a) == task' = [task EXCEPT ![a] = NoTask]
Proceeds(a, step, p, ptr) ==
  task' = [task EXCEPT ![a] = [@ EXCEPT !.step = step, !.seen = p, !.ptr = ptr]]

\* get_profile: by the upper-cased code.
ReadProfile(a) ==
  LET q == task[a].req
      p == stored[IF q.op = "create" THEN q.to ELSE q.name[1]]
      refused == \/ q.op = "create" /\ Exists(p)
                 \/ q.op # "create" /\ ~Exists(p)
                 \/ q.op = "disable" /\ p.default
                 \/ q.op = "delete" /\ p.builtin
                 \/ q.op = "activate" /\ ~p.enabled
  IN  /\ task[a].step = "read"
      /\ IF refused THEN Answer(a)
         ELSE Proceeds(a, IF q.op \in {"create", "update"} THEN "commit" ELSE "check", p, NoName)
      /\ UNCHANGED <<stored, pointer, eval, ids, asked>>

\* Mutation: only the deletion looks at the pointer.
GuardedDelete(q) == q.op = "delete" /\ pointer = q.name
\* The active profile, where the path spells it as the pointer does, is neither disabled nor deleted.
Guarded(q) == q.op \in {"disable", "delete"} /\ pointer = q.name

\* The code of a clone must be free.
Check(a) ==
  LET q == task[a].req
      refused == (q.op = "clone" /\ Exists(stored[q.to])) \/ Guarded(q)
  IN  /\ task[a].step = "check"
      /\ IF refused THEN Answer(a) ELSE Proceeds(a, "commit", task[a].seen, pointer)
      /\ UNCHANGED <<stored, pointer, eval, ids, asked>>

-----------------------------------------------------------------------------
(* ... and what it commits.  A row that is gone or a code that was taken   *)
(* meanwhile fails the commit, and nothing changes.                        *)

Ready(a, op) == task[a].step = "commit" /\ task[a].req.op = op
Same(a) == stored[task[a].req.name[1]].id = task[a].seen.id
Commits(a) ==
  task' = [b \in Admins |-> IF b = a THEN NoTask
                            ELSE [task[b] EXCEPT !.stale = @ \/ task[b].step \in {"check", "commit"}]]
Fails(a) == Answer(a) /\ UNCHANGED <<stored, pointer, ids>>

Insert(a, limits) ==
  /\ IF Exists(stored[task[a].req.to]) THEN Fails(a)
     ELSE /\ stored' = [stored EXCEPT ![task[a].req.to] = Row(ids + 1, limits)]
          /\ ids' = ids + 1
          /\ Commits(a) /\ UNCHANGED pointer
  /\ UNCHANGED <<eval, asked>>

\* The fields that are not given are those of the default as it is shipped.
CreateProfile(a) == Ready(a, "create") /\ Insert(a, Changed(Shipped[Default], task[a].req.changes))

\* Mutation: the clone is a copy of the whole row, is_default included.
CloneRow(a) ==
  /\ Ready(a, "clone")
  /\ IF Exists(stored[task[a].req.to]) THEN Fails(a)
     ELSE /\ stored' = [stored EXCEPT ![task[a].req.to] = [task[a].seen EXCEPT !.id = ids + 1]]
          /\ ids' = ids + 1
          /\ Commits(a) /\ UNCHANGED pointer
  /\ UNCHANGED <<eval, asked>>

CloneProfile(a) == Ready(a, "clone") /\ Insert(a, task[a].seen.limits)

\* Only the fields whose value is another than was read are written, and the version that follows
\* the one that was read.
UpdateProfile(a) ==
  LET c == task[a].req.name[1]
      seen == task[a].seen
      new == Changed(seen.limits, task[a].req.changes)
  IN  /\ Ready(a, "update")
      /\ IF ~Same(a) THEN Fails(a)
         ELSE /\ stored' = [stored EXCEPT
                   ![c].version = seen.version + 1,
                   ![c].limits = [f \in Fields |-> IF new[f] # seen.limits[f] THEN new[f] ELSE @[f]]]
              /\ Commits(a) /\ UNCHANGED <<pointer, ids>>
      /\ UNCHANGED <<eval, asked>>

\* One that was read as disabled is not written.
DisableProfile(a) ==
  /\ Ready(a, "disable")
  /\ IF ~task[a].seen.enabled \/ ~Same(a) THEN Fails(a)
     ELSE /\ stored' = [stored EXCEPT ![task[a].req.name[1]].enabled = FALSE]
          /\ Commits(a) /\ UNCHANGED <<pointer, ids>>
  /\ UNCHANGED <<eval, asked>>

DeleteProfile(a) ==
  /\ Ready(a, "delete")
  /\ IF ~Same(a) THEN Fails(a)
     ELSE /\ stored' = [stored EXCEPT ![task[a].req.name[1]] = NoProfile]
          /\ Commits(a) /\ UNCHANGED <<pointer, ids>>
  /\ UNCHANGED <<eval, asked>>

\* The pointer is written as the path spelled the code, inserted where none was read, and not
\* written where it was read so already.
ActivateProfile(a) ==
  LET q == task[a].req
      ptr == task[a].ptr
  IN  /\ Ready(a, "activate")
      /\ IF ptr = q.name \/ (ptr = NoName /\ pointer # NoName) THEN Fails(a)
         ELSE pointer' = q.name /\ Commits(a) /\ UNCHANGED <<stored, ids>>
      /\ UNCHANGED <<eval, asked>>

-----------------------------------------------------------------------------
(* get_active_profile, read by read.                                       *)

StartResolving ==
  /\ eval.at \in {"idle", "done"}
  /\ LET missing == {c \in Builtins : ~Exists(stored[c])}
     IN  eval' = [Resting EXCEPT !.at = IF missing = {} THEN "pointer" ELSE "seed", !.missing = missing]
  /\ UNCHANGED <<stored, pointer, task, ids, asked>>

\* All of them, or none where one of the codes was taken meanwhile.
Seed ==
  /\ eval.at = "seed"
  /\ IF \E c \in eval.missing : Exists(stored[c]) THEN UNCHANGED <<stored, ids>>
     ELSE /\ stored' = [c \in Codes |-> IF c \in eval.missing THEN Built(c, ids + 1) ELSE stored[c]]
          /\ ids' = ids + 1
  /\ eval' = [eval EXCEPT !.at = "pointer", !.missing = {}]
  /\ UNCHANGED <<pointer, task, asked>>

ReadPointer ==
  /\ eval.at = "pointer"
  /\ eval' = [eval EXCEPT !.at = IF pointer = NoName THEN "default" ELSE "profile", !.name = pointer]
  /\ UNCHANGED <<stored, pointer, task, ids, asked>>

ReadActive ==
  /\ eval.at = "profile"
  /\ LET p == stored[eval.name[1]]
     IN  eval' = IF p.enabled THEN [eval EXCEPT !.at = "done", !.used = p]
                 ELSE [eval EXCEPT !.at = "default"]
  /\ UNCHANGED <<stored, pointer, task, ids, asked>>

\* None: the one that is written in the code; more than one: it raises.
ReadDefault ==
  /\ eval.at = "default"
  /\ LET D == {c \in Codes : stored[c].default /\ stored[c].enabled}
     IN  eval' = [eval EXCEPT !.at = "done",
                    !.used = IF D = {} THEN Built(Default, 0)
                             ELSE IF \E c \in D : D = {c} THEN stored[CHOOSE c \in D : TRUE]
                             ELSE NoProfile]
  /\ UNCHANGED <<stored, pointer, task, ids, asked>>

-----------------------------------------------------------------------------

Request(a) ==
  \/ \E q \in Requests : Arrives(a, q)
  \/ ReadProfile(a) \/ Check(a)
  \/ CreateProfile(a) \/ CloneProfile(a) \/ UpdateProfile(a)
  \/ DisableProfile(a) \/ DeleteProfile(a) \/ ActivateProfile(a)

ProfilesNext ==
  \/ \E a \in Admins : Request(a)
  \/ StartResolving \/ Seed \/ ReadPointer \/ ReadActive \/ ReadDefault

ProfilesSpec == ProfilesInit /\ [][ProfilesNext]_profileVars

ProfilesTypeOK ==
  /\ stored \in [Codes -> Profile] /\ pointer \in Names \union {NoName}
  /\ task \in [Admins -> [step : {"idle", "read", "check", "commit"}, req : Requests \union {NoRequest},
                          seen : Profile, ptr : Names \union {NoName}, stale : BOOLEAN]]
  /\ eval \in [at : {"idle", "seed", "pointer", "profile", "default", "done"}, missing : SUBSET Builtins,
               name : Names \union {NoName}, used : Profile]
  /\ ids \in Nat /\ asked \in 0..MaxRequests

-----------------------------------------------------------------------------

\* An evaluation runs under a profile that is stored: whatever was activated, disabled, deleted and
\* cloned meanwhile, there is one enabled default to fall back to, and one only, so the lookup
\* neither raises nor ends at the limits that are written in the code (trade_profile.py,
\* get_active_profile).
ResolvesStored == eval.at = "done" => eval.used.id > 0 /\ eval.used.enabled

\* The profile the pointer names is there to be used.
InForce == pointer # NoName /\ stored[pointer[1]].enabled

\* The active profile is not disabled or deleted under the evaluations that run with it, but by a
\* request that had looked before another committed (disable_profile, delete_profile).
ActiveKept ==
  [][InForce => InForce' \/ \E a \in Admins : task[a].stale /\ task'[a] = NoTask]_profileVars

\* Limits that change get a version they did not have, which is what an evaluation is audited with,
\* but by a request that had read before another committed (update_profile).
VersionsTell ==
  [][\A c \in Codes :
       stored'[c].id = stored[c].id /\ stored'[c].limits # stored[c].limits =>
         \/ stored'[c].version > stored[c].version
         \/ \E a \in Admins : task[a].stale /\ task'[a] = NoTask]_profileVars
=============================================================================
