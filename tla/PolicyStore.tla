------------------------------ MODULE PolicyStore ------------------------------
(***************************************************************************)
(* The versioned policies of the guardrail proxy (policy_store.py) with    *)
(* the admin requests of its server (server.py).  A volume keeps the       *)
(* active pointer, the drafts' metadata and a marker for every policy that *)
(* was activated; the process keeps the active policy twice, in the store  *)
(* and in the server's global that serves requests.  The store's methods   *)
(* hold a lock, and the server assigns its global after the lock is        *)
(* released.  A bundle is complete before its metadata is written and is   *)
(* never changed, so it is left out.                                       *)
(***************************************************************************)
EXTENDS Integers, TLAPS

CONSTANTS Digests,    \* policies, by digest
          Seeds,      \* those the images carry
          Threads,    \* admin requests in progress
          NoDigest,   \* no pointer, no argument
          NoThread,   \* the lock is free
          Life,       \* 3600 seconds
          MaxTime,    \* bound on the clock
          Crashes,    \* TRUE: the process may die
          Faults      \* TRUE: a write may fail with an OSError

VARIABLES now,
          pointer, meta, activated,  \* the volume: active.json, drafts/, activated/
          up, lock, active,          \* the process: _lock and STORE.active
          serving,                   \* ACTIVE_BUNDLE
          seed,                      \* seed_root of the running image
          pc, arg, base,             \* per request: its place, its digest, the base it read
          passed,  \* history: has a draft passed all tests
          was,     \* history: the policies that were active
          unmarked \* history: those whose marker could not be written

volume == <<pointer, meta, activated>>
process == <<up, lock, active, serving, seed>>
requests == <<pc, arg, base>>
vars == <<now, volume, process, requests, passed, was, unmarked>>

Times == 1..MaxTime
States == {"none", "torn", "draft", "tested", "active"}
NoMeta == [state |-> "none", base |-> NoDigest, testedAt |-> 0]
Torn == [NoMeta EXCEPT !.state = "torn"]
Draft(b) == [NoMeta EXCEPT !.state = "draft", !.base = b]
Readable(d) == meta[d].state \notin {"none", "torn"}

Init == /\ now \in Times
        /\ pointer = NoDigest /\ meta = [d \in Digests |-> NoMeta] /\ activated = {}
        /\ up = FALSE /\ lock = NoThread /\ active = NoDigest /\ serving = NoDigest
        /\ seed \in Seeds
        /\ pc = [t \in Threads |-> "idle"]
        /\ arg = [t \in Threads |-> NoDigest]
        /\ base = [t \in Threads |-> NoDigest]
        /\ passed = [d \in Digests |-> FALSE] /\ was = {} /\ unmarked = {}

Goto(t, label) == pc' = [pc EXCEPT ![t] = label]
Enter(t, label, d) == Goto(t, label) /\ arg' = [arg EXCEPT ![t] = d] /\ base' = base
Return(t) == /\ Goto(t, "idle")
             /\ arg' = [arg EXCEPT ![t] = NoDigest]
             /\ base' = [base EXCEPT ![t] = NoDigest]
Keep == UNCHANGED <<now, up, seed>>

-----------------------------------------------------------------------------
(* __init__: the pointer of a new volume, then recovery from the volume *)

FirstPointer ==
  /\ ~up /\ pointer = NoDigest
  /\ pointer' = seed
  /\ was' = was \cup {seed}
  /\ UNCHANGED <<now, meta, activated, process, requests, passed, unmarked>>

\* Mutant of Remembered: recovery trusts the markers.
RememberedNothing == activated
Remembered == activated \cup {pointer} \cup {meta[d].base : d \in {x \in Digests : meta[x].state = "active"}}

\* Every metadata file has to parse.
Recover ==
  /\ ~up /\ pointer # NoDigest
  /\ \A d \in Digests : meta[d].state # "torn"
  /\ activated' = Remembered
  /\ up' = TRUE /\ active' = pointer /\ serving' = pointer
  /\ UNCHANGED <<now, pointer, meta, lock, seed, requests, passed, was, unmarked>>

-----------------------------------------------------------------------------
(* create_draft and create_seed_draft *)

\* The new policy has another version than the active one, so another digest.
\* write_text creates the metadata file before it fills it.
CreateDraft(t, d) ==
  /\ up /\ lock = NoThread /\ pc[t] = "idle"
  /\ d # active /\ meta[d].state = "none"
  /\ lock' = t
  /\ meta' = [meta EXCEPT ![d] = Torn]
  /\ Enter(t, "fill", d)
  /\ UNCHANGED <<pointer, activated, active, serving, passed, was, unmarked>> /\ Keep

FillDraft(t) ==
  /\ pc[t] = "fill"
  /\ meta' = [meta EXCEPT ![arg[t]] = Draft(active)]
  /\ lock' = NoThread
  /\ Return(t)
  /\ UNCHANGED <<pointer, activated, active, serving, passed, was, unmarked>> /\ Keep

FillFails(t) ==
  /\ Faults /\ pc[t] = "fill"
  /\ lock' = NoThread
  /\ Return(t)
  /\ UNCHANGED <<volume, active, serving, passed, was, unmarked>> /\ Keep

\* The seed's metadata is put in place by a rename.
CreateSeedDraft(t) ==
  /\ up /\ lock = NoThread /\ pc[t] = "idle"
  /\ seed # active /\ meta[seed].state = "none"
  /\ meta' = [meta EXCEPT ![seed] = Draft(active)]
  /\ UNCHANGED <<pointer, activated, lock, active, serving, requests, passed, was, unmarked>> /\ Keep

-----------------------------------------------------------------------------
(* admin_test_draft: the draft is read, tested, and marked, with awaits between *)

\* The base is compared with the policy that is served.
TestDraft(t, d) ==
  /\ up /\ pc[t] = "idle"
  /\ Readable(d) /\ meta[d].base = serving
  /\ Goto(t, "testing")
  /\ arg' = [arg EXCEPT ![t] = d]
  /\ base' = [base EXCEPT ![t] = meta[d].base]
  /\ UNCHANGED <<now, volume, process, passed, was, unmarked>>

TestsFail(t) ==
  /\ pc[t] = "testing"
  /\ Return(t)
  /\ UNCHANGED <<now, volume, process, passed, was, unmarked>>

TestsPass(t) ==
  /\ pc[t] = "testing"
  /\ Goto(t, "marking")
  /\ passed' = [passed EXCEPT ![arg[t]] = TRUE]
  /\ UNCHANGED <<now, volume, process, arg, base, was, unmarked>>

\* Mutant of Markable: the active policy is not looked at again after the tests.
MarkableStale(t) == meta[arg[t]].state \in {"draft", "tested"}
Markable(t) == /\ active = base[t] /\ meta[arg[t]].base = base[t]
               /\ meta[arg[t]].state \in {"draft", "tested"}

MarkTested(t) ==
  /\ pc[t] = "marking" /\ lock = NoThread
  /\ meta' = IF Markable(t) THEN [meta EXCEPT ![arg[t]].state = "tested", ![arg[t]].testedAt = now]
                            ELSE meta
  /\ Return(t)
  /\ UNCHANGED <<now, pointer, activated, process, passed, was, unmarked>>

-----------------------------------------------------------------------------
(* promote and rollback, under the lock, then the server's assignment *)

\* Mutant of Promotable: any draft of the active policy.
PromotableDraft(d) == Readable(d) /\ meta[d].base = active

Promotable(d) == /\ meta[d].base = active
                 /\ meta[d].state = "tested"
                 /\ now - meta[d].testedAt <= Life

SetActive(d) == pointer' = d /\ active' = d /\ was' = was \cup {d}

Promote(t, d) ==
  /\ up /\ lock = NoThread /\ pc[t] = "idle"
  /\ Promotable(d)
  /\ lock' = t
  /\ SetActive(d)
  /\ Enter(t, "remember", d)
  /\ UNCHANGED <<meta, activated, serving, passed, unmarked>> /\ Keep

RememberActivation(t) ==
  /\ pc[t] = "remember"
  /\ activated' = activated \cup {arg[t]}
  /\ Goto(t, "record")
  /\ UNCHANGED <<now, pointer, meta, process, arg, base, passed, was, unmarked>>

\* Nothing reads the tested_at that stays in an active policy's file.
RecordActive(t) ==
  /\ pc[t] = "record"
  /\ meta' = [meta EXCEPT ![arg[t]].state = "active", ![arg[t]].testedAt = 0]
  /\ lock' = NoThread
  /\ Goto(t, "serve")
  /\ UNCHANGED <<now, pointer, activated, up, active, serving, seed, arg, base, passed, was, unmarked>>

\* The store is left as the failed write left it; the request is answered 500.
PromoteFails(t) ==
  /\ Faults /\ pc[t] \in {"remember", "record"}
  /\ lock' = NoThread
  /\ unmarked' = IF pc[t] = "remember" THEN unmarked \cup {arg[t]} ELSE unmarked
  /\ Return(t)
  /\ UNCHANGED <<volume, active, serving, passed, was>> /\ Keep

Rollback(t, d) ==
  /\ up /\ lock = NoThread /\ pc[t] = "idle"
  /\ d # active /\ d \in activated
  /\ SetActive(d)
  /\ Enter(t, "serve", d)
  /\ UNCHANGED <<meta, activated, lock, serving, passed, unmarked>> /\ Keep

Serve(t) ==
  /\ pc[t] = "serve"
  /\ serving' = arg[t]
  /\ Return(t)
  /\ UNCHANGED <<now, volume, up, lock, active, seed, passed, was, unmarked>>

-----------------------------------------------------------------------------
(* The process dies and the container is created again, from any image. *)
Crash ==
  /\ Crashes /\ up
  /\ up' = FALSE /\ lock' = NoThread /\ active' = NoDigest /\ serving' = NoDigest
  /\ seed' \in Seeds
  /\ pc' = [t \in Threads |-> "idle"]
  /\ arg' = [t \in Threads |-> NoDigest]
  /\ base' = [t \in Threads |-> NoDigest]
  /\ UNCHANGED <<now, volume, passed, was, unmarked>>

\* time.time does not go back while the promotion window is measured.
Tick == /\ now < MaxTime /\ now' = now + 1
        /\ UNCHANGED <<volume, process, requests, passed, was, unmarked>>

Step(t) == \/ FillDraft(t) \/ FillFails(t) \/ TestsFail(t) \/ TestsPass(t) \/ MarkTested(t)
           \/ RememberActivation(t) \/ RecordActive(t) \/ PromoteFails(t) \/ Serve(t)
Begin(t) == \/ CreateSeedDraft(t)
            \/ \E d \in Digests : CreateDraft(t, d) \/ TestDraft(t, d) \/ Promote(t, d) \/ Rollback(t, d)

Next == \/ FirstPointer \/ Recover \/ Crash \/ Tick
        \/ \E t \in Threads : Begin(t) \/ Step(t)

Spec == Init /\ [][Next]_vars

-----------------------------------------------------------------------------
(* Properties. *)

TypeOK ==
  /\ now \in Times
  /\ pointer \in Digests \cup {NoDigest}
  /\ meta \in [Digests -> [state : States, base : Digests \cup {NoDigest}, testedAt : 0..MaxTime]]
  /\ activated \subseteq Digests
  /\ up \in BOOLEAN /\ lock \in Threads \cup {NoThread} /\ seed \in Seeds
  /\ {active, serving} \subseteq IF up THEN Digests ELSE {NoDigest}
  /\ pc \in [Threads -> {"idle", "fill", "testing", "marking", "remember", "record", "serve"}]
  /\ arg \in [Threads -> Digests \cup {NoDigest}] /\ base \in [Threads -> Digests \cup {NoDigest}]
  /\ passed \in [Digests -> BOOLEAN] /\ was \subseteq Digests /\ unmarked \subseteq was

\* However requests overlap and the process dies, a policy becomes active only
\* when it was before, is the first seed, or passed all tests and was
\* marked tested within the window.
OnlyTestedBecomesActive ==
  [][pointer' # pointer => \/ pointer = NoDigest
                           \/ pointer' \in was
                           \/ passed[pointer'] /\ now - meta[pointer'].testedAt <= Life]_vars

\* A draft is marked tested, and promoted for the first time, only over the
\* policy it was made from: admins that started from one policy do not replace
\* each other's.
PromotedOverItsBase ==
  [][/\ \A d \in Digests : meta'[d].state = "tested" /\ meta[d].state = "draft" => meta[d].base = active
     /\ pointer' \notin was /\ pointer # NoDigest => meta[pointer'].base = pointer]_vars

\* Every policy that was active can be rolled back to: its marker is on the
\* volume, or it is the pointer and recovery or the promotion still writes it;
\* only a marker that could not be written is missing.
RollbackReachable ==
  \A d \in was \ unmarked :
    \/ d \in activated
    \/ d = pointer /\ (~up \/ \E t \in Threads : pc[t] = "remember" /\ arg[t] = d)

\* What is served is the policy of the pointer, once no promotion or rollback is
\* on its way from the store to the server.
Settled == up /\ \A t \in Threads : pc[t] \notin {"remember", "record", "serve"}
ServesActive == Settled => serving = pointer

\* A volume on which the service ran lets it start again.
CanStart == ~up /\ pointer # NoDigest => \A d \in Digests : meta[d].state # "torn"

-----------------------------------------------------------------------------
(* Proofs, for any policies, threads and windows.  What they need of the   *)
(* constants is a hypothesis of the theorems: the two sentinels are none   *)
(* of the things they stand for, and the seeds are policies.               *)

Sentinels == /\ NoThread \notin Threads /\ NoDigest \notin Digests /\ Seeds \subseteq Digests
             /\ MaxTime \in Nat

Holding == {"fill", "remember", "record"}

\* The threads inside the store hold its lock; requests exist while the process runs.
Locked == /\ \A t \in Threads : pc[t] \in Holding <=> lock = t
          /\ \A t \in Threads : pc[t] # "idle" => up /\ arg[t] \in Digests

\* The store of a running process and the volume agree on the active policy, which
\* a promotion in progress has just set; markers are of policies that were active.
Agreed == /\ up => pointer \in Digests /\ active = pointer
          /\ pointer # NoDigest => pointer \in was
          /\ activated \subseteq was
          /\ \A t \in Threads : pc[t] \in {"remember", "record"} => arg[t] = pointer /\ Readable(pointer)

\* What a draft was made from was active, and one marked tested passed.
Earned == /\ \A d \in Digests : Readable(d) => meta[d].base \in was
          /\ \A d \in Digests : meta[d].state = "tested" => passed[d]
          /\ \A t \in Threads : pc[t] = "marking" => passed[arg[t]]

StoreInv == Locked /\ Agreed /\ Earned /\ RollbackReachable
PInv == TypeOK /\ StoreInv

Rows == [state : States, base : Digests \cup {NoDigest}, testedAt : 0..MaxTime]
Places == {"idle", "fill", "testing", "marking", "remember", "record", "serve"}

\* A file gets a new state and a new time of test.
LEMMA MetaChanged ==
  ASSUME meta \in [Digests -> Rows], NEW d \in Digests, NEW x \in States, NEW y \in 0..MaxTime,
         meta' = [meta EXCEPT ![d].state = x, ![d].testedAt = y]
  PROVE  /\ meta' \in [Digests -> Rows]
         /\ meta'[d].state = x /\ meta'[d].base = meta[d].base
         /\ \A c \in Digests : c # d => meta'[c] = meta[c]
<1> DEFINE S == States
           B == Digests \cup {NoDigest}
           T == 0..MaxTime
<1>1. meta \in [Digests -> [state : S, base : B, testedAt : T]] /\ x \in S /\ y \in T
  BY DEF Rows
<1> HIDE DEF S, B, T
<1>2. /\ meta' \in [Digests -> [state : S, base : B, testedAt : T]]
      /\ meta'[d].state = x /\ meta'[d].base = meta[d].base
      /\ \A c \in Digests : c # d => meta'[c] = meta[c]
  BY <1>1
<1> QED BY <1>2 DEF S, B, T, Rows

\* A file gets a new state and another base.
LEMMA FileChanged ==
  ASSUME NEW S, NEW B, NEW T, NEW r \in [state : S, base : B, testedAt : T], NEW x \in S, NEW y \in B
  PROVE  LET new == [r EXCEPT !.state = x, !.base = y] IN
         new \in [state : S, base : B, testedAt : T] /\ new.state = x /\ new.base = y
OBVIOUS

\* The files a draft goes through.
LEMMA MetaWritten ==
  ASSUME Sentinels, TypeOK, NEW d \in Digests, NEW b \in Digests
  PROVE  /\ Torn \in Rows /\ Torn.state = "torn" /\ Draft(b) \in Rows
         /\ Draft(b).state = "draft" /\ Draft(b).base = b
         /\ [meta EXCEPT ![d] = Torn] \in [Digests -> Rows]
         /\ [meta EXCEPT ![d] = Draft(b)] \in [Digests -> Rows]
<1>1. Torn = [state |-> "torn", base |-> NoDigest, testedAt |-> 0]
  BY DEF Torn, NoMeta
<1>2. /\ Draft(b) \in Rows /\ Draft(b).state = "draft" /\ Draft(b).base = b
  <2>1. NoMeta \in Rows
    BY DEF NoMeta, Rows, States, Sentinels
  <2>2. "draft" \in States
    BY DEF States
  <2> QED BY <2>1, <2>2, FileChanged DEF Draft, Rows
<1>3. Torn \in Rows /\ Torn.state = "torn"
  BY <1>1 DEF Rows, States, Sentinels
<1>4. meta \in [Digests -> Rows]
  BY DEF TypeOK, Rows
<1> QED BY <1>2, <1>3, <1>4

\* A new volume, and no process.
LEMMA InitStore == Sentinels /\ Init => PInv
<1> SUFFICES ASSUME Sentinels, Init PROVE PInv
  OBVIOUS
<1>1. NoMeta = [state |-> "none", base |-> NoDigest, testedAt |-> 0] /\ NoMeta \in Rows
  BY DEF NoMeta, Rows, States, Sentinels
<1>2. TypeOK
  <2>1. meta \in [Digests -> Rows]
    BY <1>1 DEF Init
  <2> QED BY <2>1 DEF TypeOK, Init, Rows, Sentinels
<1>3. StoreInv
  BY <1>1 DEF StoreInv, Locked, Agreed, Earned, RollbackReachable, Readable, Init, Holding, Sentinels
<1> QED BY <1>2, <1>3 DEF PInv

\* A thread that begins, goes on or returns.
LEMMA Moves ==
  ASSUME TypeOK, NEW t \in Threads
  PROVE  /\ \A label \in Places, d \in Digests : Enter(t, label, d) =>
              /\ pc' \in [Threads -> Places] /\ pc'[t] = label /\ arg'[t] = d
              /\ arg' \in [Threads -> Digests \cup {NoDigest}]
              /\ base' \in [Threads -> Digests \cup {NoDigest}]
              /\ \A u \in Threads : u # t => pc'[u] = pc[u] /\ arg'[u] = arg[u]
         /\ Return(t) =>
              /\ pc' \in [Threads -> Places] /\ pc'[t] = "idle"
              /\ arg' \in [Threads -> Digests \cup {NoDigest}]
              /\ base' \in [Threads -> Digests \cup {NoDigest}]
              /\ \A u \in Threads : u # t => pc'[u] = pc[u] /\ arg'[u] = arg[u]
         /\ \A label \in Places : Goto(t, label) =>
              /\ pc' \in [Threads -> Places] /\ pc'[t] = label
              /\ \A u \in Threads : u # t => pc'[u] = pc[u]
BY DEF TypeOK, Enter, Return, Goto, Places

-----------------------------------------------------------------------------
(* The steps.  Starting and dying first. *)

\* The first pointer is the seed of the image.
LEMMA FirstPointerKeeps == ASSUME Sentinels, PInv, FirstPointer PROVE PInv'
<1>1. /\ ~up /\ pointer = NoDigest /\ pointer' = seed /\ was' = was \cup {seed} /\ seed \in Digests
      /\ UNCHANGED <<now, meta, activated, up, lock, active, serving, seed, pc, arg, base, passed, unmarked>>
  BY DEF FirstPointer, process, requests, PInv, TypeOK, Sentinels
<1>2. TypeOK'
  BY <1>1 DEF PInv, TypeOK
<1>3. Locked' /\ Agreed' /\ Earned'
  BY <1>1 DEF PInv, StoreInv, Locked, Agreed, Earned, Readable
<1>4. RollbackReachable'
  BY <1>1 DEF PInv, StoreInv, RollbackReachable, TypeOK, Sentinels
<1> QED BY <1>2, <1>3, <1>4 DEF PInv, StoreInv

\* Recovery reads the volume, and marks whatever was active.
LEMMA RecoverKeeps == ASSUME Sentinels, PInv, Recover PROVE PInv'
<1>1. /\ ~up /\ pointer # NoDigest /\ activated' = Remembered /\ up' = TRUE
      /\ active' = pointer /\ serving' = pointer
      /\ UNCHANGED <<now, pointer, meta, lock, seed, pc, arg, base, passed, was, unmarked>>
  BY DEF Recover, requests
<1>2. activated \cup {pointer} \subseteq Remembered /\ Remembered \subseteq was
  <2>1. \A d \in Digests : meta[d].state = "active" => meta[d].base \in was
    BY DEF PInv, StoreInv, Earned, Readable
  <2> QED BY <1>1, <2>1 DEF Remembered, PInv, StoreInv, Agreed
<1>3. TypeOK'
  BY <1>1, <1>2 DEF PInv, TypeOK
<1>4. Locked'
  BY <1>1 DEF PInv, StoreInv, Locked
<1>5. Agreed'
  BY <1>1, <1>2 DEF PInv, StoreInv, Agreed, TypeOK, Readable
<1>6. Earned' /\ RollbackReachable'
  BY <1>1, <1>2 DEF PInv, StoreInv, Earned, Readable, RollbackReachable
<1> QED BY <1>3, <1>4, <1>5, <1>6 DEF PInv, StoreInv

\* A crash leaves the volume as it is and frees the lock.
LEMMA CrashKeeps == ASSUME Sentinels, PInv, Crash PROVE PInv'
<1>1. /\ up' = FALSE /\ lock' = NoThread /\ active' = NoDigest /\ serving' = NoDigest /\ seed' \in Seeds
      /\ pc' = [t \in Threads |-> "idle"]
      /\ arg' = [t \in Threads |-> NoDigest] /\ base' = [t \in Threads |-> NoDigest]
      /\ UNCHANGED <<now, pointer, meta, activated, passed, was, unmarked>>
  BY DEF Crash, volume
<1>2. TypeOK'
  BY <1>1 DEF PInv, TypeOK
<1>3. Locked' /\ Agreed' /\ Earned'
  BY <1>1 DEF PInv, StoreInv, Locked, Agreed, Earned, Readable, Holding, Sentinels
<1>4. RollbackReachable'
  BY <1>1 DEF PInv, StoreInv, RollbackReachable
<1> QED BY <1>2, <1>3, <1>4 DEF PInv, StoreInv

\* Time alone changes nothing of the store.
LEMMA TickKeeps == ASSUME Sentinels, PInv, Tick \/ UNCHANGED vars PROVE PInv'
<1>1. /\ UNCHANGED <<pointer, meta, activated, up, lock, active, serving, seed, pc, arg, base, passed, was, unmarked>>
      /\ now' \in Times
  BY DEF Tick, vars, volume, process, requests, PInv, TypeOK, Times, Sentinels
<1>2. TypeOK'
  BY <1>1 DEF PInv, TypeOK
<1>3. Locked' /\ Agreed' /\ Earned' /\ RollbackReachable'
  BY <1>1 DEF PInv, StoreInv, Locked, Agreed, Earned, Readable, RollbackReachable
<1> QED BY <1>2, <1>3 DEF PInv, StoreInv

-----------------------------------------------------------------------------
(* Requests.  Most of them leave alone what can be rolled back to. *)

Kept == UNCHANGED <<pointer, activated, up, active, was, unmarked>>

\* What could be rolled back to still can.
LEMMA ReachableKept ==
  ASSUME PInv, Kept, \A u \in Threads : pc[u] = "remember" => pc'[u] = "remember" /\ arg'[u] = arg[u]
  PROVE  RollbackReachable'
BY DEF Kept, PInv, StoreInv, RollbackReachable

\* A request that is not inside the store comes, goes on, or leaves.
LEMMA RequestKeeps ==
  ASSUME Sentinels, PInv, NEW t \in Threads, Kept, up, UNCHANGED <<now, meta, lock, seed>>,
         serving' \in Digests, passed' \in [Digests -> BOOLEAN], \A d \in Digests : passed[d] => passed'[d],
         pc' \in [Threads -> Places], pc[t] \notin Holding, pc'[t] \notin Holding,
         arg' \in [Threads -> Digests \cup {NoDigest}], base' \in [Threads -> Digests \cup {NoDigest}],
         pc'[t] # "idle" => arg'[t] \in Digests,
         pc'[t] = "marking" => passed'[arg'[t]],
         \A u \in Threads : u # t => pc'[u] = pc[u] /\ arg'[u] = arg[u]
  PROVE  PInv'
<1>1. TypeOK'
  BY DEF PInv, TypeOK, Kept, Places
<1>2. Locked'
  BY DEF PInv, StoreInv, Locked, Kept
<1>3. Agreed'
  BY DEF PInv, StoreInv, Agreed, Kept, Readable, Holding
<1>4. Earned'
  BY DEF PInv, StoreInv, Earned, Locked, Kept, Readable
<1>5. RollbackReachable'
  BY ReachableKept DEF Holding
<1> QED BY <1>1, <1>2, <1>3, <1>4, <1>5 DEF PInv, StoreInv

\* A test begins outside the lock.
LEMMA TestDraftKeeps ==
  ASSUME Sentinels, PInv, NEW t \in Threads, NEW d \in Digests, TestDraft(t, d)
  PROVE  PInv'
<1>1. /\ up /\ pc[t] = "idle" /\ Goto(t, "testing") /\ arg' = [arg EXCEPT ![t] = d]
      /\ base' = [base EXCEPT ![t] = meta[d].base]
      /\ Kept /\ UNCHANGED <<now, meta, lock, seed, serving, passed>>
  BY DEF TestDraft, volume, process, Kept
<1>2. meta[d].base \in Digests \cup {NoDigest}
  BY DEF PInv, TypeOK
<1>3. /\ arg' \in [Threads -> Digests \cup {NoDigest}] /\ base' \in [Threads -> Digests \cup {NoDigest}]
      /\ arg'[t] = d /\ \A u \in Threads : u # t => arg'[u] = arg[u]
  BY <1>1, <1>2 DEF PInv, TypeOK
<1>4. /\ pc' \in [Threads -> Places] /\ pc'[t] = "testing"
      /\ \A u \in Threads : u # t => pc'[u] = pc[u]
  BY <1>1, Moves DEF PInv, Places
<1>5. serving' \in Digests /\ passed' \in [Digests -> BOOLEAN]
  BY <1>1 DEF PInv, TypeOK
<1> QED BY <1>1, <1>3, <1>4, <1>5, RequestKeeps DEF Holding

\* The tests end, or the server assigns its global.
LEMMA TestedKeeps ==
  ASSUME Sentinels, PInv, NEW t \in Threads, TestsFail(t) \/ TestsPass(t) \/ Serve(t)
  PROVE  PInv'
<1>1. /\ Kept /\ UNCHANGED <<now, meta, lock, seed>> /\ pc[t] \in {"testing", "serve"}
  BY DEF TestsFail, TestsPass, Serve, volume, process, Kept
<1>2. up /\ arg[t] \in Digests /\ pc[t] \notin Holding
  BY <1>1 DEF PInv, StoreInv, Locked, Holding
<1>3. CASE Return(t) /\ UNCHANGED passed
  <2>1. /\ pc' \in [Threads -> Places] /\ pc'[t] = "idle"
        /\ arg' \in [Threads -> Digests \cup {NoDigest}]
        /\ base' \in [Threads -> Digests \cup {NoDigest}]
        /\ \A u \in Threads : u # t => pc'[u] = pc[u] /\ arg'[u] = arg[u]
    BY <1>3, Moves DEF PInv
  <2>2. serving' \in Digests /\ passed' \in [Digests -> BOOLEAN]
    BY <1>2, <1>3 DEF TestsFail, TestsPass, Serve, process, PInv, TypeOK
  <2> QED BY <1>1, <1>2, <1>3, <2>1, <2>2, RequestKeeps DEF Holding
<1>4. CASE TestsPass(t)
  <2>1. /\ pc' \in [Threads -> Places] /\ pc'[t] = "marking"
        /\ \A u \in Threads : u # t => pc'[u] = pc[u]
    BY <1>4, Moves DEF TestsPass, PInv, Places
  <2>2. arg' = arg /\ base' = base /\ serving' = serving /\ passed' = [passed EXCEPT ![arg[t]] = TRUE]
    BY <1>4 DEF TestsPass, process
  <2>3. /\ serving' \in Digests /\ passed' \in [Digests -> BOOLEAN] /\ passed'[arg'[t]]
        /\ \A d \in Digests : passed[d] => passed'[d]
        /\ arg' \in [Threads -> Digests \cup {NoDigest}] /\ base' \in [Threads -> Digests \cup {NoDigest}]
    BY <1>2, <2>2 DEF PInv, TypeOK
  <2> QED BY <1>1, <1>2, <2>1, <2>2, <2>3, RequestKeeps DEF Holding
<1> QED BY <1>3, <1>4 DEF TestsFail, Serve

\* A file is marked only when its draft passed.
LEMMA MarkTestedKeeps ==
  ASSUME Sentinels, PInv, NEW t \in Threads, MarkTested(t)
  PROVE  PInv'
<1> DEFINE d == arg[t]
<1>1. /\ pc[t] = "marking" /\ lock = NoThread /\ Return(t)
      /\ Kept /\ UNCHANGED <<now, lock, seed, serving, passed>>
  BY DEF MarkTested, process, Kept
<1>2. up /\ d \in Digests /\ passed[d] /\ \A u \in Threads : pc[u] \notin Holding
  BY <1>1 DEF PInv, StoreInv, Locked, Earned, Sentinels
<1> HIDE DEF d
<1>3. /\ pc' \in [Threads -> Places] /\ pc'[t] = "idle"
      /\ arg' \in [Threads -> Digests \cup {NoDigest}]
      /\ base' \in [Threads -> Digests \cup {NoDigest}]
      /\ \A u \in Threads : u # t => pc'[u] = pc[u] /\ arg'[u] = arg[u]
  BY <1>1, Moves DEF PInv
<1>4. /\ meta' \in [Digests -> Rows]
      /\ \A c \in Digests : meta'[c] = meta[c] \/ (c = d /\ meta'[c].base = meta[c].base /\ Readable(c))
  <2>1. meta \in [Digests -> Rows] /\ now \in 0..MaxTime
    BY DEF PInv, TypeOK, Rows, Times, Sentinels
  <2>2. CASE ~Markable(t)
    BY <2>1, <2>2 DEF MarkTested
  <2>3. CASE Markable(t)
    <3>1. meta' = [meta EXCEPT ![d].state = "tested", ![d].testedAt = now] /\ Readable(d)
      BY <2>3 DEF MarkTested, Markable, Readable, d
    <3>2. "tested" \in States
      BY DEF States
    <3>3. /\ meta' \in [Digests -> Rows] /\ meta'[d].base = meta[d].base
          /\ \A c \in Digests : c # d => meta'[c] = meta[c]
      BY <1>2, <2>1, <3>1, <3>2, MetaChanged
    <3> QED BY <3>1, <3>3
  <2> QED BY <2>2, <2>3
<1>5. TypeOK'
  BY <1>1, <1>3, <1>4 DEF PInv, TypeOK, Rows, Places, Kept
<1>6. Locked'
  BY <1>1, <1>2, <1>3 DEF PInv, StoreInv, Locked, Kept, Holding
<1>7. Agreed'
  BY <1>1, <1>2, <1>3 DEF PInv, StoreInv, Agreed, Kept, Holding
<1>8. Earned'
  BY <1>1, <1>2, <1>3, <1>4 DEF PInv, StoreInv, Earned, Readable, Kept
<1>9. RollbackReachable'
  BY <1>1, <1>2, <1>3, ReachableKept DEF Holding
<1> QED BY <1>5, <1>6, <1>7, <1>8, <1>9 DEF PInv, StoreInv

-----------------------------------------------------------------------------
(* Drafts: the metadata file is created, then filled, under the lock. *)

\* A new draft is a torn file until it is filled.
LEMMA CreateDraftKeeps ==
  ASSUME Sentinels, PInv, NEW t \in Threads, NEW d \in Digests, CreateDraft(t, d)
  PROVE  PInv'
<1>1. /\ up /\ lock = NoThread /\ pc[t] = "idle" /\ d # active /\ meta[d].state = "none"
      /\ lock' = t /\ meta' = [meta EXCEPT ![d] = Torn] /\ Enter(t, "fill", d)
      /\ Kept /\ UNCHANGED <<now, seed, serving, passed>>
  BY DEF CreateDraft, Kept, Keep
<1>2. /\ pc' \in [Threads -> Places] /\ pc'[t] = "fill" /\ arg'[t] = d
      /\ arg' \in [Threads -> Digests \cup {NoDigest}]
      /\ base' \in [Threads -> Digests \cup {NoDigest}]
      /\ \A u \in Threads : u # t => pc'[u] = pc[u] /\ arg'[u] = arg[u]
  BY <1>1, Moves DEF PInv, Places
<1>3. \A u \in Threads : pc[u] \notin Holding
  BY <1>1 DEF PInv, StoreInv, Locked, Sentinels
<1>4. /\ meta' \in [Digests -> Rows] /\ meta'[d].state = "torn"
      /\ \A c \in Digests : c # d => meta'[c] = meta[c]
  BY <1>1, MetaWritten DEF PInv, TypeOK, Rows
<1>5. TypeOK'
  BY <1>1, <1>2, <1>4 DEF PInv, TypeOK, Rows, Places, Kept
<1>6. Locked'
  BY <1>1, <1>2, <1>3 DEF PInv, StoreInv, Locked, Kept, Holding, Sentinels
<1>7. Agreed'
  BY <1>1, <1>2, <1>3 DEF PInv, StoreInv, Agreed, Kept, Holding
<1>8. Earned'
  BY <1>1, <1>2, <1>4 DEF PInv, StoreInv, Earned, Readable, Kept
<1>9. RollbackReachable'
  BY <1>1, <1>2, <1>3, ReachableKept DEF Holding
<1> QED BY <1>5, <1>6, <1>7, <1>8, <1>9 DEF PInv, StoreInv

\* A filled draft is made from the active policy.
LEMMA FillKeeps ==
  ASSUME Sentinels, PInv, NEW t \in Threads, FillDraft(t) \/ FillFails(t)
  PROVE  PInv'
<1> DEFINE d == arg[t]
<1>1. /\ pc[t] = "fill" /\ lock' = NoThread /\ Return(t)
      /\ meta' = meta \/ meta' = [meta EXCEPT ![d] = Draft(active)]
      /\ Kept /\ UNCHANGED <<now, seed, serving, passed>>
  BY DEF FillDraft, FillFails, volume, Kept, Keep
<1>2. /\ up /\ d \in Digests /\ active \in Digests /\ active \in was /\ lock = t
      /\ \A u \in Threads : u # t => pc[u] \notin Holding
  BY <1>1 DEF PInv, StoreInv, Locked, Agreed, TypeOK, Holding, Sentinels
<1> HIDE DEF d
<1>3. /\ pc' \in [Threads -> Places] /\ pc'[t] = "idle"
      /\ arg' \in [Threads -> Digests \cup {NoDigest}]
      /\ base' \in [Threads -> Digests \cup {NoDigest}]
      /\ \A u \in Threads : u # t => pc'[u] = pc[u] /\ arg'[u] = arg[u]
  BY <1>1, Moves DEF PInv
<1>4. /\ meta' \in [Digests -> Rows]
      /\ \A c \in Digests : meta'[c] = meta[c] \/ (meta'[c].state = "draft" /\ meta'[c].base = active)
  <2>1. meta \in [Digests -> Rows]
    BY DEF PInv, TypeOK, Rows
  <2>2. CASE meta' = meta
    BY <2>1, <2>2
  <2>3. CASE meta' = [meta EXCEPT ![d] = Draft(active)]
    BY <1>2, <2>1, <2>3, MetaWritten DEF PInv
  <2> QED BY <1>1, <2>2, <2>3
<1>5. TypeOK'
  BY <1>1, <1>3, <1>4 DEF PInv, TypeOK, Rows, Places, Kept
<1>6. Locked'
  BY <1>1, <1>2, <1>3 DEF PInv, StoreInv, Locked, Kept, Holding, Sentinels
<1>7. Agreed'
  BY <1>1, <1>2, <1>3 DEF PInv, StoreInv, Agreed, Kept, Holding
<1>8. Earned'
  BY <1>1, <1>2, <1>3, <1>4 DEF PInv, StoreInv, Earned, Readable, Kept
<1>9. RollbackReachable'
  BY <1>1, <1>2, <1>3, ReachableKept DEF Holding
<1> QED BY <1>5, <1>6, <1>7, <1>8, <1>9 DEF PInv, StoreInv

\* The draft of a seed is made from the active policy too.
LEMMA SeedDraftKeeps ==
  ASSUME Sentinels, PInv, NEW t \in Threads, CreateSeedDraft(t)
  PROVE  PInv'
<1>1. /\ up /\ lock = NoThread /\ meta' = [meta EXCEPT ![seed] = Draft(active)]
      /\ Kept /\ UNCHANGED <<now, lock, seed, serving, passed, pc, arg, base>>
  BY DEF CreateSeedDraft, Kept, Keep, requests
<1>2. /\ seed \in Digests /\ active \in Digests /\ active \in was
      /\ \A u \in Threads : pc[u] \notin Holding
  BY <1>1 DEF PInv, StoreInv, Locked, Agreed, TypeOK, Sentinels
<1>3. /\ meta' \in [Digests -> Rows]
      /\ \A c \in Digests : meta'[c] = meta[c] \/ (meta'[c].state = "draft" /\ meta'[c].base = active)
  BY <1>1, <1>2, MetaWritten DEF PInv, TypeOK, Rows
<1>4. TypeOK'
  BY <1>1, <1>3 DEF PInv, TypeOK, Rows, Kept
<1>5. Locked'
  BY <1>1 DEF PInv, StoreInv, Locked, Kept
<1>6. Agreed'
  BY <1>1, <1>2 DEF PInv, StoreInv, Agreed, Kept, Holding
<1>7. Earned'
  BY <1>1, <1>2, <1>3 DEF PInv, StoreInv, Earned, Readable, Kept
<1>8. RollbackReachable'
  BY <1>1, ReachableKept
<1> QED BY <1>4, <1>5, <1>6, <1>7, <1>8 DEF PInv, StoreInv

-----------------------------------------------------------------------------
(* Promotion and rollback. *)

\* The pointer moves while no request is inside the store.
LEMMA ActivateKeeps ==
  ASSUME Sentinels, PInv, NEW t \in Threads, NEW d \in Digests, Promote(t, d) \/ Rollback(t, d)
  PROVE  PInv'
<1>1. /\ up /\ lock = NoThread /\ pc[t] = "idle" /\ up' = up
      /\ pointer' = d /\ active' = d /\ was' = was \cup {d}
      /\ UNCHANGED <<now, meta, activated, seed, serving, passed, unmarked>>
  BY DEF Promote, Rollback, SetActive, Keep
<1>2. PICK label \in {"remember", "serve"} : Enter(t, label, d)
  BY DEF Promote, Rollback
<1>3. /\ label = "remember" => lock' = t /\ Readable(d)
      /\ label = "serve" => lock' = lock /\ d \in activated
  BY <1>2, Moves DEF Promote, Rollback, Promotable, Readable, PInv, Places
<1>4. /\ pc' \in [Threads -> Places] /\ pc'[t] = label /\ arg'[t] = d
      /\ arg' \in [Threads -> Digests \cup {NoDigest}]
      /\ base' \in [Threads -> Digests \cup {NoDigest}]
      /\ \A u \in Threads : u # t => pc'[u] = pc[u] /\ arg'[u] = arg[u]
  BY <1>2, Moves DEF PInv, Places
<1>5. \A u \in Threads : pc[u] \notin Holding
  BY <1>1 DEF PInv, StoreInv, Locked, Sentinels
<1>6. TypeOK'
  BY <1>1, <1>3, <1>4 DEF PInv, TypeOK, Places
<1>7. Locked'
  BY <1>1, <1>3, <1>4, <1>5 DEF PInv, StoreInv, Locked, Holding, Sentinels
<1>8. Agreed'
  BY <1>1, <1>3, <1>4, <1>5 DEF PInv, StoreInv, Agreed, Readable, Holding
<1>9. Earned'
  BY <1>1, <1>4 DEF PInv, StoreInv, Earned, Readable
<1>10. RollbackReachable'
  <2>1. \A c \in was \ unmarked : c \in activated
    BY <1>1, <1>5 DEF PInv, StoreInv, RollbackReachable, Holding
  <2> QED BY <2>1, <1>1, <1>3, <1>4 DEF RollbackReachable
<1> QED BY <1>6, <1>7, <1>8, <1>9, <1>10 DEF PInv, StoreInv

\* The marker is that of the pointer.
LEMMA RememberKeeps ==
  ASSUME Sentinels, PInv, NEW t \in Threads, RememberActivation(t)
  PROVE  PInv'
<1>1. /\ pc[t] = "remember" /\ activated' = activated \cup {arg[t]} /\ Goto(t, "record")
      /\ UNCHANGED <<now, pointer, meta, up, lock, active, serving, seed, arg, base, passed, was, unmarked>>
  BY DEF RememberActivation, process
<1>2. arg[t] = pointer /\ pointer \in was /\ pointer \in Digests /\ Readable(pointer) /\ lock = t
  BY <1>1 DEF PInv, StoreInv, Locked, Agreed, Holding, Sentinels
<1>3. /\ pc' \in [Threads -> Places] /\ pc'[t] = "record"
      /\ \A u \in Threads : u # t => pc'[u] = pc[u]
  BY <1>1, Moves DEF PInv, Places
<1>4. TypeOK'
  BY <1>1, <1>2, <1>3 DEF PInv, TypeOK, Places
<1>5. Locked'
  BY <1>1, <1>2, <1>3 DEF PInv, StoreInv, Locked, Holding
<1>6. Agreed'
  BY <1>1, <1>2, <1>3 DEF PInv, StoreInv, Agreed, Readable
<1>7. Earned'
  BY <1>1, <1>3 DEF PInv, StoreInv, Earned, Readable
<1>8. RollbackReachable'
  BY <1>1, <1>2, <1>3 DEF PInv, StoreInv, RollbackReachable
<1> QED BY <1>4, <1>5, <1>6, <1>7, <1>8 DEF PInv, StoreInv

\* The file of an active policy keeps its base.
LEMMA RecordKeeps ==
  ASSUME Sentinels, PInv, NEW t \in Threads, RecordActive(t)
  PROVE  PInv'
<1> DEFINE d == arg[t]
<1>1. /\ pc[t] = "record" /\ lock' = NoThread /\ Goto(t, "serve")
      /\ meta' = [meta EXCEPT ![d].state = "active", ![d].testedAt = 0]
      /\ Kept /\ UNCHANGED <<now, seed, serving, arg, base, passed>>
  BY DEF RecordActive, Kept
<1>2. /\ d = pointer /\ Readable(d) /\ d \in Digests /\ lock = t
      /\ \A u \in Threads : u # t => pc[u] \notin Holding
  BY <1>1 DEF PInv, StoreInv, Locked, Agreed, Holding, Sentinels
<1> HIDE DEF d
<1>3. /\ pc' \in [Threads -> Places] /\ pc'[t] = "serve"
      /\ \A u \in Threads : u # t => pc'[u] = pc[u]
  BY <1>1, Moves DEF PInv, Places
<1>4. /\ meta' \in [Digests -> Rows] /\ meta'[d].state = "active" /\ meta'[d].base = meta[d].base
      /\ \A c \in Digests : c # d => meta'[c] = meta[c]
  <2>1. meta \in [Digests -> Rows] /\ "active" \in States /\ 0 \in 0..MaxTime
    BY DEF PInv, TypeOK, Rows, States, Sentinels
  <2> QED BY <1>1, <1>2, <2>1, MetaChanged
<1>5. TypeOK'
  BY <1>1, <1>3, <1>4 DEF PInv, TypeOK, Rows, Places, Kept
<1>6. Locked'
  BY <1>1, <1>2, <1>3 DEF PInv, StoreInv, Locked, Kept, Holding, Sentinels
<1>7. Agreed'
  BY <1>1, <1>2, <1>3 DEF PInv, StoreInv, Agreed, Kept, Holding
<1>8. Earned'
  BY <1>1, <1>2, <1>3, <1>4 DEF PInv, StoreInv, Earned, Readable, Kept
<1>9. RollbackReachable'
  BY <1>1, <1>3, ReachableKept
<1> QED BY <1>5, <1>6, <1>7, <1>8, <1>9 DEF PInv, StoreInv

\* A promotion that fails is remembered as unmarked, or was marked before.
LEMMA PromoteFailsKeeps ==
  ASSUME Sentinels, PInv, NEW t \in Threads, PromoteFails(t)
  PROVE  PInv'
<1>1. /\ pc[t] \in {"remember", "record"} /\ lock' = NoThread /\ Return(t)
      /\ unmarked' = IF pc[t] = "remember" THEN unmarked \cup {arg[t]} ELSE unmarked
      /\ UNCHANGED <<now, pointer, meta, activated, up, active, serving, seed, passed, was>>
  BY DEF PromoteFails, volume, Keep
<1>2. /\ arg[t] = pointer /\ pointer \in was /\ lock = t
      /\ \A u \in Threads : u # t => pc[u] \notin Holding
  BY <1>1 DEF PInv, StoreInv, Locked, Agreed, Holding, Sentinels
<1>3. /\ pc' \in [Threads -> Places] /\ pc'[t] = "idle"
      /\ arg' \in [Threads -> Digests \cup {NoDigest}]
      /\ base' \in [Threads -> Digests \cup {NoDigest}]
      /\ \A u \in Threads : u # t => pc'[u] = pc[u] /\ arg'[u] = arg[u]
  BY <1>1, Moves DEF PInv
<1>4. TypeOK'
  BY <1>1, <1>2, <1>3 DEF PInv, TypeOK, Places
<1>5. Locked'
  BY <1>1, <1>2, <1>3 DEF PInv, StoreInv, Locked, Holding, Sentinels
<1>6. Agreed'
  BY <1>1, <1>2, <1>3 DEF PInv, StoreInv, Agreed, Readable, Holding
<1>7. Earned'
  BY <1>1, <1>3 DEF PInv, StoreInv, Earned, Readable
<1>8. RollbackReachable'
  BY <1>1, <1>2, <1>3 DEF PInv, StoreInv, RollbackReachable, Holding
<1> QED BY <1>4, <1>5, <1>6, <1>7, <1>8 DEF PInv, StoreInv

-----------------------------------------------------------------------------
(* The theorems. *)

\* Every step keeps the invariant.
LEMMA StepStore == Sentinels /\ PInv /\ [Next]_vars => PInv'
<1> SUFFICES ASSUME Sentinels, PInv, [Next]_vars PROVE PInv'
  OBVIOUS
<1>1. CASE FirstPointer \/ Recover \/ Crash \/ Tick \/ UNCHANGED vars
  BY <1>1, FirstPointerKeeps, RecoverKeeps, CrashKeeps, TickKeeps
<1>2. ASSUME NEW t \in Threads, Begin(t)
      PROVE  PInv'
  BY <1>2, SeedDraftKeeps, CreateDraftKeeps, TestDraftKeeps, ActivateKeeps DEF Begin
<1>3. ASSUME NEW t \in Threads, Step(t)
      PROVE  PInv'
  BY <1>3, FillKeeps, TestedKeeps, MarkTestedKeeps, RememberKeeps, RecordKeeps, PromoteFailsKeeps DEF Step
<1> QED BY <1>1, <1>2, <1>3 DEF Next

\* The types hold, one request at a time is inside the store, and the process agrees
\* with its volume.
THEOREM StoreInvariance == ASSUME Sentinels PROVE Spec => []PInv
<1>1. Sentinels
  OBVIOUS
<1>2. Init => PInv
  BY <1>1, InitStore
<1>3. PInv /\ [Next]_vars => PInv'
  BY <1>1, StepStore
<1> QED BY <1>2, <1>3, PTL DEF Spec

\* Every policy that was active can be rolled back to (PolicyStore.rollback), unless
\* its marker could not be written, whatever requests overlap and wherever the process died.
THEOREM RollbackReachableAlways == ASSUME Sentinels PROVE Spec => []RollbackReachable
<1>1. PInv => RollbackReachable
  BY DEF PInv, StoreInv
<1> QED BY <1>1, StoreInvariance, PTL

\* What moves the pointer.
LEMMA PointerMoves ==
  ASSUME Sentinels, PInv, [Next]_vars, pointer' # pointer, pointer # NoDigest
  PROVE  \/ pointer' \in was
         \/ pointer' \in Digests /\ Promotable(pointer') /\ active = pointer
<1>1. up
  BY DEF Next, FirstPointer, Recover, Crash, Tick, Begin, Step, CreateSeedDraft, CreateDraft, TestDraft,
         Promote, Rollback, FillDraft, FillFails, TestsFail, TestsPass, MarkTested, RememberActivation,
         RecordActive, PromoteFails, Serve, vars, volume
<1>2. \E t \in Threads, d \in Digests : Promote(t, d) \/ Rollback(t, d)
  BY DEF Next, FirstPointer, Recover, Crash, Tick, Begin, Step, CreateSeedDraft, CreateDraft, TestDraft,
         FillDraft, FillFails, TestsFail, TestsPass, MarkTested, RememberActivation,
         RecordActive, PromoteFails, Serve, vars, volume
<1>3. active = pointer /\ activated \subseteq was
  BY <1>1 DEF PInv, StoreInv, Agreed
<1> QED BY <1>2, <1>3 DEF Promote, Rollback, SetActive

\* What a file of the volume becomes, but for the marking of a test.
LEMMA FileMoves ==
  ASSUME Sentinels, PInv, [Next]_vars, NEW d \in Digests, meta'[d] # meta[d],
         \A t \in Threads : ~MarkTested(t)
  PROVE  meta'[d].state \in {"torn", "draft", "active"}
<1>1. meta \in [Digests -> Rows]
  BY DEF PInv, TypeOK, Rows
<1>2. PICK t \in Threads : \/ FillDraft(t) \/ RecordActive(t) \/ CreateSeedDraft(t)
                           \/ \E c \in Digests : CreateDraft(t, c)
  BY DEF Next, FirstPointer, Recover, Crash, Tick, Begin, Step, TestDraft, Promote, Rollback,
         FillFails, TestsFail, TestsPass, RememberActivation, PromoteFails, Serve, vars, volume
<1>3. pc[t] # "idle" => arg[t] \in Digests
  BY DEF PInv, StoreInv, Locked
<1>4. up => active \in Digests
  BY DEF PInv, TypeOK
<1>5. CASE FillDraft(t) \/ CreateSeedDraft(t)
  <2>1. PICK c \in Digests : meta' = [meta EXCEPT ![c] = Draft(active)]
    BY <1>3, <1>5 DEF FillDraft, CreateSeedDraft, PInv, TypeOK, Sentinels
  <2>2. active \in Digests
    BY <1>4, <1>5 DEF FillDraft, CreateSeedDraft, PInv, StoreInv, Locked
  <2>3. Draft(active).state = "draft"
    BY <2>1, <2>2, MetaWritten DEF PInv
  <2> QED BY <1>1, <2>1, <2>3
<1>6. CASE RecordActive(t)
  <2>1. meta' = [meta EXCEPT ![arg[t]].state = "active", ![arg[t]].testedAt = 0] /\ arg[t] \in Digests
    BY <1>3, <1>6 DEF RecordActive
  <2>2. "active" \in States /\ 0 \in 0..MaxTime
    BY DEF States, Sentinels
  <2>3. /\ meta'[arg[t]].state = "active"
        /\ \A c \in Digests : c # arg[t] => meta'[c] = meta[c]
    BY <1>1, <2>1, <2>2, MetaChanged
  <2> QED BY <2>3
<1>7. ASSUME NEW c \in Digests, CreateDraft(t, c)
      PROVE  meta'[d].state \in {"torn", "draft", "active"}
  <2>1. meta' = [meta EXCEPT ![c] = Torn] /\ active \in Digests
    BY <1>4, <1>7 DEF CreateDraft
  <2>2. Torn.state = "torn"
    BY <2>1, MetaWritten DEF PInv
  <2> QED BY <1>1, <2>1, <2>2
<1> QED BY <1>2, <1>5, <1>6, <1>7

\* Only a marking makes a draft tested, and only of the file it looked at.
LEMMA TestedOnlyByMarking ==
  ASSUME Sentinels, PInv, [Next]_vars, NEW d \in Digests, meta'[d].state = "tested", meta[d].state = "draft"
  PROVE  \E t \in Threads : Markable(t) /\ d = arg[t]
<1>1. PICK t \in Threads : MarkTested(t)
  BY FileMoves
<1>2. Markable(t) /\ meta' = [meta EXCEPT ![arg[t]].state = "tested", ![arg[t]].testedAt = now]
  BY <1>1 DEF MarkTested
<1>3. arg[t] \in Digests /\ meta \in [Digests -> Rows] /\ now \in 0..MaxTime /\ "tested" \in States
  BY <1>1 DEF MarkTested, PInv, StoreInv, Locked, TypeOK, Rows, States, Times, Sentinels
<1>4. \A c \in Digests : c # arg[t] => meta'[c] = meta[c]
  BY <1>2, <1>3, MetaChanged
<1> QED BY <1>2, <1>4

\* However admin requests overlap and the process dies, PolicyStore.promote makes a
\* policy active only after its tests passed, within the window, or again.
THEOREM OnlyTestedBecomesActiveAlways == ASSUME Sentinels PROVE Spec => OnlyTestedBecomesActive
<1>1. Sentinels
  OBVIOUS
<1>2. PInv /\ [Next]_vars =>
        [pointer' # pointer => \/ pointer = NoDigest
                               \/ pointer' \in was
                               \/ passed[pointer'] /\ now - meta[pointer'].testedAt <= Life]_vars
  BY <1>1, PointerMoves DEF PInv, StoreInv, Earned, Promotable
<1> QED BY <1>2, StoreInvariance, PTL DEF Spec, OnlyTestedBecomesActive

\* A draft is marked tested (PolicyStore.mark_tested), and becomes active for the
\* first time, only over the policy it was made from.
THEOREM PromotedOverItsBaseAlways == ASSUME Sentinels PROVE Spec => PromotedOverItsBase
<1>1. Sentinels
  OBVIOUS
<1>2. PInv /\ [Next]_vars =>
        [/\ \A d \in Digests : meta'[d].state = "tested" /\ meta[d].state = "draft" => meta[d].base = active
         /\ pointer' \notin was /\ pointer # NoDigest => meta[pointer'].base = pointer]_vars
  <2> SUFFICES ASSUME PInv, [Next]_vars
               PROVE  /\ \A d \in Digests : meta'[d].state = "tested" /\ meta[d].state = "draft" => meta[d].base = active
                      /\ pointer' \notin was /\ pointer # NoDigest => meta[pointer'].base = pointer
    OBVIOUS
  <2>1. pointer' \notin was /\ pointer # NoDigest => meta[pointer'].base = pointer
    BY <1>1, PointerMoves DEF Promotable, PInv, StoreInv, Agreed
  <2>2. ASSUME NEW d \in Digests, meta'[d].state = "tested", meta[d].state = "draft"
        PROVE  meta[d].base = active
    BY <1>1, <2>2, TestedOnlyByMarking DEF Markable
  <2> QED BY <2>1, <2>2
<1> QED BY <1>2, StoreInvariance, PTL DEF Spec, PromotedOverItsBase

===============================================================================
