---------------------------- MODULE RegressionSuite ----------------------------
(***************************************************************************)
(* Verifications of mission P13 from several sessions at a time: the       *)
(* control center (verify_h13_promptfoo), the runner of the learner's      *)
(* Promptfoo suite (h13-promptfoo/server.mjs) and the verifier             *)
(* (check_h13_sequence with h13_sequential.py).                            *)
(*                                                                         *)
(* The two cases of a suite are evaluated one after the other.  A prefix,  *)
(* on a volume, says how far it has come, and with which configuration.    *)
(***************************************************************************)
EXTENDS Integers, Sequences

CONSTANT Suites

Builds == {"starter",  \* has no test for the risk case
           "loose",    \* has one that the application lets through
           "fixed"}
LastCase == 2  \* normal, then risk

VARIABLES image,
          wire,     \* requests on their way: suite and case
          busy,     \* caseBusy: the case that is evaluated; none is <<>>
          prefix,   \* by suite
          used,     \* the verifier's used_evidence: what each of a suite's cases was shown with
          ran,      \* the builds that evaluated a suite's cases, in order (history)
          run       \* the control center, by suite

vars == <<image, wire, busy, prefix, used, ran, run>>

NoPrefix == [state |-> "none", digest |-> "none", entries |-> <<>>]
Init == /\ image \in Builds
        /\ wire = {} /\ busy = <<>>
        /\ prefix = [s \in Suites |-> NoPrefix]
        /\ used = [s \in Suites |-> <<>>]
        /\ ran = [s \in Suites |-> <<>>]
        /\ run = [s \in Suites |-> [at |-> "run", done |-> 0, verdict |-> "none"]]

(* The control center. *)
Ended(s, verdict) == [run EXCEPT ![s].at = "ended", ![s].verdict = verdict]
Failed(s) == IF run[s].at = "sent" THEN Ended(s, "ERR") ELSE run

Send == \E s \in Suites:
  /\ run[s].at = "run" /\ run[s].done < LastCase
  /\ wire' = wire \cup {<<s, run[s].done + 1>>}
  /\ run' = [run EXCEPT ![s].at = "sent"]
  /\ UNCHANGED <<image, busy, prefix, used, ran>>

\* A request that fails or is not waited for; or the suite has become too old.
GiveUp == \E s \in Suites:
  /\ run[s].at # "ended"
  /\ run' = Ended(s, "ERR")
  /\ UNCHANGED <<image, wire, busy, prefix, used, ran>>

(* The runner: runCase. *)
\* Mutant: the prefix is bound anew to the configuration that goes on.
OpenedAnew(s) == IF prefix[s].state = "none" THEN [state |-> "paused", digest |-> image, entries |-> <<>>]
                 ELSE [prefix[s] EXCEPT !.digest = image]
Opened(s) == IF prefix[s].state = "none" THEN [state |-> "paused", digest |-> image, entries |-> <<>>]
             ELSE prefix[s]
Advances(s, case) == /\ Opened(s).state = "paused" /\ Opened(s).digest = image
                     /\ case = Len(Opened(s).entries) + 1

StartCase == \E <<s, case>> \in wire:
  /\ busy = <<>> /\ Advances(s, case)
  /\ wire' = wire \ {<<s, case>>}
  /\ busy' = <<s, case>>
  /\ prefix' = [prefix EXCEPT ![s] = [Opened(s) EXCEPT !.state = "running"]]
  /\ UNCHANGED <<image, used, ran, run>>

RefuseCase == \E <<s, case>> \in wire:
  /\ busy # <<>> \/ ~Advances(s, case)
  /\ wire' = wire \ {<<s, case>>}
  /\ run' = Failed(s)
  /\ UNCHANGED <<image, busy, prefix, used, ran>>

\* The artifact is known by the build that wrote it.
EndCase == /\ busy # <<>>
           /\ LET s == busy[1]
                  entries == Append(prefix[s].entries, image) IN
                /\ prefix' = [prefix EXCEPT ![s].entries = entries,
                                ![s].state = IF Len(entries) = LastCase THEN "finished" ELSE "paused"]
                /\ ran' = [ran EXCEPT ![s] = Append(@, image)]
                /\ run' = IF run[s].at = "sent" THEN [run EXCEPT ![s].at = "check"] ELSE run
           /\ busy' = <<>>
           /\ UNCHANGED <<image, wire, used>>

\* An evaluation that does not come to its end leaves the prefix running for good.
FailCase == /\ busy # <<>> /\ busy' = <<>>
            /\ run' = Failed(busy[1])
            /\ UNCHANGED <<image, wire, prefix, used, ran>>

Rebuild == \E b \in Builds:
  /\ image' = b /\ busy' = <<>>
  /\ run' = IF busy # <<>> THEN Failed(busy[1]) ELSE run
  /\ UNCHANGED <<wire, prefix, used, ran>>

(* The verifier: through the case that was run, then for the whole suite. *)
Answered(case, build) == IF case = 1 THEN "allow"
                         ELSE IF build = "fixed" THEN "block"
                         ELSE IF build = "loose" THEN "allow"
                         ELSE "nothing"
Expected == <<"allow", "block">>

SoundThrough(s, n) ==
  /\ prefix[s].state = (IF n < LastCase THEN "paused" ELSE "finished")
  /\ prefix[s].digest = image
  /\ Len(prefix[s].entries) = n
  /\ \A i \in 1..n: Answered(i, prefix[s].entries[i]) = Expected[i]

\* reserve_provider_evidence_batch, as it is called: the case is the key, the artifact its owner.
Reservable(s) == \A i \in DOMAIN used[s] \cap DOMAIN prefix[s].entries: used[s][i] = prefix[s].entries[i]
Reserved(s) == [used EXCEPT ![s] = prefix[s].entries]

CheckCase == \E s \in Suites:
  /\ run[s].at = "check"
  /\ IF SoundThrough(s, run[s].done + 1) /\ Reservable(s)
       THEN /\ run' = [run EXCEPT ![s].at = "run", ![s].done = @ + 1]
            /\ used' = Reserved(s)
       ELSE run' = Ended(s, "ERR") /\ UNCHANGED used
  /\ UNCHANGED <<image, wire, busy, prefix, ran>>

CheckSequence == \E s \in Suites:
  /\ run[s].at = "run" /\ run[s].done = LastCase
  /\ run' = Ended(s, IF SoundThrough(s, LastCase) /\ Reservable(s) THEN "PASS" ELSE "ERR")
  /\ UNCHANGED <<image, wire, busy, prefix, used, ran>>

Next == Send \/ GiveUp \/ StartCase \/ RefuseCase \/ EndCase \/ FailCase \/ Rebuild
        \/ CheckCase \/ CheckSequence
Spec == Init /\ [][Next]_vars

Shown == UNION {[1..n -> Builds]: n \in 0..LastCase}
TypeOK == /\ image \in Builds
          /\ wire \subseteq Suites \X (1..LastCase)
          /\ busy \in {<<>>} \cup (Suites \X (1..LastCase))
          /\ prefix \in [Suites -> [state: {"none", "paused", "running", "finished"},
                                    digest: Builds \cup {"none"}, entries: Shown]]
          /\ used \in [Suites -> Shown] /\ ran \in [Suites -> Shown]
          /\ run \in [Suites -> [at: {"run", "sent", "check", "ended"}, done: 0..LastCase,
                                 verdict: {"none", "PASS", "ERR"}]]

\* A suite that passes had both its cases evaluated once, in order, by one configuration, the one
\* that stops the risk before the model.
VerdictIsTrue == \A s \in Suites: run[s].verdict = "PASS" => ran[s] = <<"fixed", "fixed">>
================================================================================
