----------------------------- MODULE InstallSlots -----------------------------
(***************************************************************************)
(* The slots that bound concurrent installs (driver.go: installSem,        *)
(* acquireInstallSlot, SetConfig) and the part of StartTask that uses      *)
(* them, for the installs of different tasks.  installSem is a buffered    *)
(* channel; SetConfig makes a new one.                                     *)
(***************************************************************************)
EXTENDS Naturals, Sequences, FiniteSets

CONSTANTS
  Install,   \* StartTask calls that run steamcmd
  Configs    \* the max_concurrent_installs of each SetConfig call, in order

ASSUME InstallsAreFinite == IsFiniteSet(Install)
ASSUME ConfigsAreCounts == Configs \in Seq(Nat) /\ Len(Configs) > 0

VARIABLES
  config,    \* the SetConfig whose channel is in d.installSem
  buf,       \* the elements in the channel of each SetConfig
  pc,        \* where each install is
  on,        \* the channel a blocked send or receive is on
  slot,      \* what the release function of an install will do
  expired,   \* installCtx is done: install_timeout or h.cancel
  steamcmd   \* the installs whose steamcmd is running

vars == <<config, buf, pc, on, slot, expired, steamcmd>>

\* A nil channel when the installs are unbounded.
IsNil(c) == Configs[c] = 0

Init ==
  /\ config = 1
  /\ buf = [c \in DOMAIN Configs |-> 0]
  /\ pc = [i \in Install |-> "acquire"]
  /\ on = [i \in Install |-> 1]
  /\ slot = [i \in Install |-> "none"]
  /\ expired = {}
  /\ steamcmd = {}

Goto(i, next) == pc' = [pc EXCEPT ![i] = next]

\* max_concurrent_installs changes under whatever installs are under way.
SetConfig ==
  /\ config < Len(Configs)
  /\ config' = config + 1
  /\ UNCHANGED <<buf, pc, on, slot, expired, steamcmd>>

\* acquireInstallSlot: no channel, no slot; else it reads installSem again
\* and sends on it.
Acquire(i) ==
  /\ pc[i] = "acquire"
  /\ Goto(i, IF IsNil(config) THEN "install" ELSE "select")
  /\ UNCHANGED <<config, buf, on, slot, expired, steamcmd>>

Select(i) ==
  /\ pc[i] = "select"
  /\ on' = [on EXCEPT ![i] = config]
  /\ Goto(i, "send")
  /\ UNCHANGED <<config, buf, slot, expired, steamcmd>>

\* Slip: one slot too many, a channel tested for room before it is sent to.
SendWhenFull(i) ==
  /\ pc[i] = "send" /\ ~IsNil(on[i]) /\ buf[on[i]] <= Configs[on[i]]
  /\ buf' = [buf EXCEPT ![on[i]] = @ + 1]
  /\ slot' = [slot EXCEPT ![i] = "held"]
  /\ Goto(i, "install")
  /\ UNCHANGED <<config, on, expired, steamcmd>>

Send(i) ==
  /\ pc[i] = "send" /\ ~IsNil(on[i]) /\ buf[on[i]] < Configs[on[i]]
  /\ buf' = [buf EXCEPT ![on[i]] = @ + 1]
  /\ slot' = [slot EXCEPT ![i] = "held"]
  /\ Goto(i, "install")
  /\ UNCHANGED <<config, on, expired, steamcmd>>

\* Slip: a release function that gives back a slot never taken.
GiveUpButRelease(i) ==
  /\ pc[i] = "send" /\ i \in expired
  /\ slot' = [slot EXCEPT ![i] = "held"]
  /\ Goto(i, "install")
  /\ UNCHANGED <<config, buf, on, expired, steamcmd>>

\* The context is done first.  StartTask does not look at that: it goes on to
\* the install, whose process then cannot start.
GiveUp(i) ==
  /\ pc[i] = "send" /\ i \in expired
  /\ Goto(i, "install")
  /\ UNCHANGED <<config, buf, on, slot, expired, steamcmd>>

\* install_timeout passes, or DestroyTask cancels the handle.
Expire(i) ==
  /\ pc[i] # "done" /\ i \notin expired
  /\ expired' = expired \cup {i}
  /\ UNCHANGED <<config, buf, pc, on, slot, steamcmd>>

\* runInstall: exec may fail to start the process, and refuses to under a
\* context that is done.
Run(i, at, next) ==
  /\ pc[i] = at
  /\ \/ Goto(i, "release") /\ UNCHANGED steamcmd
     \/ i \notin expired /\ steamcmd' = steamcmd \cup {i} /\ Goto(i, next)
  /\ UNCHANGED <<config, buf, on, slot, expired>>

\* Slip: an error return that skips release().
RunEndsUnreleased(i) ==
  /\ pc[i] \in {"run", "rerun"}
  /\ Goto(i, IF i \in expired THEN "done" ELSE "release")
  /\ steamcmd' = steamcmd \ {i}
  /\ UNCHANGED <<config, buf, on, slot, expired>>

\* installWithRepair: at most one more run, under the same slot, unless the
\* context is done.
RunEnds(i) ==
  /\ \/ pc[i] = "run" /\ (Goto(i, "release") \/ (i \notin expired /\ Goto(i, "repair")))
     \/ pc[i] = "rerun" /\ Goto(i, "release")
  /\ steamcmd' = steamcmd \ {i}
  /\ UNCHANGED <<config, buf, on, slot, expired>>

\* release(): nothing, or a receive on whatever channel installSem is NOW.
Release(i) ==
  /\ pc[i] = "release"
  /\ IF slot[i] = "none"
       THEN Goto(i, "done") /\ UNCHANGED on
       ELSE Goto(i, "receive") /\ on' = [on EXCEPT ![i] = config]
  /\ UNCHANGED <<config, buf, slot, expired, steamcmd>>

Receive(i) ==
  /\ pc[i] = "receive" /\ buf[on[i]] > 0
  /\ buf' = [buf EXCEPT ![on[i]] = @ - 1]
  /\ slot' = [slot EXCEPT ![i] = "none"]
  /\ Goto(i, "done")
  /\ UNCHANGED <<config, on, expired, steamcmd>>

Step(i) ==
  \/ Acquire(i) \/ Select(i) \/ GiveUp(i)
  \/ Run(i, "install", "run") \/ RunEnds(i) \/ Run(i, "repair", "rerun")
  \/ Release(i) \/ Receive(i)

Next == SetConfig \/ \E i \in Install : Step(i) \/ Send(i) \/ Expire(i)

Spec == Init /\ [][Next]_vars

\* Goroutines run and a steamcmd ends (or is killed when its context is
\* done).  Go serves the senders blocked on a channel in the order they came,
\* so one of them is not overtaken for ever: strong fairness of the send.
FairSpec ==
  /\ Spec
  /\ \A i \in Install : WF_vars(Step(i)) /\ SF_vars(Send(i))

-----------------------------------------------------------------------------

\* Every variable has its type; no channel holds more than its capacity.
TypeOK ==
  /\ config \in DOMAIN Configs
  /\ buf \in [DOMAIN Configs -> Nat]
  /\ \A c \in DOMAIN Configs : buf[c] <= Configs[c]
  /\ pc \in [Install -> {"acquire", "select", "send", "install", "run",
                         "repair", "rerun", "release", "receive", "done"}]
  /\ on \in [Install -> DOMAIN Configs]
  /\ slot \in [Install -> {"none", "held"}]
  /\ expired \subseteq Install
  /\ steamcmd \subseteq Install

\* What the field says of itself: it "bounds concurrent steamcmd installs if
\* MaxConcurrent > 0", also when waiting installs time out or are destroyed.
\* (Once SetConfig has replaced the channel the code does not keep to it.)
SlotBound ==
  config = 1 /\ ~IsNil(1) => Cardinality(steamcmd) <= Configs[1]

Holders == {i \in Install : slot[i] = "held"}

\* The elements in all the channels, by channel and place.
Elements == UNION {{c} \X (1..buf[c]) : c \in DOMAIN Configs}

\* However often SetConfig replaces the channel, and although release() may
\* receive from another one than was sent on: the channels hold one element
\* for each install that has still to give its slot back, so that no slot is
\* made up and the limits ever set bound the installs that hold one.
ElementsAreHeld == Cardinality(Elements) = Cardinality(Holders)

\* A slot that was taken is given back: every install that took part returns,
\* and one that waits for a slot gets one without having to time out, as long
\* as SetConfig does not replace the channel.
InstallsReturn == \A i \in Install : <>(pc[i] = "done" \/ config # 1)
=============================================================================
