-------------------------- MODULE InstallSlots_proofs --------------------------
(***************************************************************************)
(* Proofs about InstallSlots: the types for any sequence of SetConfig      *)
(* calls, the bound until SetConfig replaces the channel.                  *)
(***************************************************************************)
EXTENDS InstallSlots, FiniteSetTheorems, TLAPS

-----------------------------------------------------------------------------
(* The inductive invariant behind SlotBound, until the second SetConfig.   *)

\* The channel holds one element per install that has yet to give it back,
\* and only those run steamcmd.
SlotsCounted == buf[1] = Cardinality(Holders)

RunnersHold == ~IsNil(1) => steamcmd \subseteq Holders

\* Where an install may be without a slot, and where it runs steamcmd.
Bookkeeping ==
  \A i \in Install :
    /\ pc[i] \in {"acquire", "select", "send"} => slot[i] = "none"
    /\ pc[i] \in {"install", "repair"} /\ i \notin expired /\ ~IsNil(1)
         => slot[i] = "held"
    /\ i \in steamcmd <=> pc[i] \in {"run", "rerun"}
    /\ pc[i] = "receive" => slot[i] = "held"
    /\ pc[i] = "repair" /\ ~IsNil(1) => slot[i] = "held"
    /\ on[i] = 1

SlotInv ==
  config = 1 => SlotsCounted /\ RunnersHold /\ Bookkeeping

-----------------------------------------------------------------------------
(* The inductive invariant behind ElementsAreHeld, under any SetConfig.    *)

\* An install holds no slot before its send and still holds one at its receive,
\* and no channel is used before its SetConfig.
SlotsMatch ==
  /\ \A c \in DOMAIN Configs : buf[c] > 0 => c <= config
  /\ \A i \in Install :
       /\ pc[i] \in {"acquire", "select", "send"} => slot[i] = "none"
       /\ pc[i] = "receive" => slot[i] = "held"
       /\ on[i] <= config

\* The slots of every limit set so far.
Slots == UNION {{c} \X (1..Configs[c]) : c \in 1..config}

ElementInv ==
  /\ SlotsMatch
  /\ IsFiniteSet(Slots)
  /\ ElementsAreHeld

\* However many installs there are and wherever the channel was replaced, those
\* that hold a slot are no more than the limits set so far add up to.
HoldersBounded == Cardinality(Holders) <= Cardinality(Slots)

-----------------------------------------------------------------------------

\* The limits are counts, and there is a first one.
LEMMA ConfigTypes ==
  /\ 1 \in DOMAIN Configs
  /\ \A c \in DOMAIN Configs : Configs[c] \in Nat
  /\ \A c \in DOMAIN Configs : c < Len(Configs) => c + 1 \in DOMAIN Configs
  BY ConfigsAreCounts

\* Every variable keeps its type and no channel overflows, whatever SetConfig
\* does meanwhile.
THEOREM SlotTypes == Spec => []TypeOK
<1> USE ConfigTypes DEF TypeOK
<1>1. Init => TypeOK
  BY DEF Init
<1>2. TypeOK /\ [Next]_vars => TypeOK'
  <2> SUFFICES ASSUME TypeOK, [Next]_vars
               PROVE  TypeOK'
    OBVIOUS
  <2>1. CASE SetConfig
    BY <2>1 DEF SetConfig
  <2>2. ASSUME NEW i \in Install, Step(i)
        PROVE  TypeOK'
    <3>1. CASE Acquire(i)
      BY <3>1 DEF Acquire, Goto
    <3>2. CASE Select(i)
      BY <3>2 DEF Select, Goto
    <3>3. CASE GiveUp(i)
      BY <3>3 DEF GiveUp, Goto
    <3>4. CASE Run(i, "install", "run") \/ Run(i, "repair", "rerun")
      BY <3>4 DEF Run, Goto
    <3>5. CASE RunEnds(i)
      BY <3>5 DEF RunEnds, Goto
    <3>6. CASE Release(i)
      BY <3>6 DEF Release, Goto
    <3>7. CASE Receive(i)
      <4>1. /\ on[i] \in DOMAIN Configs /\ buf[on[i]] \in Nat
            /\ buf[on[i]] - 1 \in Nat /\ buf[on[i]] - 1 <= Configs[on[i]]
        BY <3>7 DEF Receive
      <4> QED
        BY <3>7, <4>1 DEF Receive, Goto
    <3> QED
      BY <2>2, <3>1, <3>2, <3>3, <3>4, <3>5, <3>6, <3>7 DEF Step
  <2>3. ASSUME NEW i \in Install, Send(i)
        PROVE  TypeOK'
    <3>1. /\ on[i] \in DOMAIN Configs /\ buf[on[i]] \in Nat
          /\ buf[on[i]] + 1 <= Configs[on[i]]
      BY <2>3 DEF Send
    <3> QED
      BY <2>3, <3>1 DEF Send, Goto
  <2>4. ASSUME NEW i \in Install, Expire(i)
        PROVE  TypeOK'
    BY <2>4 DEF Expire
  <2>5. CASE UNCHANGED vars
    BY <2>5 DEF vars
  <2> QED
    BY <2>1, <2>2, <2>3, <2>4, <2>5 DEF Next
<1> QED
  BY <1>1, <1>2, PTL DEF Spec

LEMMA HoldersFinite == IsFiniteSet(Holders)
  BY InstallsAreFinite, FS_Subset DEF Holders

\* Taking a slot adds one holder, giving it back removes one.
LEMMA HoldersChange ==
  ASSUME TypeOK, NEW i \in Install
  PROVE  /\ slot[i] = "none" /\ slot' = [slot EXCEPT ![i] = "held"]
              => Cardinality(Holders') = Cardinality(Holders) + 1
         /\ slot[i] = "held" /\ slot' = [slot EXCEPT ![i] = "none"]
              => Cardinality(Holders') = Cardinality(Holders) - 1
<1>1. ASSUME slot[i] = "none", slot' = [slot EXCEPT ![i] = "held"]
      PROVE  Cardinality(Holders') = Cardinality(Holders) + 1
  <2>1. Holders' = Holders \cup {i} /\ i \notin Holders
    BY <1>1 DEF Holders, TypeOK
  <2> QED
    BY <2>1, HoldersFinite, FS_AddElement
<1>2. ASSUME slot[i] = "held", slot' = [slot EXCEPT ![i] = "none"]
      PROVE  Cardinality(Holders') = Cardinality(Holders) - 1
  <2>1. Holders' = Holders \ {i} /\ i \in Holders
    BY <1>2 DEF Holders, TypeOK
  <2> QED
    BY <2>1, HoldersFinite, FS_RemoveElement
<1> QED
  BY <1>1, <1>2

LEMMA SlotInvariant == Spec => []SlotInv
<1> USE ConfigsAreCounts DEF SlotInv, RunnersHold, Bookkeeping, IsNil
<1>1. Init => SlotInv
  <2> SUFFICES ASSUME Init PROVE SlotInv
    OBVIOUS
  <2>1. Holders = {}
    BY DEF Init, Holders
  <2>2. Cardinality(Holders) = 0
    BY <2>1, FS_EmptySet
  <2> QED
    BY <2>1, <2>2 DEF Init, SlotsCounted
<1>2. TypeOK /\ SlotInv /\ [Next]_vars => SlotInv'
  <2> SUFFICES ASSUME TypeOK, SlotInv, [Next]_vars, config' = 1
               PROVE  SlotInv'
    OBVIOUS
  <2> USE DEF TypeOK
  <2>1. ~SetConfig
    BY ConfigTypes DEF SetConfig
  <2>2. config = 1
    BY <2>1 DEF Next, Step, Acquire, Select, GiveUp, Run, RunEnds, Release,
                Receive, Send, Expire, vars
  <2>3. ASSUME NEW i \in Install, Step(i)
        PROVE  SlotInv'
    <3> USE <2>2 DEF Goto, SlotsCounted
    <3>1. CASE Acquire(i)
      BY <3>1 DEF Acquire, Holders
    <3>2. CASE Select(i)
      BY <3>2 DEF Select, Holders
    <3>3. CASE GiveUp(i)
      BY <3>3 DEF GiveUp, Holders
    <3>4. ASSUME NEW at, NEW next, Run(i, at, next),
                 \/ at = "install" /\ next = "run"
                 \/ at = "repair" /\ next = "rerun"
          PROVE  SlotInv'
      <4>1. Holders' = Holders
        BY <3>4 DEF Run, Holders
      <4>2. CASE pc' = [pc EXCEPT ![i] = "release"] /\ steamcmd' = steamcmd
        BY <3>4, <4>1, <4>2 DEF Run
      <4>3. CASE /\ i \notin expired /\ steamcmd' = steamcmd \cup {i}
                 /\ pc' = [pc EXCEPT ![i] = next]
        <5>1. ~IsNil(1) => i \in Holders
          BY <3>4, <4>3 DEF Run, Holders
        <5>2. RunnersHold'
          BY <3>4, <4>1, <4>3, <5>1 DEF Run
        <5> QED
          BY <3>4, <4>1, <4>3, <5>2 DEF Run
      <4> QED
        BY <3>4, <4>2, <4>3 DEF Run
    <3>5. CASE RunEnds(i)
      BY <3>5 DEF RunEnds, Holders
    <3>6. CASE Release(i)
      BY <3>6 DEF Release, Holders
    <3>7. CASE Receive(i)
      <4>1. slot[i] = "held" /\ on[i] = 1
        BY <3>7 DEF Receive
      <4>2. Cardinality(Holders') = Cardinality(Holders) - 1
        BY <3>7, <4>1, HoldersChange DEF Receive
      <4>3. SlotsCounted'
        BY <3>7, <4>1, <4>2 DEF Receive
      <4> QED
        BY <3>7, <4>1, <4>3 DEF Receive, Holders
    <3> QED
      BY <2>3, <3>1, <3>2, <3>3, <3>4, <3>5, <3>6, <3>7 DEF Step
  <2>4. ASSUME NEW i \in Install, Send(i)
        PROVE  SlotInv'
    <3> USE <2>2
    <3>1. slot[i] = "none" /\ on[i] = 1
      BY <2>4 DEF Send
    <3>2. Cardinality(Holders') = Cardinality(Holders) + 1
      BY <2>4, <3>1, HoldersChange DEF Send
    <3>3. SlotsCounted'
      BY <2>4, <3>1, <3>2 DEF Send, SlotsCounted
    <3> QED
      BY <2>4, <3>1, <3>3 DEF Send, Goto, Holders
  <2>5. ASSUME NEW i \in Install, Expire(i)
        PROVE  SlotInv'
    BY <2>2, <2>5 DEF Expire, SlotsCounted, Holders
  <2>6. CASE UNCHANGED vars
    BY <2>2, <2>6 DEF vars, SlotsCounted, Holders
  <2> QED
    BY <2>1, <2>3, <2>4, <2>5, <2>6 DEF Next
<1> QED
  BY <1>1, <1>2, SlotTypes, PTL DEF Spec

\* Of any number of installs, at most max_concurrent_installs run a steamcmd
\* at once, through timeouts, cancelled waits and repairs, until SetConfig
\* replaces the channel.
THEOREM InstallsAreBounded == Spec => []SlotBound
<1>1. TypeOK /\ SlotInv => SlotBound
  <2> SUFFICES ASSUME TypeOK, SlotInv, config = 1, ~IsNil(1)
               PROVE  Cardinality(steamcmd) <= Configs[1]
    BY DEF SlotBound
  <2>1. steamcmd \subseteq Holders
    BY DEF SlotInv, RunnersHold
  <2>2. /\ IsFiniteSet(steamcmd)
        /\ Cardinality(steamcmd) <= Cardinality(Holders)
    BY <2>1, HoldersFinite, FS_Subset
  <2>3. Cardinality(Holders) <= Configs[1]
    BY ConfigsAreCounts DEF SlotInv, SlotsCounted, TypeOK
  <2>4. Cardinality(steamcmd) \in Nat /\ Cardinality(Holders) \in Nat
    BY <2>2, HoldersFinite, FS_CardinalityType
  <2> QED
    BY <2>1, <2>2, <2>3, <2>4, ConfigsAreCounts
<1> QED
  BY <1>1, SlotInvariant, SlotTypes, PTL

-----------------------------------------------------------------------------
(* What the channels hold, whatever SetConfig does.                        *)

\* The slots of one limit are finitely many.
LEMMA LimitFinite ==
  ASSUME NEW c \in DOMAIN Configs
  PROVE  IsFiniteSet({c} \X (1..Configs[c]))
<1>1. 1 \in Int /\ Configs[c] \in Int
  BY ConfigTypes
<1>2. IsFiniteSet(1..Configs[c])
  BY <1>1, FS_Interval
<1> QED
  BY <1>2, FS_Singleton, FS_Product

\* The elements are among the slots of the limits set so far.
LEMMA ElementsAreSlots ==
  ASSUME TypeOK, SlotsMatch
  PROVE  Elements \subseteq Slots
<1> SUFFICES ASSUME NEW c \in DOMAIN Configs, NEW k \in 1..buf[c]
             PROVE  <<c, k>> \in Slots
  BY DEF Elements
<1>1. buf[c] \in Nat /\ buf[c] <= Configs[c] /\ Configs[c] \in Nat
  BY ConfigTypes DEF TypeOK
<1>2. c \in 1..config
  BY <1>1, ConfigsAreCounts DEF SlotsMatch, TypeOK
<1>3. k \in 1..Configs[c]
  BY <1>1
<1> QED
  BY <1>2, <1>3 DEF Slots

\* A send adds one element, a receive takes one out.
LEMMA ElementsChange ==
  ASSUME TypeOK, SlotsMatch, IsFiniteSet(Slots), NEW c \in DOMAIN Configs
  PROVE  /\ buf' = [buf EXCEPT ![c] = @ + 1]
              => Cardinality(Elements') = Cardinality(Elements) + 1
         /\ buf[c] > 0 /\ buf' = [buf EXCEPT ![c] = @ - 1]
              => Cardinality(Elements') = Cardinality(Elements) - 1
<1>1. IsFiniteSet(Elements)
  BY ElementsAreSlots, FS_Subset
<1>2. buf \in [DOMAIN Configs -> Nat] /\ buf[c] \in Nat
  BY DEF TypeOK
<1>3. ASSUME buf' = [buf EXCEPT ![c] = @ + 1]
      PROVE  Cardinality(Elements') = Cardinality(Elements) + 1
  <2>1. 1..buf'[c] = (1..buf[c]) \cup {buf[c] + 1}
    BY <1>2, <1>3
  <2>2. \A d \in DOMAIN Configs : d # c => buf'[d] = buf[d]
    BY <1>2, <1>3
  <2>3. Elements' = Elements \cup {<<c, buf[c] + 1>>}
    BY <2>1, <2>2 DEF Elements
  <2>4. <<c, buf[c] + 1>> \notin Elements
    BY <1>2 DEF Elements
  <2> QED
    BY <1>1, <2>3, <2>4, FS_AddElement
<1>4. ASSUME buf[c] > 0, buf' = [buf EXCEPT ![c] = @ - 1]
      PROVE  Cardinality(Elements') = Cardinality(Elements) - 1
  <2>1. 1..buf'[c] = (1..buf[c]) \ {buf[c]} /\ buf[c] \in 1..buf[c]
    BY <1>2, <1>4
  <2>2. \A d \in DOMAIN Configs : d # c => buf'[d] = buf[d]
    BY <1>2, <1>4
  <2>3. Elements' = Elements \ {<<c, buf[c]>>}
    BY <2>1, <2>2 DEF Elements
  <2>4. <<c, buf[c]>> \in Elements
    BY <2>1 DEF Elements
  <2> QED
    BY <1>1, <2>3, <2>4, FS_RemoveElement
<1> QED
  BY <1>3, <1>4

LEMMA ElementInvInit == Init => ElementInv
<1> SUFFICES ASSUME Init PROVE ElementInv
  OBVIOUS
<1>1. Elements = {} /\ Holders = {}
  BY DEF Init, Elements, Holders
<1>2. Slots = {1} \X (1..Configs[1])
  BY DEF Init, Slots
<1>3. SlotsMatch
  BY DEF Init, SlotsMatch
<1> QED
  BY <1>1, <1>2, <1>3, ConfigTypes, LimitFinite DEF ElementInv, ElementsAreHeld

LEMMA SlotsMatchKept ==
  ASSUME TypeOK, SlotsMatch, [Next]_vars
  PROVE  SlotsMatch'
<1> USE ConfigTypes, ConfigsAreCounts DEF TypeOK, SlotsMatch
<1>1. CASE SetConfig
  BY <1>1 DEF SetConfig
<1>2. ASSUME NEW i \in Install, Step(i)
      PROVE  SlotsMatch'
  <2>1. CASE Acquire(i) \/ Select(i) \/ GiveUp(i)
    BY <2>1 DEF Acquire, Select, GiveUp, Goto
  <2>2. CASE Run(i, "install", "run") \/ Run(i, "repair", "rerun")
    BY <2>2 DEF Run, Goto
  <2>3. CASE RunEnds(i)
    BY <2>3 DEF RunEnds, Goto
  <2>4. CASE Release(i)
    <3>1. config \in Nat /\ UNCHANGED <<config, buf, slot>>
      BY <2>4 DEF Release
    <3>2. CASE slot[i] = "none"
      BY <2>4, <3>1, <3>2 DEF Release, Goto
    <3>3. CASE slot[i] = "held"
      <4>1. pc' = [pc EXCEPT ![i] = "receive"] /\ on' = [on EXCEPT ![i] = config]
        BY <2>4, <3>3 DEF Release, Goto
      <4> QED
        BY <3>1, <3>3, <4>1
    <3> QED
      BY <3>2, <3>3
  <2>5. CASE Receive(i)
    BY <2>5 DEF Receive, Goto
  <2> QED
    BY <1>2, <2>1, <2>2, <2>3, <2>4, <2>5 DEF Step
<1>3. ASSUME NEW i \in Install, Send(i)
      PROVE  SlotsMatch'
  BY <1>3 DEF Send, Goto
<1>4. ASSUME NEW i \in Install, Expire(i)
      PROVE  SlotsMatch'
  BY <1>4 DEF Expire
<1>5. CASE UNCHANGED vars
  BY <1>5 DEF vars
<1> QED
  BY <1>1, <1>2, <1>3, <1>4, <1>5 DEF Next

LEMMA ElementInvKept ==
  ASSUME TypeOK, ElementInv, [Next]_vars
  PROVE  ElementInv'
<1>1. SlotsMatch'
  BY SlotsMatchKept DEF ElementInv
<1>2. CASE SetConfig
  <2>1. config + 1 \in DOMAIN Configs /\ config' = config + 1 /\ config \in Nat
    BY <1>2, ConfigTypes, ConfigsAreCounts DEF SetConfig, TypeOK
  <2>2. 1..config' = (1..config) \cup {config + 1}
    BY <2>1
  <2>3. Slots' = Slots \cup ({config + 1} \X (1..Configs[config + 1]))
    BY <2>2 DEF Slots
  <2>4. IsFiniteSet(Slots')
    BY <2>1, <2>3, LimitFinite, FS_Union DEF ElementInv
  <2>5. Elements' = Elements /\ Holders' = Holders
    BY <1>2 DEF SetConfig, Elements, Holders
  <2> QED
    BY <1>1, <2>4, <2>5 DEF ElementInv, ElementsAreHeld
<1>3. ASSUME ~SetConfig
      PROVE  Slots' = Slots
  <2>1. UNCHANGED config
    BY <1>3 DEF Next, Step, Acquire, Select, GiveUp, Run, RunEnds, Release, Receive,
                Send, Expire, vars
  <2> QED
    BY <2>1 DEF Slots
<1>4. ASSUME NEW i \in Install, Send(i)
      PROVE  ElementInv'
  <2>1. slot[i] = "none" /\ on[i] \in DOMAIN Configs /\ UNCHANGED config
    BY <1>4 DEF Send, ElementInv, SlotsMatch, TypeOK
  <2>2. Cardinality(Holders') = Cardinality(Holders) + 1
    BY <1>4, <2>1, HoldersChange DEF Send
  <2>3. Cardinality(Elements') = Cardinality(Elements) + 1
    BY <1>4, <2>1, ElementsChange DEF Send, ElementInv
  <2> QED
    BY <1>1, <2>1, <2>2, <2>3 DEF ElementInv, ElementsAreHeld, Slots
<1>5. ASSUME NEW i \in Install, Receive(i)
      PROVE  ElementInv'
  <2>1. slot[i] = "held" /\ on[i] \in DOMAIN Configs /\ UNCHANGED config
    BY <1>5 DEF Receive, ElementInv, SlotsMatch, TypeOK
  <2>2. Cardinality(Holders') = Cardinality(Holders) - 1
    BY <1>5, <2>1, HoldersChange DEF Receive
  <2>3. Cardinality(Elements') = Cardinality(Elements) - 1
    BY <1>5, <2>1, ElementsChange DEF Receive, ElementInv
  <2> QED
    BY <1>1, <2>1, <2>2, <2>3 DEF ElementInv, ElementsAreHeld, Slots
<1>6. ASSUME ~SetConfig, \A i \in Install : ~Send(i) /\ ~Receive(i)
      PROVE  ElementInv'
  <2>1. UNCHANGED <<buf, slot>>
    BY <1>6 DEF Next, Step, Acquire, Select, GiveUp, Run, RunEnds, Release, Expire, vars
  <2>2. Elements' = Elements /\ Holders' = Holders
    BY <2>1 DEF Elements, Holders
  <2> QED
    BY <1>1, <1>3, <1>6, <2>2 DEF ElementInv, ElementsAreHeld
<1> QED
  BY <1>2, <1>4, <1>5, <1>6

LEMMA ElementInvariant == Spec => []ElementInv
<1>1. TypeOK /\ ElementInv /\ [Next]_vars => ElementInv'
  BY ElementInvKept
<1> QED
  BY <1>1, ElementInvInit, SlotTypes, PTL DEF Spec

\* However often SetConfig replaces the channel under the installs, and although
\* release() receives from the channel of that moment: what is in the channels
\* is what the installs have still to give back, one element for each.
THEOREM ElementsHeld == Spec => []ElementsAreHeld
<1>1. ElementInv => ElementsAreHeld
  BY DEF ElementInv
<1> QED
  BY <1>1, ElementInvariant, PTL

\* So the installs that hold a slot never outnumber the slots of the limits set
\* so far, taken together: SetConfig adds to what is admitted, and no interleaving
\* of it with release() adds more.
THEOREM HoldersAreBounded == Spec => []HoldersBounded
<1>1. TypeOK /\ ElementInv => HoldersBounded
  <2> SUFFICES ASSUME TypeOK, ElementInv PROVE HoldersBounded
    OBVIOUS
  <2>1. Cardinality(Elements) <= Cardinality(Slots)
    BY ElementsAreSlots, FS_Subset DEF ElementInv
  <2> QED
    BY <2>1 DEF HoldersBounded, ElementInv, ElementsAreHeld
<1> QED
  BY <1>1, ElementInvariant, SlotTypes, PTL
=============================================================================
