-------------------------- MODULE LogFollow_proofs --------------------------
(***************************************************************************)
(* Proofs about LogFollow, for any number of writes, files and cuts: what  *)
(* a previous run left in a log never reaches this run's stdout, and what  *)
(* this one writes gets there in order, with nothing skipped behind the    *)
(* follower's position and all of it before the exit is reported.          *)
(***************************************************************************)
EXTENDS LogFollow, SequenceTheorems, TLAPS

-----------------------------------------------------------------------------
(* The inductive invariant behind StaleStays.                              *)

\* Every old byte of f is among its first n, and those are still there.
OldUpTo(f, n) ==
  /\ n <= Len(content[f])
  /\ \A k \in DOMAIN content[f] : content[f][k].n = 0 => k <= n

\* A file that still has old bytes: the snapshot is of it, or the follower's
\* position is past them, or neither the path nor the follower gets to it again.
OldIsBehind(f) ==
  /\ f <= files
  /\ sup = "snapshot" => path = f
  /\ stale # None => stale.file = f /\ OldUpTo(f, stale.size)
  /\ open = f => OldUpTo(f, pos)
  /\ sup # "snapshot" /\ stale = None /\ pc # "returned" => path # f \/ open = f
  /\ path = f /\ pc \in {"open", "fstat", "drain"} =>
       pst # None /\ pst.file = f /\ (stale # None => pst.size >= stale.size)

\* Where the follower has a file open, and where the path and it may lead.
Opened ==
  /\ sup \in {"snapshot", "launch"} => pc = "off"
  /\ sup = "snapshot" => stale = None
  /\ pc \in {"off", "open", "returned"} \/ stale # None => open = None
  /\ pc \in {"fstat", "drain"} => open # None
  /\ pc = "open" => pst # None
  /\ path # None => path <= files

StaleInv ==
  /\ Opened
  /\ \A f \in File : ~NoneOld(content[f]) => OldIsBehind(f)
  /\ NoneOld(partial)
  /\ StaleStays

-----------------------------------------------------------------------------

LEMMA NoneOldConcat ==
  ASSUME NEW s \in Seq(Byte), NEW t \in Seq(Byte), NoneOld(s), NoneOld(t)
  PROVE  s \o t \in Seq(Byte) /\ NoneOld(s \o t)
<1>1. DOMAIN (s \o t) = 1..Len(s) + Len(t)
  BY ConcatProperties, LenProperties
<1>2. \A k \in DOMAIN (s \o t) :
        (s \o t)[k] = IF k <= Len(s) THEN s[k] ELSE t[k - Len(s)]
  BY <1>1, ConcatProperties
<1>3. \A k \in DOMAIN (s \o t) : (s \o t)[k].n # 0
  BY <1>1, <1>2, LenProperties DEF NoneOld
<1> QED
  BY <1>3, ConcatProperties DEF NoneOld

LEMMA NoneOldPart ==
  ASSUME NEW s \in Seq(Byte), NEW i \in Nat \ {0}, NEW j \in Nat, j <= Len(s),
         \A k \in i..j : s[k].n # 0
  PROVE  SubSeq(s, i, j) \in Seq(Byte) /\ NoneOld(SubSeq(s, i, j))
<1>1. \A k \in i..j : s[k] \in Byte
  BY ElementOfSeq, LenProperties
<1>2. /\ SubSeq(s, i, j) \in Seq(Byte)
      /\ Len(SubSeq(s, i, j)) = IF i <= j THEN j - i + 1 ELSE 0
      /\ \A k \in 1..j - i + 1 : SubSeq(s, i, j)[k] = s[i + k - 1]
  BY <1>1, SubSeqProperties
<1>3. DOMAIN SubSeq(s, i, j) = 1..Len(SubSeq(s, i, j))
  BY <1>2, LenProperties
<1> QED
  BY <1>2, <1>3 DEF NoneOld

LEMMA WritesTyped ==
  ASSUME NEW s \in Seq(Byte)
  PROVE  Writes(s) \subseteq 0..MaxWrites
<1>1. \A k \in DOMAIN s : s[k] \in Byte
  BY LenProperties, ElementOfSeq
<1>2. \A b \in ToSet(s) : b.n \in 0..MaxWrites
  BY <1>1 DEF ToSet, Byte
<1> QED
  BY <1>2 DEF Writes

-----------------------------------------------------------------------------
(* The invariant.                                                          *)

LEMMA FollowInit == Init => TypeOK /\ StaleInv
<1> SUFFICES ASSUME Init PROVE TypeOK /\ StaleInv
  OBVIOUS
<1> USE LogBounds, NoneIsNoFile
<1>1. <<>> \in Seq(Byte) /\ NoneOld(<<>>)
  BY EmptySeq DEF NoneOld
<1>2. OldByte \in Byte
  BY DEF OldByte, Byte
<1>3. \A n \in 0..1 : [k \in 1..n |-> OldByte] \in Seq(Byte)
  BY <1>2
<1>4. content \in [File -> Seq(Byte)] /\ files \in 0..MaxFiles
  <2>1. CASE content = [f \in File |-> <<>>] /\ files = 0
    BY <2>1, <1>1
  <2>2. CASE /\ files = 1
             /\ \E n \in 0..1 : content = [f \in File |->
                   IF f = 1 THEN [k \in 1..n |-> OldByte] ELSE <<>>]
    BY <2>2, <1>1, <1>3
  <2> QED
    BY <2>1, <2>2 DEF Init
<1>5. path \in File \cup {None}
  BY DEF Init, File
<1>6. TypeOK
  <2>1. /\ server \in {"none", "running"} /\ mode \in {"launched", "recovered"}
        /\ touched = FALSE /\ writes = 0 /\ cuts = 0
        /\ pc = "off" /\ pst = None /\ open = None /\ pos = 0
        /\ partial = <<>> /\ stale = None /\ final = FALSE /\ out = <<>>
        /\ sup = "snapshot" /\ reported = FALSE /\ gaveUp = FALSE
        /\ torn = {} /\ hidden = FALSE /\ clean = TRUE /\ due = {}
        /\ over = FALSE /\ before = 0
    BY DEF Init
  <2>2. /\ writes \in 0..MaxWrites /\ cuts \in 0..MaxCuts /\ pos \in Nat
        /\ torn \subseteq 0..MaxWrites /\ due \subseteq 0..MaxWrites
        /\ before \in 0..MaxWrites
    BY <2>1
  <2>3. /\ touched \in BOOLEAN /\ final \in BOOLEAN /\ reported \in BOOLEAN
        /\ gaveUp \in BOOLEAN /\ over \in BOOLEAN /\ hidden \in BOOLEAN /\ clean \in BOOLEAN
    BY <2>1
  <2> QED
    BY <1>1, <1>4, <1>5, <2>1, <2>2, <2>3, Zenon
       DEF TypeOK, FlagsTyped, DiskTyped, FollowerTyped
<1>7. Opened
  BY DEF Init, Opened
<1>8. \A f \in File : ~NoneOld(content[f]) => OldIsBehind(f)
  BY <1>1 DEF Init, OldIsBehind, File
<1> QED
  BY <1>1, <1>6, <1>7, <1>8 DEF StaleInv, StaleStays, Init

LEMMA FlagsKept ==
  ASSUME TypeOK, [Next]_vars
  PROVE  FlagsTyped'
<1> USE DEF FlagsTyped
<1>0. FlagsTyped
  BY DEF TypeOK
<1>1. CASE Game
  BY <1>0, <1>1 DEF Game, GameWrites, Rotates, Creates, Cuts, Exits, Touch,
                    follower, super, disk
<1>2. CASE Supervisor
  BY <1>0, <1>2 DEF Supervisor, TakeSnapshot, LaunchGame, StartFollowers,
                    WaitReturns, WatchEnds, StopFollowers, Stopped, follower,
                    super, disk
<1>3. CASE Follower
  BY <1>0, <1>3 DEF Follower, Stat, Open, Fstat, Drain, Select, Returns, super, disk
<1>4. CASE UNCHANGED vars
  BY <1>0, <1>4 DEF vars, disk, follower, super
<1> QED
  BY <1>1, <1>2, <1>3, <1>4 DEF Next

LEMMA DiskKept ==
  ASSUME TypeOK, StaleInv, [Next]_vars
  PROVE  DiskTyped' /\ torn' \subseteq 0..MaxWrites
<1> USE LogBounds, NoneIsNoFile
<1>0. DiskTyped /\ torn \subseteq 0..MaxWrites
  BY DEF TypeOK
<1>1. CASE GameWrites
  <2>1. /\ path \in File /\ writes' = writes + 1 /\ writes < MaxWrites
        /\ UNCHANGED <<path, files, cuts, torn>>
    BY <1>0, <1>1 DEF GameWrites, DiskTyped
  <2>2. PICK nl \in BOOLEAN :
          content' = [content EXCEPT ![path] =
                        Append(@, [n |-> writes + 1, nl |-> nl])]
    BY <1>1 DEF GameWrites
  <2>3. [n |-> writes + 1, nl |-> nl] \in Byte
    BY <1>0, <2>1 DEF Byte, DiskTyped
  <2>4. content' \in [File -> Seq(Byte)]
    BY <1>0, <2>1, <2>2, <2>3 DEF DiskTyped
  <2> QED
    BY <1>0, <2>1, <2>4 DEF DiskTyped
<1>2. CASE Rotates
  <2>1. content[path] # <<>> => Last(content[path]) \in Byte
    BY <1>0, <1>2, EmptySeq, ElementOfSeq, LenProperties
       DEF Rotates, DiskTyped, Last
  <2>2. torn' \subseteq 0..MaxWrites
    BY <1>0, <1>2, <2>1 DEF Rotates, Byte
  <2> QED
    BY <1>0, <1>2, <2>2 DEF Rotates, DiskTyped
<1>3. CASE Creates
  BY <1>0, <1>3 DEF Creates, DiskTyped, File
<1>4. CASE Cuts
  <2>1. content' \in [File -> Seq(Byte)]
    BY <1>0, <1>4, EmptySeq DEF Cuts, DiskTyped
  <2> QED
    BY <1>0, <1>4, <2>1 DEF Cuts, DiskTyped
<1>5. CASE UNCHANGED <<disk, torn>>
  BY <1>0, <1>5 DEF disk, DiskTyped
<1>6. Exits \/ Supervisor \/ Follower \/ UNCHANGED vars => UNCHANGED <<disk, torn>>
  BY DEF Exits, Supervisor, TakeSnapshot, LaunchGame, StartFollowers, WaitReturns,
         WatchEnds, StopFollowers, Stopped, Follower, Stat, Open, Fstat, Drain,
         Select, Returns, vars
<1> QED
  BY <1>1, <1>2, <1>3, <1>4, <1>5, <1>6 DEF Next, Game

\* What Drain adds to stdout and keeps are typed and new.
LEMMA ReadsNew ==
  ASSUME TypeOK, StaleInv, open # None, Reads
  PROVE  /\ out' \in Seq(Byte) /\ partial' \in Seq(Byte)
         /\ NoneOld(out') /\ NoneOld(partial')
<1> DEFINE unread == SubSeq(content[open], pos + 1, Len(content[open]))
           read == partial \o unread
<1>1. /\ content[open] \in Seq(Byte) /\ open \in File /\ pos \in Nat
      /\ partial \in Seq(Byte) /\ out \in Seq(Byte)
  BY DEF TypeOK, DiskTyped, FollowerTyped
<1>2. Len(content[open]) \in Nat /\ DOMAIN content[open] = 1..Len(content[open])
  BY <1>1, LenProperties
<1>3. ~NoneOld(content[open]) => OldUpTo(open, pos)
  BY <1>1 DEF StaleInv, OldIsBehind
<1>4. \A k \in pos + 1..Len(content[open]) : content[open][k].n # 0
  BY <1>1, <1>2, <1>3 DEF OldUpTo, NoneOld
<1>5. unread \in Seq(Byte) /\ NoneOld(unread)
  <2>1. pos + 1 \in Nat \ {0} /\ Len(content[open]) <= Len(content[open])
    BY <1>1, <1>2
  <2> QED
    BY <1>1, <1>2, <1>4, <2>1, NoneOldPart
<1>6. read \in Seq(Byte) /\ NoneOld(read)
  BY <1>1, <1>5, NoneOldConcat DEF StaleInv
<1>7. PICK n \in 0..Len(read) :
        out' = out \o SubSeq(read, 1, n) /\ partial' = SubSeq(read, n + 1, Len(read))
  BY DEF Reads, WholeLines
<1> HIDE DEF read
<1>8. Len(read) \in Nat /\ DOMAIN read = 1..Len(read)
  BY <1>6, LenProperties
<1>9. SubSeq(read, 1, n) \in Seq(Byte) /\ NoneOld(SubSeq(read, 1, n))
  BY <1>6, <1>8, NoneOldPart DEF NoneOld
<1>10. partial' \in Seq(Byte) /\ NoneOld(partial')
  BY <1>6, <1>7, <1>8, NoneOldPart DEF NoneOld
<1> QED
  BY <1>1, <1>7, <1>9, <1>10, NoneOldConcat DEF StaleInv, StaleStays

LEMMA FollowerKept ==
  ASSUME TypeOK, StaleInv, [Next]_vars
  PROVE  FollowerTyped'
<1> USE LogBounds, NoneIsNoFile
<1>0. FollowerTyped /\ path \in File \cup {None} /\ Opened
  BY DEF TypeOK, DiskTyped, StaleInv
<1>1. \A f \in File : Len(content[f]) \in Nat
  BY LenProperties DEF TypeOK, DiskTyped
<1>2. CASE TakeSnapshot
  BY <1>0, <1>1, <1>2 DEF TakeSnapshot, FollowerTyped
<1>3. CASE Stat
  <2>1. path # None => StatOf(path) \in [file : File, size : Nat, same : BOOLEAN]
    BY <1>0, <1>1 DEF StatOf, TypeOK, FlagsTyped
  <2> QED
    BY <1>0, <1>3, <2>1 DEF Stat, EndStep, Goto, FollowerTyped
<1>4. CASE Open
  <2>1. Offset \in Nat
    BY <1>0 DEF Offset, FollowerTyped
  <2> QED
    BY <1>0, <1>4, <2>1 DEF Open, EndStep, Goto, FollowerTyped
<1>5. CASE Fstat
  <2>1. <<>> \in Seq(Byte)
    BY EmptySeq
  <2>2. CASE Len(content[open]) < pos
    BY <1>0, <1>5, <2>1, <2>2 DEF Fstat, FollowerTyped
  <2>3. CASE ~(Len(content[open]) < pos)
    BY <1>0, <1>5, <2>3 DEF Fstat, FollowerTyped
  <2> QED
    BY <2>2, <2>3
<1>6. CASE Drain
  <2>1. open \in File
    BY <1>0, <1>6 DEF Drain, Opened, FollowerTyped
  <2>2. out' \in Seq(Byte) /\ partial' \in Seq(Byte)
    BY <2>1, <1>6, ReadsNew DEF Drain
  <2>3. Furthest \in Nat
    BY <1>0, <1>1, <2>1 DEF Furthest, FollowerTyped
  <2> QED
    BY <1>0, <1>6, <2>2, <2>3 DEF Drain, EndStep, FollowerTyped
<1>7. CASE Returns
  <2>1. out' \in Seq(Byte) /\ partial' \in Seq(Byte)
    BY <1>0, <1>7, ConcatProperties, EmptySeq DEF Returns, FollowerTyped
  <2> QED
    BY <1>0, <1>7, <2>1 DEF Returns, FollowerTyped
<1>8. Game \/ LaunchGame \/ StartFollowers \/ WaitReturns \/ WatchEnds \/ Stopped
        \/ Select \/ UNCHANGED vars
        => UNCHANGED <<pst, open, pos, partial, stale, out>>
  BY DEF Game, GameWrites, Rotates, Creates, Cuts, Exits, LaunchGame,
         StartFollowers, WaitReturns, WatchEnds, StopFollowers, Stopped, Select,
         vars, follower
<1> QED
  BY <1>0, <1>2, <1>3, <1>4, <1>5, <1>6, <1>7, <1>8
     DEF Next, Supervisor, Follower, FollowerTyped

LEMMA TypesKept ==
  ASSUME TypeOK, StaleInv, [Next]_vars
  PROVE  TypeOK'
<1>1. /\ server' \in {"none", "running", "exited"}
      /\ mode' \in {"launched", "recovered"}
      /\ sup' \in {"snapshot", "launch", "wait", "stopping", "done"}
  BY DEF TypeOK, Next, Game, GameWrites, Rotates, Creates, Cuts, Exits, Supervisor,
         TakeSnapshot, LaunchGame, StartFollowers, WaitReturns, WatchEnds,
         StopFollowers, Stopped, Follower, Stat, Open, Fstat, Drain, Select,
         Returns, vars, super
<1>2. pc' \in {"off", "stat", "open", "fstat", "drain", "select", "returned"}
  BY DEF TypeOK, Next, Game, GameWrites, Rotates, Creates, Cuts, Exits, Supervisor,
         TakeSnapshot, LaunchGame, StartFollowers, WaitReturns, WatchEnds,
         StopFollowers, Stopped, Follower, Stat, Open, Fstat, Drain, Select,
         Returns, vars, follower, EndStep, Goto
<1>3. due' \subseteq 0..MaxWrites /\ before' \in 0..MaxWrites
  <2>1. Followed # None => Writes(content[Followed]) \subseteq 0..MaxWrites
    BY WritesTyped DEF Followed, TypeOK, DiskTyped, FollowerTyped
  <2>2. StopFollowers => due' \subseteq 0..MaxWrites /\ before' \in 0..MaxWrites
    BY <2>1 DEF StopFollowers, TypeOK, DiskTyped
  <2>3. ~StopFollowers => due' \subseteq due /\ before' = before
    BY DEF Next, Game, GameWrites, Rotates, Creates, Cuts, Exits, Supervisor,
           TakeSnapshot, LaunchGame, StartFollowers, WaitReturns, WatchEnds,
           Stopped, Follower, Stat, Open, Fstat, Drain, Select, Returns, vars
  <2> QED
    BY <2>2, <2>3 DEF TypeOK
<1> QED
  BY <1>1, <1>2, <1>3, FlagsKept, DiskKept, FollowerKept DEF TypeOK

-----------------------------------------------------------------------------
(* Nothing old is copied.                                                  *)

LEMMA GameMoves ==
  ASSUME TypeOK, Game
  PROVE  /\ files \in Nat /\ files' \in Nat /\ files <= files'
         /\ path' # None => \/ path' = path
                            \/ path' = files + 1 /\ files' = files + 1
<1>1. files \in Nat
  BY LogBounds DEF TypeOK, DiskTyped
<1>2. CASE GameWrites
  BY <1>1, <1>2 DEF GameWrites
<1>3. CASE Rotates
  BY <1>1, <1>3 DEF Rotates
<1>4. CASE Creates
  BY <1>1, <1>4 DEF Creates
<1>5. CASE Cuts
  BY <1>1, <1>5 DEF Cuts
<1>6. CASE Exits
  BY <1>1, <1>6 DEF Exits, disk
<1> QED
  BY <1>2, <1>3, <1>4, <1>5, <1>6 DEF Game

LEMMA OpenedKept ==
  ASSUME TypeOK, StaleInv, [Next]_vars
  PROVE  Opened'
<1> USE NoneIsNoFile DEF Opened
<1>0. Opened
  BY DEF StaleInv
<1>1. CASE Game
  <2>1. UNCHANGED <<follower, super>>
    BY <1>1 DEF Game, GameWrites, Rotates, Creates, Cuts, Exits
  <2>2. path' # None => path' <= files'
    BY <1>0, <1>1, GameMoves, LogBounds DEF TypeOK, DiskTyped, File
  <2> QED
    BY <1>0, <2>1, <2>2 DEF follower, super
<1>2. CASE Supervisor
  <2>1. UNCHANGED disk
    BY <1>2 DEF Supervisor, TakeSnapshot, LaunchGame, StartFollowers, WaitReturns,
                WatchEnds, StopFollowers, Stopped
  <2>2. CASE TakeSnapshot
    BY <1>0, <2>1, <2>2 DEF TakeSnapshot, disk
  <2>3. CASE StartFollowers
    BY <1>0, <2>1, <2>3 DEF StartFollowers, disk
  <2>4. CASE LaunchGame
    BY <1>0, <2>4 DEF LaunchGame, disk, follower, super
  <2>5. CASE WaitReturns \/ WatchEnds \/ Stopped
    BY <1>0, <2>1, <2>5 DEF WaitReturns, WatchEnds, StopFollowers, Stopped, disk,
                            follower
  <2> QED
    BY <1>2, <2>2, <2>3, <2>4, <2>5 DEF Supervisor
<1>3. CASE Follower
  <2>1. sup \notin {"snapshot", "launch"}
    BY <1>0, <1>3 DEF Follower, Stat, Open, Fstat, Drain, Select, Returns
  <2>2. UNCHANGED <<sup, disk>>
    BY <1>3 DEF Follower, Stat, Open, Fstat, Drain, Select, Returns, super
  <2>3. CASE Stat
    <3>1. path # None => StatOf(path) # None
      <4>1. path # None => StatOf(path) \in [file : File, size : Nat, same : BOOLEAN]
        BY LenProperties DEF StatOf, TypeOK, DiskTyped, FlagsTyped
      <4> QED
        BY <4>1
    <3> QED
      BY <1>0, <2>1, <2>2, <2>3, <3>1 DEF Stat, EndStep, Goto, NothingNew, disk
  <2>4. CASE Open
    BY <1>0, <2>1, <2>2, <2>4 DEF Open, EndStep, Goto, disk
  <2>5. CASE Fstat \/ Drain \/ Select \/ Returns
    BY <1>0, <2>1, <2>2, <2>5 DEF Fstat, Drain, EndStep, Goto, Select, Returns, disk
  <2> QED
    BY <1>3, <2>3, <2>4, <2>5 DEF Follower
<1>4. CASE UNCHANGED vars
  BY <1>0, <1>4 DEF vars, disk, follower, super
<1> QED
  BY <1>1, <1>2, <1>3, <1>4 DEF Next

\* Only what the game adds to a file changes what is old in it, and adds nothing
\* old.
LEMMA OldShrinks ==
  ASSUME TypeOK, StaleInv, [Next]_vars, NEW f \in File, ~NoneOld(content'[f])
  PROVE  /\ ~NoneOld(content[f])
         /\ \A n \in Nat : OldUpTo(f, n) => OldUpTo(f, n)'
<1> USE LogBounds
<1>1. content \in [File -> Seq(Byte)] /\ writes \in Nat
  BY DEF TypeOK, DiskTyped
<1>2. CASE GameWrites /\ path = f
  <2> PICK nl \in BOOLEAN : content' =
                [content EXCEPT ![path] = Append(@, [n |-> writes + 1, nl |-> nl])]
    BY <1>2 DEF GameWrites
  <2> DEFINE b == [n |-> writes + 1, nl |-> nl]
  <2>1. content' = [content EXCEPT ![f] = Append(@, b)] /\ b.n = writes + 1
    BY <1>2
  <2> HIDE DEF b
  <2>2. content'[f] = Append(content[f], b) /\ content[f] \in Seq(Byte)
    BY <1>1, <2>1
  <2>3. /\ DOMAIN content[f] = 1..Len(content[f]) /\ Len(content[f]) \in Nat
        /\ DOMAIN content'[f] = 1..Len(content[f]) + 1
        /\ Len(content'[f]) = Len(content[f]) + 1
        /\ \A k \in 1..Len(content[f]) : content'[f][k] = content[f][k]
        /\ content'[f][Len(content[f]) + 1] = b
    BY <2>2, LenProperties
  <2>4. b.n # 0
    BY <1>1, <2>1
  <2>5. \A k \in DOMAIN content'[f] :
          content'[f][k].n = 0 => k \in DOMAIN content[f] /\ content[f][k].n = 0
    BY <2>3, <2>4
  <2> QED
    BY <2>3, <2>5 DEF NoneOld, OldUpTo
<1>3. CASE Cuts /\ path = f
  <2>1. content'[f] = <<>>
    BY <1>1, <1>3 DEF Cuts
  <2>2. NoneOld(<<>>)
    BY EmptySeq, LenProperties DEF NoneOld
  <2> QED
    BY <2>1, <2>2
<1>4. CASE ~(GameWrites /\ path = f) /\ ~(Cuts /\ path = f)
  <2>1. content'[f] = content[f]
    BY <1>1, <1>4 DEF Next, Game, GameWrites, Rotates, Creates, Cuts, Exits,
         Supervisor, TakeSnapshot, LaunchGame, StartFollowers, WaitReturns,
         WatchEnds, StopFollowers, Stopped, Follower, Stat, Open, Fstat, Drain,
         Select, Returns, vars, disk
  <2> QED
    BY <2>1 DEF NoneOld, OldUpTo
<1> QED
  BY <1>2, <1>3, <1>4

\* A file that had old bytes is behind, and so stays: the game's steps.
LEMMA BehindGame ==
  ASSUME TypeOK, StaleInv, Game, NEW f \in File, OldIsBehind(f),
         \A n \in Nat : OldUpTo(f, n) => OldUpTo(f, n)', ~NoneOld(content'[f])
  PROVE  OldIsBehind(f)'
<1> USE LogBounds, NoneIsNoFile
<1>1. UNCHANGED <<follower, super>>
  BY DEF Game, GameWrites, Rotates, Creates, Cuts, Exits
<1>2. sup # "snapshot"
  BY DEF Game, GameWrites, Rotates, Creates, Cuts, Exits, Playing
<1>3. path' = f => path = f
  BY GameMoves DEF OldIsBehind, File
<1>4. files' >= files /\ f \in Nat /\ files \in Nat /\ files' \in Nat
  BY GameMoves DEF File
<1>5. pos \in Nat /\ (stale # None => stale.size \in Nat)
  BY DEF TypeOK, FollowerTyped
<1>6. stale # None => stale.file = f /\ OldUpTo(f, stale.size)'
  BY <1>1, <1>5 DEF OldIsBehind, follower, OldUpTo
<1>7. open = f => OldUpTo(f, pos)'
  BY <1>1, <1>5 DEF OldIsBehind, follower, OldUpTo
<1> QED
  BY <1>1, <1>2, <1>3, <1>4, <1>6, <1>7 DEF OldIsBehind, follower, super

LEMMA BehindSupervisor ==
  ASSUME TypeOK, StaleInv, Supervisor, NEW f \in File, OldIsBehind(f)
  PROVE  OldIsBehind(f)'
<1> USE NoneIsNoFile
<1>1. UNCHANGED disk /\ Opened
  BY DEF Supervisor, TakeSnapshot, LaunchGame, StartFollowers, WaitReturns,
         WatchEnds, StopFollowers, Stopped, StaleInv
<1>2. CASE TakeSnapshot
  <2>1. content[f] \in Seq(Byte)
    BY DEF TypeOK, DiskTyped
  <2>2. OldUpTo(f, Len(content[f]))
    BY <2>1, LenProperties DEF OldUpTo
  <2>3. stale' = [file |-> f, size |-> Len(content[f])] /\ stale' # None
    BY <1>2, <2>1, LenProperties DEF TakeSnapshot, OldIsBehind
  <2>4. open # f
    BY <1>1, <1>2 DEF TakeSnapshot, Opened
  <2> QED
    BY <1>1, <1>2, <2>2, <2>3, <2>4
       DEF TakeSnapshot, OldIsBehind, OldUpTo, disk, Opened
<1>3. CASE StartFollowers
  BY <1>1, <1>3 DEF StartFollowers, OldIsBehind, OldUpTo, disk, Opened
<1>4. CASE LaunchGame
  BY <1>4 DEF LaunchGame, OldIsBehind, OldUpTo, disk, follower, super
<1>5. CASE WaitReturns \/ WatchEnds \/ Stopped
  BY <1>1, <1>5 DEF WaitReturns, WatchEnds, StopFollowers, Stopped, OldIsBehind,
                    OldUpTo, disk, follower
<1> QED
  BY <1>2, <1>3, <1>4, <1>5 DEF Supervisor

LEMMA BehindFollower ==
  ASSUME TypeOK, StaleInv, Follower, NEW f \in File, OldIsBehind(f),
         ~NoneOld(content[f])
  PROVE  OldIsBehind(f)'
<1> USE NoneIsNoFile
<1>1. UNCHANGED <<disk, sup>> /\ Opened /\ sup \notin {"snapshot", "launch"}
  BY DEF Follower, Stat, Open, Fstat, Drain, Select, Returns, super, StaleInv,
         Opened
<1>2. content[f] \in Seq(Byte) /\ Len(content[f]) \in Nat /\ pos \in Nat
  BY LenProperties DEF TypeOK, DiskTyped, FollowerTyped
<1>3. CASE Stat
  <2>1. path = f => StatOf(path).file = f /\ StatOf(path).size = Len(content[f])
    BY DEF StatOf
  <2>2. path = f => StatOf(path) # None
    <3>1. StatOf(f) \in [file : File, size : Nat, same : BOOLEAN]
      BY <1>2 DEF StatOf, TypeOK, FlagsTyped
    <3> QED
      BY <3>1
  <2>3. stale # None => stale.size <= Len(content[f])
    BY DEF OldIsBehind, OldUpTo
  <2>4. UNCHANGED <<open, pos, stale>>
    BY <1>3 DEF Stat
  <2>5. \/ pc' = "returned"
        \/ pc' \in {"open", "fstat"} /\ pst' = StatOf(path)
        \/ pc' = "select" \/ path # f
    BY <1>3 DEF Stat, EndStep, Goto
  <2> QED
    BY <1>1, <1>2, <1>3, <2>1, <2>2, <2>3, <2>4, <2>5
       DEF OldIsBehind, OldUpTo, disk, Stat, EndStep, Goto
<1>4. CASE Open
  <2>1. open = None /\ pc = "open"
    BY <1>1, <1>4 DEF Open, Opened
  <2>2. CASE path = None
    BY <1>1, <1>4, <2>1, <2>2 DEF Open, EndStep, Goto, OldIsBehind, OldUpTo, disk
  <2>3. CASE path # None /\ path # f
    BY <1>1, <1>4, <2>1, <2>3 DEF Open, Goto, OldIsBehind, OldUpTo, disk
  <2>4. CASE path = f
    <3>1. stale # None /\ pst.file = f /\ pst.size >= stale.size /\ stale.file = f
      BY <1>1, <2>1, <2>4 DEF OldIsBehind
    <3>2. Offset = stale.size
      BY <3>1 DEF Offset
    <3>3. OldUpTo(f, Offset)
      BY <3>1, <3>2 DEF OldIsBehind
    <3>4. open' = f /\ pos' = Offset /\ stale' = None /\ pst' = pst /\ pc' = "fstat"
      BY <1>4, <2>4 DEF Open, Goto
    <3>5. OldUpTo(f, pos)'
      BY <1>1, <3>3, <3>4 DEF OldUpTo, disk
    <3> QED
      BY <1>1, <2>1, <2>4, <3>4, <3>5 DEF OldIsBehind, disk
  <2> QED
    BY <2>2, <2>3, <2>4
<1>5. CASE Fstat
  <2>1. open = f => Len(content[open]) >= pos /\ pos' = pos
    BY <1>2, <1>5 DEF OldIsBehind, OldUpTo, Fstat
  <2> QED
    BY <1>1, <1>5, <2>1 DEF Fstat, Goto, OldIsBehind, OldUpTo, disk
<1>6. CASE Drain
  <2>1. pc' = "select" /\ pst' = None /\ UNCHANGED stale /\ pc = "drain"
    BY <1>6 DEF Drain, EndStep, Goto
  <2>2. stale = None
    BY <1>1, <2>1 DEF Opened
  <2>3. CASE Replaced
    <3>1. open = f => path # f
      BY <2>1, <2>3 DEF Replaced, OldIsBehind
    <3>2. open' = None
      BY <1>6, <2>3 DEF Drain
    <3> QED
      BY <1>1, <2>1, <2>2, <3>1, <3>2 DEF OldIsBehind, disk
  <2>4. CASE ~Replaced
    <3>1. UNCHANGED open /\ pos' = Furthest
      BY <1>6, <2>4 DEF Drain
    <3>2. open = f => pos' = Len(content[f])
      BY <1>2, <3>1 DEF Furthest, OldIsBehind, OldUpTo
    <3>3. open = f => OldUpTo(f, pos)'
      BY <1>1, <1>2, <3>2, LenProperties DEF OldUpTo, disk
    <3> QED
      BY <1>1, <2>1, <2>2, <3>1, <3>3 DEF OldIsBehind, disk
  <2> QED
    BY <2>3, <2>4
<1>7. CASE Select
  BY <1>1, <1>7 DEF Select, Goto, OldIsBehind, OldUpTo, disk
<1>8. CASE Returns
  BY <1>1, <1>8 DEF Returns, Goto, OldIsBehind, OldUpTo, disk
<1> QED
  BY <1>3, <1>4, <1>5, <1>6, <1>7, <1>8 DEF Follower

LEMMA StaleKept ==
  ASSUME TypeOK, StaleInv, [Next]_vars
  PROVE  StaleInv'
<1>1. Opened'
  BY OpenedKept
<1>2. ASSUME NEW f \in File, ~NoneOld(content'[f])
      PROVE  OldIsBehind(f)'
  <2>1. ~NoneOld(content[f]) /\ \A n \in Nat : OldUpTo(f, n) => OldUpTo(f, n)'
    BY <1>2, OldShrinks
  <2>2. OldIsBehind(f)
    BY <2>1 DEF StaleInv
  <2>3. CASE Game
    BY <1>2, <2>1, <2>2, <2>3, BehindGame
  <2>4. CASE Supervisor
    BY <2>2, <2>4, BehindSupervisor
  <2>5. CASE Follower
    BY <2>1, <2>2, <2>5, BehindFollower
  <2>6. CASE UNCHANGED vars
    BY <2>2, <2>6 DEF vars, disk, follower, super, OldIsBehind, OldUpTo
  <2> QED
    BY <2>3, <2>4, <2>5, <2>6 DEF Next
<1>3. NoneOld(partial') /\ NoneOld(out')
  <2>0. /\ partial \in Seq(Byte) /\ out \in Seq(Byte)
        /\ NoneOld(partial) /\ NoneOld(out) /\ NoneOld(<<>>)
    BY EmptySeq, LenProperties DEF StaleInv, StaleStays, TypeOK, FollowerTyped, NoneOld
  <2>1. CASE Drain
    BY <2>1, ReadsNew DEF Drain, StaleInv, Opened
  <2>2. CASE Returns
    BY <2>0, <2>2, NoneOldConcat DEF Returns
  <2>3. CASE Fstat
    BY <2>0, <2>3 DEF Fstat
  <2>4. Game \/ Supervisor \/ Stat \/ Open \/ Select \/ UNCHANGED vars
          => UNCHANGED <<partial, out>>
    BY DEF Game, GameWrites, Rotates, Creates, Cuts, Exits, Supervisor,
           TakeSnapshot, LaunchGame, StartFollowers, WaitReturns, WatchEnds,
           StopFollowers, Stopped, Stat, Open, Select, vars, follower
  <2> QED
    BY <2>0, <2>1, <2>2, <2>3, <2>4 DEF Next, Follower
<1> QED
  BY <1>1, <1>2, <1>3 DEF StaleInv, StaleStays, NoneOld

\* Whatever old bytes a file still has lie before the snapshot's size or the
\* follower's position.
LEMMA OldIsPassed == Spec => [](TypeOK /\ StaleInv)
<1>1. TypeOK /\ StaleInv /\ [Next]_vars => TypeOK' /\ StaleInv'
  BY TypesKept, StaleKept
<1> QED
  BY <1>1, FollowInit, PTL DEF Spec

\* Every variable of the follower, its supervisor and the file system keeps its
\* type: a position is never negative, a file that is read is open.
THEOREM FollowTypes == Spec => []TypeOK
  BY OldIsPassed, PTL

\* A line of a previous run is never copied into this one's stdout, however the
\* game appends, truncates and rotates and wherever the follower stands (stale
\* in logfollow.go, "skip what was already there").
THEOREM OldLinesStay == Spec => []StaleStays
<1>1. StaleInv => StaleStays
  BY DEF StaleInv
<1> QED
  BY <1>1, OldIsPassed, PTL

-----------------------------------------------------------------------------
(* The inductive invariant behind CopiedInOrder, NothingSkipped and        *)
(* DrainedBeforeReport.                                                    *)

\* A file holds one write after the other.
Row(s) == \A j, k \in DOMAIN s : s[k].n + j = s[j].n + k

\* Nothing is missing behind b in the file that b ends.
Ended(b) == b.nl \/ b.n \in torn

\* Only the newest file is written to, and later files hold later writes.
FilesInv ==
  /\ path # None => path = files
  /\ open # None => open <= files
  /\ \A f \in File :
       /\ Row(content[f])
       /\ \A k \in DOMAIN content[f] : content[f][k].n <= writes /\ f <= files
       /\ content[f] # <<>> => IF f = path THEN Last(content[f]).n = writes
                                           ELSE Ended(Last(content[f]))
  /\ \A f, g \in File : f < g =>
       \A j \in DOMAIN content[f], k \in DOMAIN content[g] :
         content[f][j].n < content[g][k].n

\* Until a file has been opened, nothing was copied, and what the snapshot
\* covers, or all if the file was not touched, is old.
SnapshotInv ==
  /\ sup = "snapshot" => writes = 0
  /\ sup = "snapshot" \/ stale # None => out = <<>> /\ partial = <<>>
  /\ stale # None /\ ~touched =>
       \A k \in DOMAIN content[stale.file] : content[stale.file][k].n = 0
  /\ stale # None /\ ~hidden =>
       /\ stale.size <= Len(content[stale.file])
       /\ \A k \in 1..stale.size : content[stale.file][k].n = 0

\* The follower takes its last step, and the report is made, in this order.
EndInv ==
  /\ final => cancelled
  /\ pc = "returned" => final
  /\ mode = "launched" /\ reported => sup = "done"
  /\ sup = "done" /\ ~gaveUp => pc \in {"returned", "off"}

\* Stdout ends with a whole line while the follower runs, and nothing comes
\* from a later write than the last.
TakenInv ==
  /\ pc # "returned" /\ out # <<>> => Last(out).nl
  /\ \A k \in DOMAIN Taken : Taken[k].n <= writes

\* The follower has yet to read byte k of file f.
Ahead(f, k) ==
  IF open = None THEN f = path
  ELSE f > open \/ (f = open /\ (k > pos \/ Len(content[open]) < pos))

Linked(a, b) == a.n < b.n /\ (a.nl \/ b.n = a.n + 1 \/ a.n \in torn)

TakenInOrder == \A k \in 1..Len(Taken) - 1 : Linked(Taken[k], Taken[k + 1])

\* What is ahead is later than everything taken.
AheadIsNew ==
  \A f \in File : \A k \in DOMAIN content[f] : Ahead(f, k) =>
    \A j \in DOMAIN Taken : Taken[j].n < content[f][k].n

\* A file found replaced stays so, and can no longer be cut.
ReplacedIsGone ==
  pc \in {"fstat", "drain"} /\ Replaced =>
    path # open /\ (pc = "drain" => ~hidden)

\* What is behind the position was taken.
BehindIsTaken ==
  open # None /\ ~hidden =>
    /\ pos <= Len(content[open])
    /\ \A k \in 1..pos : content[open][k].n \in Writes(Taken) \cup {0}

\* The byte held back last is the one before the position, or the end of a
\* file that was rotated away.
PartialEnds ==
  partial # <<>> =>
    IF open = None \/ pos = 0 THEN Ended(Last(partial))
    ELSE ~hidden => content[open][pos] = Last(partial)

CopyInv ==
  clean =>
    /\ TakenInOrder
    /\ pc # "returned" => AheadIsNew /\ ReplacedIsGone /\ BehindIsTaken /\ PartialEnds

\* What is ahead in the file that is followed.
Unread ==
  IF Followed = None THEN {}
  ELSE {content[Followed][k].n : k \in {j \in DOMAIN content[Followed] : Ahead(Followed, j)}}

\* What a cut that is about to escape may have put behind the position.
Escaping == IF open # None /\ Escaped THEN Writes(content[open]) ELSE {}

\* What was in the file when the follower was stopped, and the game has not cut
\* since, is taken or ahead, or a cut is about to escape; what is read again
\* after a cut is in stdout or comes again; in the last step it is taken, then
\* copied.
DueInv ==
  clean /\ cancelled =>
    /\ 0 \notin due
    /\ pc \notin {"off", "returned"} => due \subseteq Writes(Taken) \cup Unread \cup Escaping
    /\ open # None /\ Len(content[open]) < pos =>
         due \subseteq Writes(content[open]) \cup Writes(out)
    /\ final /\ pc = "drain" /\ hidden => due \subseteq Writes(out)
    /\ final /\ pc = "select" => due \subseteq Writes(Taken)
    /\ pc = "returned" => due \subseteq Writes(out)

FollowInv ==
  /\ TypeOK /\ StaleInv
  /\ FilesInv /\ SnapshotInv /\ EndInv /\ TakenInv
  /\ CopyInv
  /\ DueInv

LEMMA BytesOf ==
  ASSUME NEW s \in Seq(Byte)
  PROVE  /\ Len(s) \in Nat /\ DOMAIN s = 1..Len(s)
         /\ \A k \in DOMAIN s : s[k] \in Byte /\ s[k].n \in Nat
         /\ s # <<>> => Len(s) \in DOMAIN s
<1>1. Len(s) \in Nat /\ DOMAIN s = 1..Len(s)
  BY LenProperties
<1>2. \A k \in DOMAIN s : s[k] \in Byte
  BY <1>1, ElementOfSeq
<1>3. \A b \in Byte : b.n \in Nat
  BY LogBounds DEF Byte
<1>4. s # <<>> => Len(s) \in Nat \ {0}
  BY EmptySeq
<1> QED
  BY <1>1, <1>2, <1>3, <1>4

LEMMA WritesAre ==
  ASSUME NEW s \in Seq(Byte)
  PROVE  \A d : d \in Writes(s) <=> d # 0 /\ \E k \in DOMAIN s : s[k].n = d
  BY DEF Writes, ToSet

LEMMA Typed ==
  ASSUME TypeOK
  PROVE  /\ \A f \in File : content[f] \in Seq(Byte) /\ f \in Nat
         /\ out \in Seq(Byte) /\ partial \in Seq(Byte) /\ Taken \in Seq(Byte)
         /\ pos \in Nat /\ writes \in Nat /\ files \in Nat
         /\ open # None => open \in File
         /\ path # None => path \in File
         /\ stale # None => stale.file \in File /\ stale.size \in Nat
<1>1. out \in Seq(Byte) /\ partial \in Seq(Byte)
  BY DEF TypeOK, FollowerTyped
<1>2. Taken \in Seq(Byte)
  BY <1>1, ConcatProperties DEF Taken
<1>3. \A f \in File : content[f] \in Seq(Byte) /\ f \in Nat
  BY LogBounds DEF TypeOK, DiskTyped, File
<1>4. writes \in Nat /\ files \in Nat
  BY LogBounds DEF TypeOK, DiskTyped
<1>5. /\ pos \in Nat
      /\ open # None => open \in File
      /\ path # None => path \in File
  BY DEF TypeOK, DiskTyped, FollowerTyped
<1>6. stale # None => stale.file \in File /\ stale.size \in Nat
  BY DEF TypeOK, FollowerTyped
<1> QED
  BY <1>1, <1>2, <1>3, <1>4, <1>5, <1>6

\* A write goes to the end of the newest file.
LEMMA WriteAppends ==
  ASSUME TypeOK, GameWrites, NEW f \in File
  PROVE  /\ content[f] \in Seq(Byte) /\ content'[f] \in Seq(Byte)
         /\ path \in File /\ writes' = writes + 1
         /\ f # path => content'[f] = content[f]
         /\ f = path => /\ Len(content'[f]) = Len(content[f]) + 1
                        /\ \A k \in DOMAIN content[f] : content'[f][k] = content[f][k]
                        /\ content'[f][Len(content[f]) + 1].n = writes + 1
<1>1. /\ content \in [File -> Seq(Byte)] /\ path \in File
      /\ writes' = writes + 1 /\ writes + 1 \in 0..MaxWrites
  BY LogBounds DEF TypeOK, DiskTyped, GameWrites
<1>2. PICK nl \in BOOLEAN : content' =
              [content EXCEPT ![path] = Append(@, [n |-> writes + 1, nl |-> nl])]
  BY DEF GameWrites
<1> DEFINE b == [n |-> writes + 1, nl |-> nl]
<1>3. b \in Byte /\ b.n = writes + 1
  BY <1>1 DEF Byte
<1>4. content' = [content EXCEPT ![path] = Append(@, b)]
  BY <1>2
<1> HIDE DEF b
<1>5. f # path => content'[f] = content[f]
  BY <1>1, <1>4
<1>6. f = path => content'[f] = Append(content[f], b)
  BY <1>1, <1>4
<1>7. content[f] \in Seq(Byte)
  BY <1>1
<1>8. DOMAIN content[f] = 1..Len(content[f])
  BY <1>7, LenProperties
<1>9. /\ Append(content[f], b) \in Seq(Byte)
      /\ Len(Append(content[f], b)) = Len(content[f]) + 1
      /\ \A k \in 1..Len(content[f]) : Append(content[f], b)[k] = content[f][k]
      /\ Append(content[f], b)[Len(content[f]) + 1] = b
  BY <1>3, <1>7, AppendProperties
<1> QED
  BY <1>1, <1>3, <1>5, <1>6, <1>7, <1>8, <1>9

\* Everything but the game leaves the file system alone.
LEMMA DiskStays ==
  Exits \/ Supervisor \/ Follower \/ UNCHANGED vars => UNCHANGED <<disk, torn>>
  BY DEF Exits, Supervisor, TakeSnapshot, LaunchGame, StartFollowers, WaitReturns,
         WatchEnds, StopFollowers, Stopped, Follower, Stat, Open, Fstat, Drain,
         Select, Returns, vars

\* The game leaves the follower and its supervisor alone.
LEMMA FollowerStays ==
  Game => UNCHANGED <<follower, super, clean>> /\ sup # "snapshot"
  BY DEF Game, GameWrites, Rotates, Creates, Cuts, Exits, Playing

LEMMA FilesKept ==
  ASSUME FollowInv, [Next]_vars
  PROVE  FilesInv'
<1> USE LogBounds, NoneIsNoFile
<1>0. /\ TypeOK /\ FilesInv /\ StaleInv
      /\ \A f \in File : content[f] \in Seq(Byte) /\ f \in Nat
      /\ writes \in Nat /\ files \in Nat
      /\ path # None => path \in File
  BY Typed DEF FollowInv
<1>1. CASE GameWrites
  <2>1. UNCHANGED <<path, files, open, torn>> /\ writes' = writes + 1 /\ path # None
    BY <1>1 DEF GameWrites, follower
  <2>2. \A f \in File : content[f] \in Seq(Byte) /\ content'[f] \in Seq(Byte)
    BY <1>0, <1>1, WriteAppends
  <2>3. \A f \in File :
          /\ Len(content[f]) \in Nat /\ DOMAIN content[f] = 1..Len(content[f])
          /\ DOMAIN content'[f] = 1..Len(content'[f])
          /\ \A k \in DOMAIN content[f] : content[f][k].n \in Nat
          /\ content[f] # <<>> => Len(content[f]) \in DOMAIN content[f]
    BY <2>2, BytesOf
  <2>4. \A f \in File : f # path => content'[f] = content[f]
    BY <1>0, <1>1, WriteAppends
  <2>5. /\ path \in File
        /\ Len(content'[path]) = Len(content[path]) + 1
        /\ \A k \in DOMAIN content[path] : content'[path][k] = content[path][k]
        /\ content'[path][Len(content[path]) + 1].n = writes + 1
    BY <1>0, <1>1, <2>1, WriteAppends
  <2>6. \A f \in File : \A k \in DOMAIN content'[f] :
          \/ k \in DOMAIN content[f] /\ content'[f][k] = content[f][k]
          \/ f = path /\ k = Len(content[f]) + 1 /\ content'[f][k].n = writes + 1
    BY <2>3, <2>4, <2>5
  <2>7. content[path] # <<>> => content[path][Len(content[path])].n = writes
    BY <1>0, <2>5 DEF FilesInv, Last
  <2>8. \A f \in File : Row(content'[f])
    <3>1. ASSUME NEW k \in DOMAIN content[path]
          PROVE  content[path][k].n + Len(content[path]) = writes + k
      <4>1. content[path] # <<>> 
        BY <2>3, <2>5, EmptySeq
      <4>2. Len(content[path]) \in DOMAIN content[path] /\ Row(content[path])
        BY <4>1, <1>0, <2>3, <2>5 DEF FilesInv
      <4> QED
        BY <4>1, <4>2, <2>7, <2>3, <2>5, <3>1 DEF Row
    <3>2. Row(content'[path])
      <4> SUFFICES ASSUME NEW j \in DOMAIN content'[path], NEW k \in DOMAIN content'[path]
                   PROVE  content'[path][k].n + j = content'[path][j].n + k
        BY DEF Row
      <4>1. CASE j \in DOMAIN content[path] /\ k \in DOMAIN content[path]
        BY <1>0, <2>5, <4>1 DEF FilesInv, Row
      <4>0. /\ Len(content[path]) \in Nat
            /\ \A i \in DOMAIN content[path] : i \in Nat /\ content'[path][i].n \in Nat
        BY <2>3, <2>5
      <4>2. CASE j = Len(content[path]) + 1 /\ k \in DOMAIN content[path]
        <5>1. content'[path][k].n + Len(content[path]) = writes + k
          BY <2>5, <4>2, <3>1
        <5>2. content'[path][j].n = writes + 1 /\ j = Len(content[path]) + 1
          BY <2>5, <4>2
        <5>3. k \in Nat /\ content'[path][k].n \in Nat
          BY <4>0, <4>2
        <5> QED
          BY <1>0, <4>0, <5>1, <5>2, <5>3
      <4>3. CASE k = Len(content[path]) + 1 /\ j \in DOMAIN content[path]
        <5>1. content'[path][j].n + Len(content[path]) = writes + j
          BY <2>5, <4>3, <3>1
        <5>2. content'[path][k].n = writes + 1 /\ k = Len(content[path]) + 1
          BY <2>5, <4>3
        <5>3. j \in Nat /\ content'[path][j].n \in Nat
          BY <4>0, <4>3
        <5>4. writes + 1 + j = content'[path][j].n + (Len(content[path]) + 1)
          BY <1>0, <4>0, <5>1, <5>3
        <5> QED
          BY <5>2, <5>4
      <4>4. CASE k = Len(content[path]) + 1 /\ j = Len(content[path]) + 1
        BY <4>4
      <4> QED
        BY <4>1, <4>2, <4>3, <4>4, <2>5, <2>6
    <3> QED
      BY <1>0, <2>4, <3>2 DEF FilesInv
  <2>9. \A f \in File : \A k \in DOMAIN content'[f] : content'[f][k].n <= writes' /\ f <= files'
    BY <1>0, <2>1, <2>3, <2>5, <2>6 DEF FilesInv
  <2>10. \A f \in File : content'[f] # <<>> =>
           IF f = path' THEN Last(content'[f]).n = writes'
           ELSE Last(content'[f]).nl \/ Last(content'[f]).n \in torn'
    <3>1. Last(content'[path]).n = writes'
      BY <2>1, <2>5 DEF Last
    <3>2. \A f \in File : content[f] # <<>> /\ f # path =>
            Last(content[f]).nl \/ Last(content[f]).n \in torn
      BY <1>0 DEF FilesInv, Ended
    <3> QED
      BY <2>1, <2>4, <3>1, <3>2
  <2>11. \A f, g \in File : f < g =>
           \A j \in DOMAIN content'[f], k \in DOMAIN content'[g] :
             content'[f][j].n < content'[g][k].n
    <3> SUFFICES ASSUME NEW f \in File, NEW g \in File, f < g,
                        NEW j \in DOMAIN content'[f], NEW k \in DOMAIN content'[g]
                 PROVE  content'[f][j].n < content'[g][k].n
      OBVIOUS
    <3>1. f # path
      BY <1>0, <2>1, <2>6 DEF FilesInv
    <3>2. j \in DOMAIN content[f] /\ content'[f][j] = content[f][j]
      BY <3>1, <2>4
    <3>3. content[f][j].n <= writes /\ content[f][j].n \in Nat
      BY <1>0, <2>3, <3>2 DEF FilesInv
    <3> QED
      BY <1>0, <2>6, <3>2, <3>3 DEF FilesInv
  <2>12. path' # None => path' = files'
    BY <1>0, <2>1 DEF FilesInv
  <2>13. open' # None => open' <= files'
    BY <1>0, <2>1 DEF FilesInv
  <2> QED
    BY <2>8, <2>9, <2>10, <2>11, <2>12, <2>13, <2>1 DEF FilesInv, Ended
<1>2. CASE Rotates
  <2>1. path' = None /\ UNCHANGED <<files, content, writes, open>> /\ path \in File
    BY <1>0, <1>2 DEF Rotates, follower
  <2>2. torn \subseteq torn'
    BY <1>2 DEF Rotates
  <2>3. content[path] # <<>> =>
          Last(content[path]).nl \/ Last(content[path]).n \in torn'
    BY <1>2 DEF Rotates
  <2>4. \A f \in File : content[f] # <<>> =>
          Last(content[f]).nl \/ Last(content[f]).n \in torn'
    BY <1>0, <2>1, <2>2, <2>3 DEF FilesInv, Ended
  <2> QED
    BY <1>0, <2>1, <2>4 DEF FilesInv, Ended
<1>3. CASE Creates
  <2>1. /\ path' = files + 1 /\ files' = files + 1 /\ path = None
        /\ UNCHANGED <<content, writes, open, torn>>
    BY <1>3 DEF Creates, follower
  <2>2. \A f \in File : f = path' => content[f] = <<>>
    <3>1. \A f \in File : content[f] # <<>> => f <= files
      BY <1>0, BytesOf DEF FilesInv
    <3> QED
      BY <1>0, <2>1, <3>1
  <2>3. open # None => open <= files /\ open \in Nat
    BY <1>0 DEF FilesInv, TypeOK, FollowerTyped, File
  <2>4. \A f \in File : \A k \in DOMAIN content[f] : f <= files'
    BY <1>0, <2>1 DEF FilesInv
  <2>5. \A f \in File : f # path
    BY <2>1
  <2> QED
    BY <1>0, <2>1, <2>2, <2>3, <2>4, <2>5 DEF FilesInv, Ended
<1>4. CASE Cuts
  <2>1. /\ content' = [content EXCEPT ![path] = <<>>] /\ path \in File
        /\ UNCHANGED <<path, files, writes, open, torn>>
    BY <1>0, <1>4 DEF Cuts, follower
  <2>2. \A f \in File : content'[f] = IF f = path THEN <<>> ELSE content[f]
    BY <1>0, <2>1 DEF TypeOK, DiskTyped
  <2>3. DOMAIN <<>> = {}
    BY EmptySeq, LenProperties
  <2>4. Row(<<>>)
    BY <2>3 DEF Row
  <2>5. \A f \in File :
          /\ Row(content'[f])
          /\ \A k \in DOMAIN content'[f] : content'[f][k].n <= writes /\ f <= files
          /\ content'[f] # <<>> => f # path /\ Ended(Last(content'[f]))
    BY <1>0, <2>2, <2>3, <2>4 DEF FilesInv
  <2>6. \A f, g \in File : f < g =>
          \A j \in DOMAIN content'[f], k \in DOMAIN content'[g] :
            content'[f][j].n < content'[g][k].n
    BY <1>0, <2>2, <2>3 DEF FilesInv
  <2> QED
    BY <1>0, <2>1, <2>5, <2>6 DEF FilesInv, Ended
<1>5. CASE UNCHANGED <<disk, torn>>
  <2>1. open' = open \/ open' = None \/ (open' = path /\ path # None)
    BY <1>5 DEF Next, Game, GameWrites, Rotates, Creates, Cuts, Exits,
         Supervisor, TakeSnapshot, LaunchGame, StartFollowers, WaitReturns,
         WatchEnds, StopFollowers, Stopped, Follower, Stat, Open, Fstat, Drain,
         Select, Returns, vars, follower
  <2> QED
    BY <1>0, <1>5, <2>1 DEF FilesInv, disk, Ended
<1> QED
  BY <1>1, <1>2, <1>3, <1>4, <1>5, DiskStays DEF Next, Game

LEMMA SnapshotKept ==
  ASSUME FollowInv, [Next]_vars
  PROVE  SnapshotInv'
<1> USE NoneIsNoFile
<1>0. /\ TypeOK /\ SnapshotInv /\ Opened /\ FilesInv
      /\ \A f \in File : content[f] \in Seq(Byte)
      /\ stale # None => stale.file \in File /\ stale.size \in Nat
      /\ path # None => path \in File
      /\ writes \in Nat
  BY Typed DEF FollowInv, StaleInv
<1>1. \A f \in File : /\ Len(content[f]) \in Nat /\ DOMAIN content[f] = 1..Len(content[f])
                      /\ \A k \in DOMAIN content[f] : content[f][k].n \in Nat
  BY <1>0, BytesOf
<1>2. CASE Game
  <2>0. UNCHANGED <<follower, super>> /\ sup # "snapshot"
    BY <1>2, FollowerStays
  <2>1. CASE GameWrites
    <3>1. stale # None /\ stale.file = path => touched'
      BY <2>1 DEF GameWrites, Touch
    <3>2. stale # None /\ stale.file # path => content'[stale.file] = content[stale.file] /\ (touched => touched')
      BY <1>0, <2>1, WriteAppends DEF GameWrites, Touch
    <3>3. stale # None /\ stale.file = path =>
            /\ Len(content'[path]) = Len(content[path]) + 1
            /\ \A k \in DOMAIN content[path] : content'[path][k] = content[path][k]
      BY <1>0, <2>1, WriteAppends
    <3>4. hidden' = hidden
      BY <2>1 DEF GameWrites
    <3>5. stale # None /\ ~hidden =>
            /\ stale.size <= Len(content'[stale.file])
            /\ \A k \in 1..stale.size : content'[stale.file][k].n = 0
      BY <1>0, <1>1, <3>2, <3>3 DEF SnapshotInv
    <3> QED
      BY <1>0, <2>0, <3>1, <3>2, <3>4, <3>5 DEF SnapshotInv, follower, super
  <2>2. CASE Cuts
    <3>1. stale # None /\ stale.file = path => touched' /\ hidden'
      BY <1>0, <2>2 DEF Cuts, Touch, Opened
    <3>2. stale # None /\ stale.file # path =>
            content'[stale.file] = content[stale.file] /\ (touched => touched') /\ (hidden => hidden')
      BY <1>0, <2>2 DEF Cuts, Touch, TypeOK, DiskTyped
    <3> QED
      BY <1>0, <2>0, <3>1, <3>2 DEF SnapshotInv, follower, super
  <2>3. CASE Rotates \/ Creates \/ Exits
    BY <1>0, <2>0, <2>3 DEF Rotates, Creates, Exits, disk, SnapshotInv, follower, super
  <2> QED
    BY <1>2, <2>1, <2>2, <2>3 DEF Game
<1>3. CASE TakeSnapshot
  <2>1. writes = 0 /\ UNCHANGED <<disk, out, partial>> /\ sup' = "launch" /\ out = <<>> /\ partial = <<>>
    BY <1>0, <1>3 DEF TakeSnapshot, SnapshotInv
  <2>2. path # None => stale' = [file |-> path, size |-> Len(content[path])]
    BY <1>3 DEF TakeSnapshot
  <2>3. path = None => stale' = None
    BY <1>3 DEF TakeSnapshot
  <2>4. \A f \in File : \A k \in DOMAIN content[f] : content[f][k].n = 0
    BY <1>0, <1>1, <2>1 DEF FilesInv
  <2> QED
    BY <1>0, <1>1, <2>1, <2>2, <2>3, <2>4 DEF SnapshotInv, disk
<1>4. CASE Open
  <2>1. UNCHANGED <<disk, sup, out, partial, hidden>> /\ stale' \in {None, stale} /\ sup # "snapshot"
    BY <1>0, <1>4 DEF Open, super, Opened
  <2> QED
    BY <1>0, <2>1 DEF SnapshotInv, disk
<1>5. CASE Fstat \/ Drain \/ Returns
  <2>1. UNCHANGED <<disk, sup, stale>> /\ sup # "snapshot"
    BY <1>0, <1>5 DEF Fstat, Drain, Returns, super, Opened
  <2>2. stale = None \/ Returns
    BY <1>0, <1>5 DEF Fstat, Drain, Opened
  <2>3. Returns => UNCHANGED hidden /\ (out = <<>> /\ partial = <<>> => out' = <<>> /\ partial' = <<>>)
    <3>1. <<>> \o <<>> = <<>>
      BY EmptySeq, ConcatEmptySeq
    <3> QED
      BY <3>1 DEF Returns
  <2> QED
    BY <1>0, <2>1, <2>2, <2>3 DEF SnapshotInv, disk
<1>6. CASE LaunchGame \/ StartFollowers \/ WaitReturns \/ WatchEnds \/ Stopped \/ Stat \/ Select \/ UNCHANGED vars
  <2>1. UNCHANGED <<disk, stale, out, partial, hidden>> /\ (sup' = "snapshot" => sup = "snapshot")
    BY <1>6 DEF LaunchGame, StartFollowers, WaitReturns, WatchEnds, StopFollowers, Stopped,
                Stat, Select, vars, follower, super
  <2> QED
    BY <1>0, <2>1 DEF SnapshotInv, disk
<1> QED
  BY <1>2, <1>3, <1>4, <1>5, <1>6 DEF Next, Supervisor, Follower

LEMMA EndKept ==
  ASSUME FollowInv, [Next]_vars
  PROVE  EndInv'
<1> USE DEF EndInv, cancelled
<1>0. EndInv /\ Opened
  BY DEF FollowInv, StaleInv
<1>1. CASE Game
  BY <1>0, <1>1, FollowerStays DEF follower, super
<1>2. CASE Supervisor
  <2>1. CASE StartFollowers
    BY <1>0, <2>1 DEF StartFollowers, Opened
  <2>2. CASE TakeSnapshot \/ LaunchGame
    BY <1>0, <2>2 DEF TakeSnapshot, LaunchGame, follower, super
  <2>3. CASE WaitReturns \/ WatchEnds
    BY <1>0, <2>3 DEF WaitReturns, WatchEnds, StopFollowers, follower
  <2>4. CASE Stopped
    <3>1. /\ sup = "stopping" /\ sup' = "done" /\ UNCHANGED <<server, pc, final, mode>>
          /\ ~gaveUp' => pc \in {"returned", "off"}
      BY <2>4 DEF Stopped, follower
    <3> QED
      BY <1>0, <3>1
  <2> QED
    BY <1>2, <2>1, <2>2, <2>3, <2>4 DEF Supervisor
<1>3. CASE Follower
  <2>1. UNCHANGED <<super, server>>
    BY <1>3 DEF Follower, Stat, Open, Fstat, Drain, Select, Returns
  <2>2. pc \notin {"returned", "off"} 
    BY <1>3 DEF Follower, Stat, Open, Fstat, Drain, Select, Returns
  <2>3. CASE Stat \/ Open \/ Fstat \/ Drain
    <3>1. final' = final /\ pc' \notin {"returned", "off"}
      BY <2>3 DEF Stat, Open, Fstat, Drain, EndStep, Goto
    <3> QED
      BY <1>0, <2>1, <2>2, <3>1 DEF super
  <2>4. CASE Select
    BY <1>0, <2>1, <2>2, <2>4 DEF Select, Goto, super
  <2>5. CASE Returns
    BY <1>0, <2>1, <2>5 DEF Returns, Goto, super
  <2> QED
    BY <1>3, <2>3, <2>4, <2>5 DEF Follower
<1>4. CASE UNCHANGED vars
  BY <1>0, <1>4 DEF vars, follower, super
<1> QED
  BY <1>1, <1>2, <1>3, <1>4 DEF Next

\* What a drain reads: the unread bytes of the open file, behind what was held back.
LEMMA DrainTakes ==
  ASSUME TypeOK, Opened, open # None, Reads
  PROVE  LET rest == Len(content[open]) - pos
         IN  /\ Taken' \in Seq(Byte)
             /\ Len(Taken') = Len(Taken) + (IF rest > 0 THEN rest ELSE 0)
             /\ \A k \in DOMAIN Taken : Taken'[k] = Taken[k]
             /\ \A k \in 1..rest : Taken'[Len(Taken) + k] = content[open][pos + k]
             /\ out # <<>> /\ Last(out).nl /\ out' # <<>> => Last(out').nl
             /\ out = <<>> /\ out' # <<>> => Last(out').nl
             /\ partial' # <<>> => Last(partial') = IF rest > 0 THEN Last(content[open]) ELSE Last(partial)
             /\ partial' # <<>> /\ rest <= 0 => partial # <<>>
<1> DEFINE c == content[open]
           unread == SubSeq(c, pos + 1, Len(c))
           read == partial \o unread
<1>1. /\ c \in Seq(Byte) /\ pos \in Nat
      /\ partial \in Seq(Byte) /\ out \in Seq(Byte) /\ Taken \in Seq(Byte)
  BY Typed
<1>2. PICK n \in WholeLines(read) :
        out' = out \o SubSeq(read, 1, n) /\ partial' = SubSeq(read, n + 1, Len(read))
  BY DEF Reads
<1> HIDE DEF c
<1>3. /\ Len(c) \in Nat /\ DOMAIN c = 1..Len(c)
      /\ \A k \in 1..Len(c) : c[k] \in Byte
  BY <1>1, BytesOf
<1>4. /\ unread \in Seq(Byte)
      /\ Len(unread) = IF Len(c) - pos > 0 THEN Len(c) - pos ELSE 0
      /\ \A k \in 1..Len(c) - pos : unread[k] = c[pos + k]
  <2>1. \A i \in pos + 1..Len(c) : c[i] \in Byte
    BY <1>1, <1>3
  <2>2. /\ unread \in Seq(Byte)
        /\ Len(unread) = IF pos + 1 <= Len(c) THEN Len(c) - (pos + 1) + 1 ELSE 0
        /\ \A i \in 1..Len(c) - (pos + 1) + 1 : unread[i] = c[(pos + 1) + i - 1]
    BY <1>1, <1>3, <2>1, SubSeqProperties
  <2>3. Len(c) - (pos + 1) + 1 = Len(c) - pos /\ \A i \in Nat : (pos + 1) + i - 1 = pos + i
    BY <1>1, <1>3
  <2>4. Len(unread) = IF Len(c) - pos > 0 THEN Len(c) - pos ELSE 0
    BY <1>1, <1>3, <2>2
  <2> HIDE DEF unread
  <2>5. ASSUME NEW k \in 1..Len(c) - pos
        PROVE  unread[k] = c[pos + k]
    <3>1. k \in Nat /\ k \in 1..Len(c) - (pos + 1) + 1
      BY <1>1, <1>3, <2>3
    <3>2. unread[k] = c[(pos + 1) + k - 1] /\ (pos + 1) + k - 1 = pos + k
      BY <2>2, <2>3, <3>1
    <3> QED
      BY <3>2
  <2> QED
    BY <2>2, <2>4, <2>5
<1> HIDE DEF unread
<1>5. /\ read \in Seq(Byte) /\ Len(read) = Len(partial) + Len(unread)
      /\ \A k \in 1..Len(partial) + Len(unread) :
            read[k] = IF k <= Len(partial) THEN partial[k] ELSE unread[k - Len(partial)]
      /\ Len(partial) \in Nat /\ Len(unread) \in Nat /\ Len(out) \in Nat
  BY <1>1, <1>4, ConcatProperties, BytesOf
<1> HIDE DEF read
<1>6. /\ n \in 0..Len(read) /\ (n > 0 => read[n].nl) /\ Len(read) \in Nat
      /\ \A k \in 1..Len(read) : read[k] \in Byte
  <2>1. /\ Len(read) \in Nat /\ \A k \in 1..Len(read) : read[k] \in Byte
    BY <1>5, BytesOf
  <2> QED
    BY <1>2, <2>1 DEF WholeLines
<1>7. /\ SubSeq(read, 1, n) \in Seq(Byte) /\ Len(SubSeq(read, 1, n)) = n
      /\ \A k \in 1..n : SubSeq(read, 1, n)[k] = read[k]
  <2>1. \A i \in 1..n : read[i] \in Byte
    BY <1>6
  <2>2. /\ SubSeq(read, 1, n) \in Seq(Byte)
        /\ Len(SubSeq(read, 1, n)) = IF 1 <= n THEN n - 1 + 1 ELSE 0
        /\ \A i \in 1..n - 1 + 1 : SubSeq(read, 1, n)[i] = read[1 + i - 1]
    BY <1>6, <2>1, SubSeqProperties
  <2>3. n - 1 + 1 = n /\ \A i \in Nat : 1 + i - 1 = i
    BY <1>6
  <2> QED
    BY <1>6, <2>2, <2>3
<1>8. /\ partial' \in Seq(Byte) /\ Len(partial') = Len(read) - n
      /\ \A k \in 1..Len(read) - n : partial'[k] = read[n + k]
  <2>1. \A i \in n + 1..Len(read) : read[i] \in Byte
    BY <1>6
  <2>2. /\ partial' \in Seq(Byte)
        /\ Len(partial') = IF n + 1 <= Len(read) THEN Len(read) - (n + 1) + 1 ELSE 0
        /\ \A i \in 1..Len(read) - (n + 1) + 1 : partial'[i] = read[(n + 1) + i - 1]
    BY <1>2, <1>6, <2>1, SubSeqProperties
  <2>3. Len(read) - (n + 1) + 1 = Len(read) - n /\ \A i \in Nat : (n + 1) + i - 1 = n + i
    BY <1>6
  <2>4. Len(partial') = Len(read) - n
    BY <1>6, <2>2
  <2>5. \A i \in 1..Len(read) - n : partial'[i] = read[(n + 1) + i - 1]
    BY <2>2, <2>3
  <2>6. \A i \in 1..Len(read) - n : i \in Nat
    BY <1>6
  <2> QED
    BY <2>2, <2>3, <2>4, <2>5, <2>6
<1>9. /\ out' \in Seq(Byte) /\ Len(out') = Len(out) + n
      /\ \A k \in 1..Len(out) + n : out'[k] = IF k <= Len(out) THEN out[k] ELSE read[k - Len(out)]
  <2>1. /\ out' \in Seq(Byte) /\ Len(out') = Len(out) + n
        /\ \A k \in 1..Len(out) + n : out'[k] =
             IF k <= Len(out) THEN out[k] ELSE SubSeq(read, 1, n)[k - Len(out)]
    BY <1>1, <1>2, <1>7, ConcatProperties
  <2> QED
    BY <1>5, <1>6, <1>7, <2>1
<1>10. /\ Taken' \in Seq(Byte) /\ Len(Taken') = Len(out) + Len(read)
       /\ \A k \in 1..Len(out) + Len(read) :
             Taken'[k] = IF k <= Len(out) THEN out[k] ELSE read[k - Len(out)]
  <2>1. /\ Taken' \in Seq(Byte) /\ Len(Taken') = Len(out') + Len(partial')
        /\ \A k \in 1..Len(out') + Len(partial') :
              Taken'[k] = IF k <= Len(out') THEN out'[k] ELSE partial'[k - Len(out')]
    BY <1>8, <1>9, ConcatProperties DEF Taken
  <2>2. Len(out') + Len(partial') = Len(out) + Len(read)
    BY <1>5, <1>6, <1>8, <1>9
  <2>3. ASSUME NEW k \in 1..Len(out) + Len(read)
        PROVE  Taken'[k] = IF k <= Len(out) THEN out[k] ELSE read[k - Len(out)]
    <3>1. CASE k <= Len(out')
      BY <2>1, <2>2, <3>1, <1>5, <1>6, <1>9
    <3>2. CASE k > Len(out')
      <4>1. k - Len(out') \in 1..Len(read) - n /\ n + (k - Len(out')) = k - Len(out) /\ k > Len(out)
        BY <1>5, <1>6, <1>9, <3>2
      <4>2. Taken'[k] = partial'[k - Len(out')]
        BY <2>1, <2>2, <3>2, <4>1, <1>5, <1>6, <1>9
      <4> QED
        BY <1>5, <1>8, <4>1, <4>2
    <3> QED
      BY <3>1, <3>2, <1>5, <1>6, <1>9
  <2> QED
    BY <2>1, <2>2, <2>3
<1>11. /\ Len(Taken) = Len(out) + Len(partial)
       /\ \A k \in 1..Len(out) + Len(partial) :
             Taken[k] = IF k <= Len(out) THEN out[k] ELSE partial[k - Len(out)]
       /\ DOMAIN Taken = 1..Len(Taken)
  BY <1>1, ConcatProperties, BytesOf DEF Taken
<1>12. Len(Taken') = Len(Taken) + Len(unread)
  BY <1>5, <1>10, <1>11
<1>13. ASSUME NEW k \in DOMAIN Taken
       PROVE  Taken'[k] = Taken[k]
  <2>1. k \in 1..Len(out) + Len(partial) /\ k \in 1..Len(out) + Len(read)
    BY <1>5, <1>11
  <2>2. CASE k <= Len(out)
    BY <1>10, <1>11, <2>1, <2>2
  <2>3. CASE k > Len(out)
    <3>1. k - Len(out) \in 1..Len(partial) + Len(unread) /\ k - Len(out) <= Len(partial)
      BY <1>5, <2>1, <2>3
    <3>2. ~(k <= Len(out))
      BY <1>5, <2>1, <2>3
    <3>3. Taken'[k] = read[k - Len(out)] /\ Taken[k] = partial[k - Len(out)]
      BY <1>10, <1>11, <2>1, <3>2
    <3> QED
      BY <1>5, <3>1, <3>3
  <2> QED
    BY <1>5, <2>1, <2>2, <2>3
<1>14. ASSUME NEW k \in 1..Len(unread)
       PROVE  Taken'[Len(Taken) + k] = unread[k]
  <2> DEFINE i == Len(Taken) + k
  <2>1. /\ i \in 1..Len(out) + Len(read) /\ ~(i <= Len(out))
        /\ i - Len(out) = Len(partial) + k
    BY <1>5, <1>11
  <2>2. /\ Len(partial) + k \in 1..Len(partial) + Len(unread)
        /\ ~(Len(partial) + k <= Len(partial)) /\ (Len(partial) + k) - Len(partial) = k
    BY <1>5
  <2>3. Taken'[i] = read[Len(partial) + k]
    BY <1>10, <2>1
  <2> QED
    BY <1>5, <2>2, <2>3
<1>15. out' # <<>> /\ (out # <<>> => Last(out).nl) => Last(out').nl
  <2> SUFFICES ASSUME out' # <<>>, out # <<>> => Last(out).nl
               PROVE  Last(out').nl
    OBVIOUS
  <2>1. CASE n = 0
    <3>1. /\ Len(out') = Len(out) /\ Len(out') # 0
      BY <1>1, <1>5, <1>9, <2>1, EmptySeq
    <3>2. out # <<>>
      BY <1>1, <3>1, EmptySeq
    <3> QED
      BY <1>5, <1>9, <2>1, <3>1, <3>2 DEF Last
  <2>2. CASE n > 0
    <3> DEFINE i == Len(out) + n
    <3>1. i \in 1..Len(out) + n /\ ~(i <= Len(out)) /\ i - Len(out) = n
      BY <1>5, <1>6, <2>2
    <3>2. out'[i] = read[n] /\ Len(out') = i
      BY <1>9, <3>1
    <3> QED
      BY <1>6, <2>2, <3>2 DEF Last
  <2> QED
    BY <1>6, <2>1, <2>2
<1>16. partial' # <<>> => Len(read) > n /\ Last(partial') = read[Len(read)]
  <2> SUFFICES ASSUME partial' # <<>> PROVE Len(read) > n /\ Last(partial') = read[Len(read)]
    OBVIOUS
  <2>1. Len(partial') \in Nat \ {0}
    BY <1>8, EmptySeq
  <2> QED
    BY <1>6, <1>8, <2>1 DEF Last
<1>17. Len(c) - pos > 0 => Len(read) > 0 /\ read[Len(read)] = c[Len(c)]
  <2> SUFFICES ASSUME Len(c) - pos > 0 PROVE Len(read) > 0 /\ read[Len(read)] = c[Len(c)]
    OBVIOUS
  <2> DEFINE i == Len(partial) + Len(unread)
  <2>1. Len(unread) = Len(c) - pos /\ Len(unread) \in 1..Len(c) - pos /\ pos + Len(unread) = Len(c)
    BY <1>1, <1>3, <1>4
  <2>2. Len(read) = i /\ i \in 1..i /\ ~(i <= Len(partial)) /\ i - Len(partial) = Len(unread)
    BY <1>5, <2>1
  <2>3. read[i] = unread[Len(unread)]
    BY <1>5, <2>2
  <2> QED
    BY <1>4, <1>5, <2>1, <2>2, <2>3
<1>18. Len(c) - pos <= 0 =>
         /\ Len(read) = Len(partial)
         /\ Len(read) > 0 => read[Len(read)] = partial[Len(partial)]
  <2> SUFFICES ASSUME Len(c) - pos <= 0
               PROVE  /\ Len(read) = Len(partial)
                      /\ Len(read) > 0 => read[Len(read)] = partial[Len(partial)]
    OBVIOUS
  <2>0. Len(c) \in Nat /\ pos \in Nat
    BY <1>1, <1>3
  <2>1. Len(unread) = 0
    <3>1. ~(Len(c) - pos > 0)
      BY <2>0
    <3> QED
      BY <1>4, <3>1
  <2>2. Len(read) = Len(partial) /\ Len(partial) + Len(unread) = Len(partial)
    BY <1>5, <2>1
  <2>3. \A k \in 1..Len(partial) : read[k] = partial[k]
    BY <1>5, <2>2
  <2> QED
    BY <1>5, <2>2, <2>3
<1>19. partial' # <<>> => Last(partial') = IF Len(c) - pos > 0 THEN Last(c) ELSE Last(partial)
  BY <1>1, <1>3, <1>6, <1>16, <1>17, <1>18 DEF Last
<1>20. partial' # <<>> /\ Len(c) - pos <= 0 => partial # <<>>
  BY <1>1, <1>3, <1>5, <1>6, <1>16, <1>18, EmptySeq
<1>21. Len(unread) = IF Len(c) - pos > 0 THEN Len(c) - pos ELSE 0
  BY <1>4
<1>22. \A k \in 1..Len(c) - pos : Taken'[Len(Taken) + k] = c[pos + k]
  <2> SUFFICES ASSUME NEW k \in 1..Len(c) - pos
               PROVE  Taken'[Len(Taken) + k] = c[pos + k]
    OBVIOUS
  <2>0. Len(c) \in Nat /\ pos \in Nat
    BY <1>1, <1>3
  <2>1. k \in 1..Len(unread)
    <3>1. Len(c) - pos > 0
      BY <2>0
    <3> QED
      BY <1>21, <3>1
  <2>2. Taken'[Len(Taken) + k] = unread[k] /\ unread[k] = c[pos + k]
    BY <1>4, <1>14, <2>1
  <2> QED
    BY <2>2
<1> QED
  BY <1>10, <1>12, <1>13, <1>15, <1>19, <1>20, <1>21, <1>22 DEF c

LEMMA DrainGains ==
  ASSUME TypeOK, Opened, open # None, Reads
  PROVE  /\ Writes(Taken) \subseteq Writes(Taken')
         /\ \A k \in DOMAIN content[open] :
              k > pos => content[open][k].n \in Writes(Taken') \cup {0}
<1> DEFINE c == content[open]
           rest == Len(c) - pos
<1>1. /\ c \in Seq(Byte) /\ Taken \in Seq(Byte) /\ pos \in Nat
      /\ Len(c) \in Nat /\ DOMAIN c = 1..Len(c)
  BY Typed, BytesOf
<1>2. /\ Taken' \in Seq(Byte)
      /\ Len(Taken') = Len(Taken) + (IF rest > 0 THEN rest ELSE 0)
      /\ \A i \in DOMAIN Taken : Taken'[i] = Taken[i]
      /\ \A i \in 1..rest : Taken'[Len(Taken) + i] = c[pos + i]
  BY DrainTakes
<1>3. DOMAIN Taken' = 1..Len(Taken') /\ DOMAIN Taken = 1..Len(Taken) /\ Len(Taken) \in Nat
  BY <1>1, <1>2, BytesOf
<1>4. \A k \in DOMAIN Taken : k \in DOMAIN Taken' /\ Taken'[k] = Taken[k]
  BY <1>1, <1>2, <1>3
<1>5. Writes(Taken) \subseteq Writes(Taken')
  BY <1>1, <1>2, <1>4, WritesAre
<1>6. ASSUME NEW k \in DOMAIN c, k > pos
      PROVE  c[k].n \in Writes(Taken') \cup {0}
  <2> DEFINE i == k - pos
  <2>1. rest \in Nat /\ i \in 1..rest /\ pos + i = k
    BY <1>1, <1>6
  <2>2. Taken'[Len(Taken) + i] = c[k]
    BY <1>2, <2>1
  <2>3. Len(Taken) + i \in DOMAIN Taken'
    <3> HIDE DEF rest, i
    <3> QED
      BY <1>2, <1>3, <2>1
  <2> QED
    BY <1>2, <2>2, <2>3, WritesAre
<1> QED
  BY <1>5, <1>6

\* What is taken is what is in stdout, then what is held back.
LEMMA TakenIs ==
  ASSUME TypeOK
  PROVE  /\ Len(Taken) = Len(out) + Len(partial)
         /\ Len(out) \in Nat /\ Len(partial) \in Nat
         /\ DOMAIN Taken = 1..Len(Taken) /\ DOMAIN out = 1..Len(out)
         /\ \A k \in DOMAIN out : k \in DOMAIN Taken /\ Taken[k] = out[k]
         /\ partial # <<>> => Len(partial) > 0 /\ Taken[Len(Taken)] = Last(partial)
         /\ partial = <<>> => Taken = out
         /\ out # <<>> => Len(out) > 0
<1>1. out \in Seq(Byte) /\ partial \in Seq(Byte) /\ Taken \in Seq(Byte)
  BY Typed
<1>2. /\ Len(Taken) = Len(out) + Len(partial)
      /\ \A k \in 1..Len(out) + Len(partial) : Taken[k] =
            IF k <= Len(out) THEN out[k] ELSE partial[k - Len(out)]
  BY <1>1, ConcatProperties DEF Taken
<1>3. /\ Len(out) \in Nat /\ Len(partial) \in Nat
      /\ DOMAIN Taken = 1..Len(Taken) /\ DOMAIN out = 1..Len(out)
  BY <1>1, BytesOf
<1>4. partial # <<>> => Len(partial) > 0
  BY <1>1, EmptySeq
<1>5. partial # <<>> => Taken[Len(Taken)] = Last(partial)
  <2> SUFFICES ASSUME partial # <<>> PROVE Taken[Len(Taken)] = Last(partial)
    OBVIOUS
  <2>1. /\ Len(Taken) \in 1..Len(out) + Len(partial) /\ ~(Len(Taken) <= Len(out))
        /\ Len(Taken) - Len(out) = Len(partial)
    BY <1>2, <1>3, <1>4
  <2> QED
    BY <1>2, <2>1 DEF Last
<1>6. partial = <<>> => Taken = out
  BY <1>1, ConcatEmptySeq DEF Taken
<1>7. out # <<>> => Len(out) > 0
  BY <1>1, EmptySeq
<1> QED
  BY <1>2, <1>3, <1>4, <1>5, <1>6, <1>7

\* Truncation drops what was held back, the end of the follower puts it out.
LEMMA OtherTakes ==
  ASSUME TypeOK
  PROVE  /\ Fstat => \/ Len(content[open]) < pos /\ Taken' = out /\ partial' = <<>> /\ out' = out /\ pos' = 0
                     \/ ~(Len(content[open]) < pos) /\ UNCHANGED <<Taken, partial, out, pos>>
         /\ Returns => Taken' = Taken /\ out' = Taken
<1>1. out \in Seq(Byte) /\ Taken \in Seq(Byte)
  BY Typed
<1>2. out \o <<>> = out /\ Taken \o <<>> = Taken
  BY <1>1, ConcatEmptySeq
<1>3. ASSUME Fstat
      PROVE  \/ Len(content[open]) < pos /\ Taken' = out /\ partial' = <<>> /\ out' = out /\ pos' = 0
             \/ ~(Len(content[open]) < pos) /\ UNCHANGED <<Taken, partial, out, pos>>
  BY <1>2, <1>3 DEF Fstat, Taken
<1>4. ASSUME Returns
      PROVE  Taken' = Taken /\ out' = Taken
  BY <1>2, <1>4 DEF Returns, Taken
<1> QED
  BY <1>3, <1>4

\* The steps that neither read nor touch a file.
IdleStep == Exits \/ Supervisor \/ Stat \/ Select \/ UNCHANGED vars

LEMMA IdleStays ==
  IdleStep => UNCHANGED <<content, path, files, writes, open, pos, out, partial, Taken, hidden, torn>>
  BY DEF IdleStep, Exits, Supervisor, TakeSnapshot, LaunchGame, StartFollowers, WaitReturns,
         WatchEnds, StopFollowers, Stopped, Stat, Select, vars, disk, follower, super, Taken

LEMMA GameStays ==
  Game => UNCHANGED <<pc, pst, open, pos, out, partial, Taken, clean, final>>
  BY FollowerStays DEF follower, Taken

\* Once it is not clean it stays so, and a follower that has returned is gone.
LEMMA CleanWas ==
  ASSUME FollowInv, [Next]_vars
  PROVE  /\ clean' => clean
         /\ pc' # "returned" => pc # "returned"
         /\ (Fstat \/ Drain) /\ clean' => ~Escaped
         /\ Open /\ path # None /\ clean' => path = pst.file
<1>1. Fstat \/ Drain \/ Open => (clean' => clean) /\ pc # "returned"
  BY DEF Fstat, Drain, Open
<1>2. Returns => UNCHANGED clean /\ pc' = "returned"
  BY DEF Returns, Goto
<1>3. IdleStep => UNCHANGED clean /\ (pc' # "returned" => pc # "returned")
  BY DEF FollowInv, StaleInv, Opened, IdleStep, Exits, Supervisor, TakeSnapshot, LaunchGame, StartFollowers, WaitReturns,
         WatchEnds, StopFollowers, Stopped, Stat, Select, vars, disk, follower, super,
         Goto, EndStep
<1>4. Game => UNCHANGED <<pc, clean>>
  BY GameStays
<1>5. (Fstat \/ Drain) /\ clean' => ~Escaped
  BY DEF Fstat, Drain
<1>6. Open /\ path # None /\ clean' => path = pst.file
  BY DEF Open
<1> QED
  BY <1>1, <1>2, <1>3, <1>4, <1>5, <1>6 DEF Next, Follower, IdleStep

LEMMA TakenKept ==
  ASSUME FollowInv, [Next]_vars
  PROVE  TakenInv'
<1>0. /\ TypeOK /\ TakenInv /\ FilesInv /\ Opened
      /\ writes \in Nat /\ pos \in Nat /\ out \in Seq(Byte) /\ Taken \in Seq(Byte)
  BY Typed DEF FollowInv, StaleInv
<1>1. \A k \in DOMAIN Taken : Taken[k].n \in Nat
  BY <1>0, BytesOf
<1>2. CASE Game
  <2>1. writes' \in Nat /\ writes <= writes'
    <3>1. writes' = writes \/ writes' = writes + 1
      BY <1>2 DEF Game, GameWrites, Rotates, Creates, Cuts, Exits, disk
    <3> QED
      BY <1>0, <3>1
  <2> QED
    BY <1>0, <1>1, <1>2, <2>1, GameStays DEF TakenInv
<1>3. CASE IdleStep
  BY <1>0, <1>3, IdleStays, CleanWas DEF TakenInv
<1>4. CASE Open
  <2>1. UNCHANGED <<out, partial, writes>> /\ pc # "returned"
    BY <1>4 DEF Open, disk
  <2> QED
    BY <1>0, <2>1 DEF TakenInv, Taken
<1>5. CASE Fstat
  <2>1. UNCHANGED <<out, writes>> /\ pc # "returned"
    BY <1>5 DEF Fstat, disk
  <2>2. Taken' = out \/ Taken' = Taken
    BY <1>0, <1>5, OtherTakes
  <2>3. \A k \in DOMAIN Taken' : k \in DOMAIN Taken /\ Taken'[k] = Taken[k]
    BY <1>0, <2>2, TakenIs
  <2> QED
    BY <1>0, <2>1, <2>3 DEF TakenInv
<1>6. CASE Drain
  <2>0. open \in File /\ Reads /\ UNCHANGED <<writes, content>> /\ pc # "returned" /\ open # None
    BY <1>0, <1>6, Typed DEF Drain, Opened, disk
  <2> DEFINE c == content[open]
             rest == Len(c) - pos
  <2>1. /\ c \in Seq(Byte) /\ Len(c) \in Nat /\ DOMAIN c = 1..Len(c)
    BY <1>0, <2>0, Typed, BytesOf
  <2>2. /\ Taken' \in Seq(Byte)
        /\ Len(Taken') = Len(Taken) + (IF rest > 0 THEN rest ELSE 0)
        /\ \A k \in DOMAIN Taken : Taken'[k] = Taken[k]
        /\ \A k \in 1..rest : Taken'[Len(Taken) + k] = c[pos + k]
        /\ out # <<>> /\ Last(out).nl /\ out' # <<>> => Last(out').nl
        /\ out = <<>> /\ out' # <<>> => Last(out').nl
    BY <1>0, <2>0, DrainTakes
  <2>3. \A k \in DOMAIN c : c[k].n <= writes
    BY <1>0, <2>0 DEF FilesInv
  <2>4. DOMAIN Taken' = 1..Len(Taken') /\ DOMAIN Taken = 1..Len(Taken) /\ Len(Taken) \in Nat
    BY <1>0, <2>2, BytesOf
  <2>5. ASSUME NEW k \in DOMAIN Taken' 
        PROVE  Taken'[k].n <= writes
    <3>1. CASE k \in DOMAIN Taken
      BY <1>0, <2>2, <3>1 DEF TakenInv
    <3>2. CASE k \notin DOMAIN Taken
      <4>1. k - Len(Taken) \in 1..rest /\ Len(Taken) + (k - Len(Taken)) = k /\ pos + (k - Len(Taken)) \in 1..Len(c)
        BY <1>0, <2>1, <2>2, <2>4, <3>2
      <4>2. Taken'[k] = c[pos + (k - Len(Taken))]
        BY <2>2, <4>1
      <4> QED
        BY <2>1, <2>3, <4>1, <4>2
    <3> QED
      BY <3>1, <3>2
  <2> QED
    BY <1>0, <2>0, <2>2, <2>5 DEF TakenInv
<1>7. CASE Returns
  <2>1. UNCHANGED writes /\ pc' = "returned" /\ Taken' = Taken
    BY <1>0, <1>7, OtherTakes DEF Returns, Goto, disk
  <2> QED
    BY <1>0, <2>1 DEF TakenInv
<1> QED
  BY <1>2, <1>3, <1>4, <1>5, <1>6, <1>7 DEF Next, Follower, IdleStep

-----------------------------------------------------------------------------
(* The order.                                                              *)

LEMMA OrderKept ==
  ASSUME FollowInv, [Next]_vars, clean'
  PROVE  TakenInOrder'
<1>0. /\ TypeOK /\ TakenInv /\ FilesInv /\ Opened /\ clean /\ CopyInv /\ TakenInOrder
      /\ pos \in Nat /\ out \in Seq(Byte) /\ Taken \in Seq(Byte)
  BY Typed, CleanWas DEF FollowInv, StaleInv, CopyInv
<1>1. CASE Game
  <2>1. torn \subseteq torn'
    BY <1>1 DEF Game, GameWrites, Rotates, Creates, Cuts, Exits
  <2> QED
    BY <1>0, <1>1, <2>1, GameStays DEF TakenInOrder, Linked
<1>2. CASE IdleStep \/ Returns \/ Open
  <2>1. UNCHANGED <<Taken, torn>>
    BY <1>0, <1>2, IdleStays, OtherTakes DEF Returns, Open, Taken
  <2> QED
    BY <1>0, <2>1 DEF TakenInOrder, Linked
<1>3. CASE Fstat
  <2>1. Taken' = out \/ Taken' = Taken
    BY <1>0, <1>3, OtherTakes
  <2>2. torn' = torn
    BY <1>3 DEF Fstat
  <2>3. \A k \in 1..Len(out) - 1 : /\ k \in 1..Len(Taken) - 1
                                   /\ out[k] = Taken[k] /\ out[k + 1] = Taken[k + 1]
    BY <1>0, TakenIs
  <2>4. \A k \in 1..Len(out) - 1 : Linked(out[k], out[k + 1])
    BY <1>0, <2>3 DEF TakenInOrder
  <2> QED
    BY <1>0, <2>1, <2>2, <2>4 DEF TakenInOrder, Linked
<1>4. CASE Drain
  <2>0. /\ open \in File /\ Reads /\ pc = "drain" /\ open # None /\ torn' = torn
        /\ ~Escaped /\ AheadIsNew /\ PartialEnds
    BY <1>0, <1>4, Typed, CleanWas DEF Drain, Opened, CopyInv
  <2> DEFINE c == content[open]
             rest == Len(c) - pos
             L == Len(Taken)
  <2>1. /\ c \in Seq(Byte) /\ Len(c) \in Nat /\ DOMAIN c = 1..Len(c) /\ L \in Nat
        /\ \A k \in DOMAIN c : c[k].n \in Nat
        /\ DOMAIN Taken = 1..L
    BY <1>0, <2>0, Typed, BytesOf
  <2>2. /\ Len(Taken') = L + (IF rest > 0 THEN rest ELSE 0)
        /\ \A k \in DOMAIN Taken : Taken'[k] = Taken[k]
        /\ \A k \in 1..rest : Taken'[L + k] = c[pos + k]
    BY <1>0, <2>0, DrainTakes
  <2>3. Row(c)
    BY <1>0, <2>0 DEF FilesInv
  <2> HIDE DEF c, L
  <2> SUFFICES ASSUME NEW k \in 1..Len(Taken') - 1
               PROVE  Linked(Taken'[k], Taken'[k + 1])
    BY <2>0 DEF TakenInOrder, Linked
  <2>4. CASE k + 1 <= L
    <3>1. k \in 1..L - 1 /\ k \in 1..L /\ k + 1 \in 1..L
      BY <2>1, <2>4
    <3> QED
      BY <1>0, <2>1, <2>2, <3>1 DEF TakenInOrder, L
  <2>5. CASE k = L
    <3>1. rest > 0 /\ 1 \in 1..rest /\ L \in 1..L /\ pos + 1 \in 1..Len(c) /\ L > 0
      BY <1>0, <2>1, <2>2, <2>5
    <3>2. Taken'[k] = Taken[L] /\ Taken'[k + 1] = c[pos + 1]
      BY <2>1, <2>2, <2>5, <3>1
    <3>3. Taken[L].n < c[pos + 1].n
      <4>1. Ahead(open, pos + 1)
        BY <1>0, <2>0 DEF Ahead
      <4> QED
        BY <2>0, <2>1, <3>1, <4>1 DEF AheadIsNew, c
    <3>4. CASE partial = <<>>
      <4>1. Taken = out /\ out # <<>>
        BY <1>0, <3>1, <3>4, TakenIs, EmptySeq DEF L
      <4>2. Last(out).nl
        BY <1>0, <2>0, <4>1 DEF TakenInv
      <4> QED
        BY <3>2, <3>3, <4>1, <4>2 DEF Last, Linked, L
    <3>5. CASE partial # <<>>
      <4>1. Taken[L] = Last(partial)
        BY <1>0, <3>5, TakenIs DEF L
      <4>2. CASE pos = 0
        BY <2>0, <3>2, <3>3, <3>5, <4>1, <4>2 DEF PartialEnds, Ended, Linked
      <4>3. CASE pos > 0
        <5>1. ~hidden
          BY <1>0, <2>0, <2>1, <3>1, <4>3 DEF Escaped, c
        <5>2. c[pos] = Last(partial)
          BY <2>0, <3>5, <4>3, <5>1, <1>0 DEF PartialEnds, c
        <5>3. pos \in DOMAIN c /\ pos + 1 \in DOMAIN c
          BY <1>0, <2>1, <3>1, <4>3
        <5>4. c[pos + 1].n + pos = c[pos].n + (pos + 1)
          BY <2>3, <5>3 DEF Row
        <5>5. c[pos + 1].n = c[pos].n + 1
          <6>1. c[pos + 1].n \in Nat /\ c[pos].n \in Nat
            BY <2>1, <5>3
          <6>2. \A x, y \in Nat : y + pos = x + (pos + 1) => y = x + 1
            BY <1>0
          <6> QED
            BY <5>4, <6>1, <6>2
        <5> QED
          BY <3>2, <3>3, <4>1, <5>2, <5>5 DEF Linked
      <4> QED
        BY <1>0, <4>2, <4>3
    <3> QED
      BY <3>4, <3>5
  <2>6. CASE k > L
    <3> DEFINE i == k - L
    <3>0. rest \in Int /\ k + 1 <= Len(Taken') /\ Len(Taken') \in Nat /\ k \in Nat
      BY <1>0, <2>1, <2>2
    <3>1. i \in 1..rest /\ i + 1 \in 1..rest /\ L + i = k /\ L + (i + 1) = k + 1
      <4>1. rest > 0 /\ k + 1 <= L + rest
        BY <2>1, <2>2, <2>6, <3>0
      <4> HIDE DEF rest
      <4> QED
        BY <2>1, <2>6, <3>0, <4>1
    <3>2. Taken'[k] = c[pos + i] /\ Taken'[k + 1] = c[pos + (i + 1)]
      BY <2>2, <3>1
    <3>3. pos + i \in DOMAIN c /\ pos + (i + 1) \in DOMAIN c
      BY <1>0, <2>1, <3>1
    <3>4. c[pos + (i + 1)].n + (pos + i) = c[pos + i].n + (pos + (i + 1))
      BY <2>3, <3>3 DEF Row
    <3>5. c[pos + (i + 1)].n = c[pos + i].n + 1 /\ c[pos + i].n \in Nat
      <4>1. c[pos + (i + 1)].n \in Nat /\ c[pos + i].n \in Nat /\ i \in Nat
        BY <2>1, <3>1, <3>3
      <4> HIDE DEF i
      <4>2. \A x, y \in Nat : y + (pos + i) = x + (pos + (i + 1)) => y = x + 1
        BY <1>0, <4>1
      <4> QED
        BY <3>4, <4>1, <4>2
    <3> QED
      BY <3>2, <3>5 DEF Linked
  <2> QED
    BY <2>1, <2>4, <2>5, <2>6
<1> QED
  BY <1>1, <1>2, <1>3, <1>4 DEF Next, Follower, IdleStep

\* What the invariant says while the follower runs and nothing has escaped it.
LEMMA Running ==
  ASSUME FollowInv, [Next]_vars, clean', pc' # "returned"
  PROVE  /\ TypeOK /\ Opened /\ FilesInv /\ SnapshotInv /\ TakenInv /\ clean /\ pc # "returned"
         /\ AheadIsNew /\ ReplacedIsGone /\ BehindIsTaken /\ PartialEnds
         /\ pos \in Nat /\ writes \in Nat /\ files \in Nat
         /\ out \in Seq(Byte) /\ partial \in Seq(Byte) /\ Taken \in Seq(Byte)
         /\ open # None => open \in File
         /\ path # None => path \in File
         /\ \A f \in File : f \in Nat /\ content[f] \in Seq(Byte)
  BY Typed, CleanWas DEF FollowInv, StaleInv, CopyInv

LEMMA AheadKept ==
  ASSUME FollowInv, [Next]_vars, clean', pc' # "returned"
  PROVE  AheadIsNew'
<1> USE NoneIsNoFile
<1>0. /\ TypeOK /\ Opened /\ FilesInv /\ TakenInv /\ clean /\ pc # "returned"
      /\ AheadIsNew /\ ReplacedIsGone
      /\ pos \in Nat /\ writes \in Nat /\ files \in Nat
      /\ Taken \in Seq(Byte) /\ out \in Seq(Byte)
      /\ open # None => open \in File
      /\ path # None => path \in File
      /\ \A f \in File : f \in Nat /\ content[f] \in Seq(Byte)
  BY Running
<1>1. /\ \A f \in File : /\ Len(content[f]) \in Nat /\ DOMAIN content[f] = 1..Len(content[f])
                         /\ \A k \in DOMAIN content[f] : content[f][k].n \in Nat
      /\ DOMAIN Taken = 1..Len(Taken) /\ \A j \in DOMAIN Taken : Taken[j].n \in Nat
  BY <1>0, BytesOf
<1>2. SUFFICES ASSUME NEW f \in File, NEW k \in DOMAIN content'[f], Ahead(f, k)',
                      NEW j \in DOMAIN Taken'
               PROVE  Taken'[j].n < content'[f][k].n
  BY DEF AheadIsNew
<1>3. ASSUME content'[f] = content[f], Taken' = Taken, Ahead(f, k)
      PROVE  Taken'[j].n < content'[f][k].n
  BY <1>0, <1>2, <1>3 DEF AheadIsNew
<1>4. CASE GameWrites
  <2>0. UNCHANGED <<path, open, pos, Taken>> /\ writes' = writes + 1
    BY <1>4, GameStays DEF GameWrites, Game
  <2>1. CASE f = path
    <3>1. /\ Len(content'[f]) = Len(content[f]) + 1
          /\ \A i \in DOMAIN content[f] : content'[f][i] = content[f][i]
          /\ content'[f][Len(content[f]) + 1].n = writes + 1
          /\ DOMAIN content'[f] = 1..Len(content'[f])
      BY <1>0, <1>4, <2>1, WriteAppends, BytesOf
    <3>2. CASE k \in DOMAIN content[f]
      <4>1. Ahead(f, k)
        BY <1>0, <1>1, <1>2, <2>0, <2>1, <3>1, <3>2 DEF Ahead
      <4> QED
        BY <1>0, <2>0, <3>1, <3>2, <4>1 DEF AheadIsNew
    <3>3. CASE k \notin DOMAIN content[f]
      <4>1. k = Len(content[f]) + 1
        BY <1>1, <3>1, <3>3
      <4>2. Taken[j].n <= writes /\ Taken[j].n \in Nat
        BY <1>0, <1>1, <2>0 DEF TakenInv
      <4> QED
        BY <1>0, <2>0, <3>1, <4>1, <4>2
    <3> QED
      BY <3>2, <3>3
  <2>2. CASE f # path
    <3>1. content'[f] = content[f]
      BY <1>0, <1>4, <2>2, WriteAppends
    <3>2. Ahead(f, k)
      BY <1>2, <2>0, <2>2, <3>1 DEF Ahead
    <3> QED
      BY <1>3, <2>0, <3>1, <3>2
  <2> QED
    BY <2>1, <2>2
<1>5. CASE Cuts
  <2>1. UNCHANGED <<path, open, pos, Taken>> /\ path \in File
    BY <1>0, <1>5, GameStays DEF Cuts, Game
  <2>2. content'[f] = IF f = path THEN <<>> ELSE content[f]
    BY <1>0, <1>5, <2>1 DEF Cuts, TypeOK, DiskTyped
  <2>3. DOMAIN <<>> = {}
    BY EmptySeq, LenProperties
  <2>4. content'[f] = content[f] /\ f # path
    BY <1>2, <2>2, <2>3
  <2>5. Ahead(f, k)
    BY <1>2, <2>1, <2>4 DEF Ahead
  <2> QED
    BY <1>3, <2>1, <2>4, <2>5
<1>6. CASE Rotates \/ Creates
  <2>1. /\ UNCHANGED <<content, open, pos, Taken>>
        /\ \/ path' = None
           \/ path' = files + 1
    BY <1>6, GameStays DEF Rotates, Creates, Game
  <2>2. f <= files
    BY <1>0, <1>2, <2>1 DEF FilesInv
  <2>3. f # path'
    BY <1>0, <2>1, <2>2
  <2>4. Ahead(f, k)
    BY <1>2, <2>1, <2>3 DEF Ahead
  <2> QED
    BY <1>3, <2>1, <2>4
<1>7. CASE IdleStep
  <2>1. UNCHANGED <<content, path, open, pos, Taken>>
    BY <1>7, IdleStays
  <2> QED
    BY <1>2, <1>3, <2>1 DEF Ahead
<1>8. CASE Open
  <2>1. UNCHANGED <<content, path, Taken>> /\ open = None
    BY <1>0, <1>8 DEF Open, Opened, disk, Taken
  <2>2. CASE path = None
    <3>1. open' = open
      BY <1>8, <2>2 DEF Open
    <3> QED
      BY <1>2, <1>3, <2>1, <3>1 DEF Ahead
  <2>3. CASE path # None
    <3>1. open' = path
      BY <1>8, <2>3 DEF Open
    <3>2. f <= files /\ path = files
      BY <1>0, <1>2, <2>1, <2>3 DEF FilesInv
    <3>3. f = path
      BY <1>0, <1>2, <2>1, <2>3, <3>1, <3>2 DEF Ahead
    <3> QED
      BY <1>3, <2>1, <3>3 DEF Ahead
  <2> QED
    BY <2>2, <2>3
<1>9. CASE Fstat
  <2>1. UNCHANGED <<content, path, open>> /\ open # None
    BY <1>0, <1>9 DEF Fstat, Opened, disk
  <2>2. CASE Len(content[open]) < pos /\ Taken' = out /\ pos' = 0
    <3>1. Ahead(f, k)
      BY <1>2, <2>1, <2>2 DEF Ahead
    <3>2. j \in DOMAIN Taken /\ Taken'[j] = Taken[j]
      BY <1>0, <2>2, TakenIs
    <3> QED
      BY <1>0, <1>2, <2>1, <3>1, <3>2 DEF AheadIsNew
  <2>3. CASE UNCHANGED <<Taken, pos>>
    BY <1>2, <1>3, <2>1, <2>3 DEF Ahead
  <2> QED
    BY <1>0, <1>9, <2>2, <2>3, OtherTakes
<1>10. CASE Drain
  <2>0. /\ open \in File /\ Reads /\ pc = "drain" /\ open # None
        /\ UNCHANGED <<content, path, files>>
    BY <1>0, <1>10 DEF Drain, Opened, disk
  <2> DEFINE rest == Len(content[open]) - pos
  <2>1. /\ Taken' \in Seq(Byte)
        /\ Len(Taken') = Len(Taken) + (IF rest > 0 THEN rest ELSE 0)
        /\ \A i \in DOMAIN Taken : Taken'[i] = Taken[i]
        /\ \A i \in 1..rest : Taken'[Len(Taken) + i] = content[open][pos + i]
    BY <1>0, <2>0, DrainTakes
  <2>2. DOMAIN Taken' = 1..Len(Taken') /\ Len(Taken) \in Nat
    BY <1>0, <2>1, BytesOf
  <2>3. \/ f > open
        \/ f = open /\ Len(content[open]) < pos
    <3>1. CASE Replaced
      <4>1. open' = None /\ path # open
        BY <1>0, <1>10, <2>0, <3>1 DEF Drain, ReplacedIsGone
      <4>2. f = path /\ path = files /\ open <= files
        BY <1>0, <1>2, <2>0, <4>1 DEF Ahead, FilesInv
      <4> QED
        BY <1>0, <2>0, <4>1, <4>2
    <3>2. CASE ~Replaced
      <4>1. open' = open /\ pos' = Furthest
        BY <1>10, <3>2 DEF Drain
      <4>2. CASE f > open
        BY <4>2
      <4>3. CASE f = open /\ (k > pos' \/ Len(content[open]) < pos')
        <5>1. k <= Len(content[open])
          BY <1>1, <1>2, <2>0, <4>3
        <5> QED
          BY <1>0, <1>1, <2>0, <4>1, <4>3, <5>1 DEF Furthest
      <4> QED
        BY <1>2, <2>0, <4>1, <4>2, <4>3 DEF Ahead
    <3> QED
      BY <3>1, <3>2
  <2>4. Ahead(f, k)
    BY <2>0, <2>3 DEF Ahead
  <2>5. CASE j \in DOMAIN Taken
    BY <1>0, <1>2, <2>0, <2>1, <2>4, <2>5 DEF AheadIsNew
  <2>6. CASE j \notin DOMAIN Taken
    <3>0. Len(content[open]) \in Nat /\ j \in 1..Len(Taken') /\ ~(j \in 1..Len(Taken))
      BY <1>1, <2>0, <2>2, <2>6
    <3>1. rest > 0 /\ j - Len(Taken) \in 1..rest /\ Len(Taken) + (j - Len(Taken)) = j
      BY <1>0, <2>1, <2>2, <3>0
    <3>2. pos + (j - Len(Taken)) \in DOMAIN content[open]
      BY <1>0, <1>1, <2>0, <2>2, <3>0, <3>1
    <3>3. Taken'[j] = content[open][pos + (j - Len(Taken))]
      BY <2>1, <3>1
    <3>4. f > open
      BY <1>0, <2>3, <3>0, <3>1
    <3> QED
      BY <1>0, <1>2, <2>0, <3>2, <3>3, <3>4 DEF FilesInv
  <2> QED
    BY <2>5, <2>6
<1> QED
  BY <1>4, <1>5, <1>6, <1>7, <1>8, <1>9, <1>10 DEF Next, Game, Follower, IdleStep, Returns, Goto

LEMMA ReplacedKept ==
  ASSUME FollowInv, [Next]_vars, clean', pc' # "returned"
  PROVE  ReplacedIsGone'
<1> USE NoneIsNoFile
<1>0. /\ TypeOK /\ Opened /\ FilesInv /\ ReplacedIsGone
      /\ files \in Nat
      /\ open # None => open \in Nat
      /\ path # None => path \in File
  BY Running
<1>1. CASE Game
  <2>1. UNCHANGED <<pc, pst, open>>
    BY <1>1, GameStays
  <2>2. path' = path \/ path' = None \/ path' = files + 1
    BY <1>1 DEF Game, GameWrites, Rotates, Creates, Cuts, Exits, disk
  <2>3. open # None => open <= files
    BY <1>0 DEF FilesInv
  <2>4. path # open /\ open # None => path' # open
    BY <1>0, <2>2, <2>3
  <2>5. path # open /\ open # None /\ hidden' => hidden
    BY <1>1 DEF Game, GameWrites, Rotates, Creates, Cuts, Exits
  <2> QED
    BY <1>0, <2>1, <2>4, <2>5 DEF ReplacedIsGone, Replaced, Opened
<1>2. CASE Stat
  <2>1. UNCHANGED <<path, open>>
    BY <1>2 DEF Stat, disk
  <2>2. pc' = "fstat" => /\ open # None
                         /\ pst' = IF path = None THEN None ELSE StatOf(path)
    BY <1>2 DEF Stat, EndStep, Goto
  <2>3. StatOf(path).file = path
    BY DEF StatOf
  <2>4. pc' = "fstat" /\ Replaced' => path # open
    <3>1. CASE path = None
      BY <2>2, <3>1
    <3>2. CASE path # None
      <4>1. StatOf(path) \in [file : File, size : Nat, same : BOOLEAN]
        BY <1>0, <3>2, LenProperties DEF StatOf, TypeOK, DiskTyped, FlagsTyped
      <4>2. StatOf(path) # None
        BY <4>1
      <4> QED
        BY <2>1, <2>2, <2>3, <3>2, <4>2 DEF Replaced
    <3> QED
      BY <3>1, <3>2
  <2>5. pc' # "drain"
    BY <1>2 DEF Stat, EndStep, Goto
  <2> QED
    BY <2>1, <2>4, <2>5 DEF ReplacedIsGone
<1>3. CASE Open
  <2>1. CASE path = None
    BY <1>3, <2>1 DEF Open, EndStep, Goto, ReplacedIsGone
  <2>2. CASE path # None
    <3>1. path = pst.file /\ open' = path /\ pst' = pst /\ pst # None
      BY <1>0, <1>3, <2>2, CleanWas DEF Open, Opened
    <3> QED
      BY <3>1 DEF ReplacedIsGone, Replaced
  <2> QED
    BY <2>1, <2>2
<1>4. CASE Fstat
  BY <1>0, <1>4 DEF Fstat, Goto, ReplacedIsGone, Replaced, disk
<1>5. CASE Drain \/ Select
  BY <1>5 DEF Drain, Select, EndStep, Goto, ReplacedIsGone
<1>6. CASE Supervisor \/ UNCHANGED vars
  <2>1. UNCHANGED <<pst, path, open, hidden>> /\ (pc' = pc \/ pc' \in {"stat", "off"})
    BY <1>6 DEF Supervisor, TakeSnapshot, LaunchGame, StartFollowers, WaitReturns,
         WatchEnds, StopFollowers, Stopped, vars, disk, follower, super
  <2> QED
    BY <1>0, <2>1 DEF ReplacedIsGone, Replaced
<1> QED
  BY <1>1, <1>2, <1>3, <1>4, <1>5, <1>6 DEF Next, Follower, Returns, Goto

\* Where the bytes behind the position are when the follower opens a file.
LEMMA OffsetIs ==
  ASSUME FollowInv, Open, path # None, path = pst.file
  PROVE  /\ Offset \in Nat
         /\ Offset > 0 => /\ stale # None /\ stale.file = path /\ Offset = stale.size
                          /\ out = <<>> /\ partial = <<>>
         /\ ~hidden => /\ Offset <= Len(content[path])
                       /\ \A k \in 1..Offset : content[path][k].n = 0
<1>1. /\ SnapshotInv /\ TypeOK /\ path \in File /\ content[path] \in Seq(Byte)
      /\ stale # None => stale.size \in Nat
  BY Typed DEF FollowInv
<1>2. Len(content[path]) \in Nat
  BY <1>1, BytesOf
<1>3. CASE stale # None /\ stale.file = pst.file /\ pst.size >= stale.size
  BY <1>1, <1>3 DEF Offset, SnapshotInv
<1>4. CASE ~(stale # None /\ stale.file = pst.file /\ pst.size >= stale.size)
  BY <1>1, <1>2, <1>4 DEF Offset
<1> QED
  BY <1>3, <1>4

LEMMA BehindKept ==
  ASSUME FollowInv, [Next]_vars, clean', pc' # "returned"
  PROVE  BehindIsTaken'
<1> USE NoneIsNoFile
<1>0. /\ TypeOK /\ Opened /\ FilesInv /\ TakenInv /\ BehindIsTaken /\ ReplacedIsGone
      /\ pos \in Nat
      /\ out \in Seq(Byte) /\ partial \in Seq(Byte) /\ Taken \in Seq(Byte)
      /\ open # None => open \in File
      /\ path # None => path \in File
      /\ \A f \in File : f \in Nat /\ content[f] \in Seq(Byte)
  BY Running
<1>1. \A f \in File : Len(content[f]) \in Nat /\ DOMAIN content[f] = 1..Len(content[f])
  BY <1>0, BytesOf
<1>2. CASE GameWrites
  <2>1. UNCHANGED <<open, pos, Taken, hidden>>
    BY <1>2, GameStays DEF GameWrites, Game
  <2>2. \A f \in File : /\ Len(content'[f]) \in Nat /\ Len(content[f]) <= Len(content'[f])
                        /\ \A k \in 1..Len(content[f]) : content'[f][k] = content[f][k]
    <3> TAKE f \in File
    <3>1. content'[f] = content[f] \/ Len(content'[f]) = Len(content[f]) + 1
      BY <1>0, <1>2, WriteAppends
    <3>2. \A k \in DOMAIN content[f] : content'[f][k] = content[f][k]
      BY <1>0, <1>2, WriteAppends
    <3> QED
      BY <1>1, <3>1, <3>2
  <2> QED
    BY <1>0, <1>1, <2>1, <2>2 DEF BehindIsTaken
<1>3. CASE Cuts
  <2>1. UNCHANGED <<open, pos, Taken>> /\ path \in File
    BY <1>0, <1>3, GameStays DEF Cuts, Game
  <2>2. path = open \/ hidden => hidden'
    BY <1>3 DEF Cuts
  <2>3. open # None /\ path # open => content'[open] = content[open]
    BY <1>0, <1>3 DEF Cuts, TypeOK, DiskTyped
  <2> QED
    BY <1>0, <2>1, <2>2, <2>3 DEF BehindIsTaken
<1>4. CASE Rotates \/ Creates \/ IdleStep
  <2>1. UNCHANGED <<content, open, pos, Taken, hidden>>
    BY <1>4, GameStays, IdleStays DEF Rotates, Creates, Game
  <2> QED
    BY <1>0, <2>1 DEF BehindIsTaken
<1>5. CASE Open
  <2>1. UNCHANGED <<content, hidden, Taken>> /\ open = None
    BY <1>0, <1>5 DEF Open, Opened, disk, Taken
  <2>2. CASE path = None
    BY <1>5, <2>1, <2>2 DEF Open, BehindIsTaken
  <2>3. CASE path # None
    <3>1. open' = path /\ pos' = Offset /\ path = pst.file
      BY <1>5, <2>3, CleanWas DEF Open
    <3> QED
      BY <1>5, <2>1, <2>3, <3>1, OffsetIs DEF BehindIsTaken
  <2> QED
    BY <2>2, <2>3
<1>6. CASE Fstat
  <2>1. UNCHANGED <<content, open>> /\ ~hidden' /\ ~Escaped /\ open # None
    BY <1>0, <1>6, CleanWas DEF Fstat, disk, Opened
  <2>2. CASE pos' = 0
    BY <1>0, <1>1, <2>1, <2>2 DEF BehindIsTaken
  <2>3. CASE ~(Len(content[open]) < pos) /\ pos > 0 /\ UNCHANGED <<Taken, pos>>
    <3>1. ~hidden
      BY <1>0, <1>1, <2>1, <2>3 DEF Escaped
    <3> QED
      BY <1>0, <2>1, <2>3, <3>1 DEF BehindIsTaken
  <2> QED
    BY <1>0, <1>6, <2>2, <2>3, OtherTakes
<1>7. CASE Drain
  <2>1. CASE Replaced
    BY <1>7, <2>1 DEF Drain, BehindIsTaken
  <2>2. CASE ~Replaced
    <3>1. /\ open \in File /\ Reads /\ open # None /\ pos' = Furthest
          /\ UNCHANGED <<content, open, hidden>>
      BY <1>0, <1>7, <2>2 DEF Drain, Opened, disk
    <3> SUFFICES ASSUME ~hidden
                 PROVE  /\ pos' <= Len(content[open])
                        /\ \A k \in 1..pos' : content[open][k].n \in Writes(Taken') \cup {0}
      BY <3>1 DEF BehindIsTaken
    <3> DEFINE c == content[open]
    <3>2. pos <= Len(c) /\ Len(c) \in Nat /\ \A k \in 1..pos : c[k].n \in Writes(Taken) \cup {0}
      BY <1>0, <1>1, <3>1 DEF BehindIsTaken
    <3>3. pos' = Len(c)
      BY <1>0, <3>1, <3>2 DEF Furthest
    <3>4. /\ Writes(Taken) \subseteq Writes(Taken')
          /\ \A k \in 1..Len(c) : k > pos => c[k].n \in Writes(Taken') \cup {0}
      BY <1>0, <1>1, <3>1, DrainGains
    <3>5. \A k \in 1..Len(c) : k \in 1..pos \/ k > pos
      BY <1>0, <3>2
    <3> QED
      BY <3>2, <3>3, <3>4, <3>5
  <2> QED
    BY <2>1, <2>2
<1> QED
  BY <1>2, <1>3, <1>4, <1>5, <1>6, <1>7 DEF Next, Game, Follower, IdleStep, Returns, Goto

LEMMA PartialKept ==
  ASSUME FollowInv, [Next]_vars, clean', pc' # "returned"
  PROVE  PartialEnds'
<1> USE NoneIsNoFile
<1>0. /\ TypeOK /\ Opened /\ FilesInv /\ ReplacedIsGone /\ BehindIsTaken /\ PartialEnds
      /\ pos \in Nat /\ partial \in Seq(Byte)
      /\ open # None => open \in File
      /\ path # None => path \in File
      /\ \A f \in File : f \in Nat /\ content[f] \in Seq(Byte)
  BY Running
<1>1. \A f \in File : Len(content[f]) \in Nat /\ DOMAIN content[f] = 1..Len(content[f])
  BY <1>0, BytesOf
<1>2. CASE GameWrites
  <2>1. UNCHANGED <<open, pos, partial, hidden, torn>>
    BY <1>2, GameStays DEF GameWrites, Game
  <2>2. \A f \in File : \A k \in DOMAIN content[f] : content'[f][k] = content[f][k]
    BY <1>0, <1>2, WriteAppends
  <2>3. open # None /\ pos # 0 /\ ~hidden => pos \in DOMAIN content[open]
    BY <1>0, <1>1 DEF BehindIsTaken
  <2> QED
    BY <1>0, <2>1, <2>2, <2>3 DEF PartialEnds, Ended
<1>3. CASE Cuts
  <2>1. UNCHANGED <<open, pos, partial, torn>>
    BY <1>3, GameStays DEF Cuts, Game
  <2>2. path = open \/ hidden => hidden'
    BY <1>3 DEF Cuts
  <2>3. open # None /\ path # open => content'[open] = content[open]
    BY <1>0, <1>3 DEF Cuts, TypeOK, DiskTyped
  <2> QED
    BY <1>0, <2>1, <2>2, <2>3 DEF PartialEnds, Ended
<1>4. CASE Rotates \/ Creates \/ IdleStep
  <2>1. UNCHANGED <<content, open, pos, partial, hidden>> /\ torn \subseteq torn'
    BY <1>4, GameStays, IdleStays DEF Rotates, Creates, Game
  <2> QED
    BY <1>0, <2>1 DEF PartialEnds, Ended
<1>5. CASE Open
  <2>1. UNCHANGED <<content, hidden, partial, torn>> /\ open = None
    BY <1>0, <1>5 DEF Open, Opened, disk
  <2>2. CASE path = None
    BY <1>0, <1>5, <2>1, <2>2 DEF Open, PartialEnds, Ended
  <2>3. CASE path # None
    <3>1. open' = path /\ pos' = Offset /\ path = pst.file
      BY <1>5, <2>3, CleanWas DEF Open
    <3>2. Offset \in Nat /\ (Offset > 0 => partial = <<>>)
      BY <1>5, <2>3, <3>1, OffsetIs
    <3>3. partial' # <<>> => pos' = 0 /\ Ended(Last(partial))
      BY <1>0, <2>1, <3>1, <3>2 DEF PartialEnds
    <3> QED
      BY <2>1, <3>3 DEF PartialEnds, Ended
  <2> QED
    BY <2>2, <2>3
<1>6. CASE Fstat
  <2>1. UNCHANGED <<content, open, torn>> /\ ~Escaped /\ open # None
    BY <1>0, <1>6, CleanWas DEF Fstat, disk, Opened
  <2>2. CASE partial' = <<>>
    BY <2>2 DEF PartialEnds
  <2>3. CASE ~(Len(content[open]) < pos) /\ UNCHANGED <<partial, pos>>
    <3>1. pos # 0 => ~hidden
      BY <1>0, <1>1, <2>1, <2>3 DEF Escaped
    <3> QED
      BY <1>0, <2>1, <2>3, <3>1 DEF PartialEnds, Ended
  <2> QED
    BY <1>0, <1>6, <2>2, <2>3, OtherTakes
<1>7. CASE Drain
  <2>1. /\ open \in File /\ Reads /\ open # None /\ pc = "drain"
        /\ UNCHANGED <<content, hidden, torn, path>> /\ ~Escaped
    BY <1>0, <1>7, CleanWas DEF Drain, Opened, disk
  <2> DEFINE c == content[open]
             rest == Len(c) - pos
  <2>2. /\ partial' # <<>> => Last(partial') = IF rest > 0 THEN Last(c) ELSE Last(partial)
        /\ partial' # <<>> /\ rest <= 0 => partial # <<>>
    BY <1>0, <2>1, DrainTakes
  <2>3. Len(c) \in Nat /\ rest \in Int /\ (rest > 0 => c # <<>>)
    BY <1>0, <1>1, <2>1, EmptySeq
  <2> SUFFICES ASSUME partial' # <<>>
               PROVE  PartialEnds'
    BY DEF PartialEnds
  <2>4. CASE Replaced
    <3>1. open' = None /\ path # open /\ ~hidden
      BY <1>0, <1>7, <2>1, <2>4 DEF Drain, ReplacedIsGone
    <3>2. c # <<>> => Ended(Last(c))
      BY <1>0, <2>1, <3>1 DEF FilesInv
    <3>3. CASE rest > 0
      BY <2>1, <2>2, <2>3, <3>1, <3>2, <3>3 DEF PartialEnds, Ended
    <3>4. CASE rest <= 0
      <4>1. partial # <<>> /\ Last(partial') = Last(partial)
        BY <2>2, <2>3, <3>4
      <4>2. CASE pos = 0
        BY <1>0, <2>1, <3>1, <4>1, <4>2 DEF PartialEnds, Ended
      <4>3. CASE pos # 0
        <5>1. pos = Len(c)
          BY <1>0, <2>1, <2>3, <3>1, <3>4 DEF BehindIsTaken
        <5>2. c # <<>>
          BY <1>0, <2>1, <4>3, <5>1, EmptySeq
        <5>3. c[pos] = Last(partial)
          BY <1>0, <2>1, <3>1, <4>1, <4>3 DEF PartialEnds
        <5>4. Last(partial) = Last(c)
          BY <5>1, <5>3 DEF Last
        <5> QED
          BY <2>1, <3>1, <3>2, <4>1, <5>2, <5>4 DEF PartialEnds, Ended
      <4> QED
        BY <4>2, <4>3
    <3> QED
      BY <2>3, <3>3, <3>4
  <2>5. CASE ~Replaced
    <3>1. open' = open /\ pos' = Furthest
      BY <1>7, <2>5 DEF Drain
    <3>2. CASE rest > 0
      <4>1. pos' = Len(c) /\ Last(partial') = Last(c) /\ pos' # 0
        BY <1>0, <2>2, <2>3, <3>1, <3>2 DEF Furthest
      <4> QED
        BY <2>1, <3>1, <4>1 DEF PartialEnds, Last
    <3>3. CASE rest <= 0
      <4>1. pos' = pos /\ partial # <<>> /\ Last(partial') = Last(partial)
        BY <1>0, <2>2, <2>3, <3>1, <3>3 DEF Furthest
      <4> QED
        BY <1>0, <2>1, <3>1, <4>1 DEF PartialEnds, Ended
    <3> QED
      BY <2>3, <3>2, <3>3
  <2> QED
    BY <2>4, <2>5
<1> QED
  BY <1>2, <1>3, <1>4, <1>5, <1>6, <1>7 DEF Next, Game, Follower, IdleStep, Returns, Goto

LEMMA CopyKept ==
  ASSUME FollowInv, [Next]_vars
  PROVE  CopyInv'
  BY OrderKept, AheadKept, ReplacedKept, BehindKept, PartialKept DEF CopyInv

-----------------------------------------------------------------------------
(* The last drain.                                                         *)

LEMMA UnreadIs ==
  \A d : d \in Unread <=>
    /\ Followed # None
    /\ \E k \in DOMAIN content[Followed] : Ahead(Followed, k) /\ content[Followed][k].n = d
  BY DEF Unread

\* The follower is stopped: everything in its file is taken, ahead or lost.
LEMMA DueAtStop ==
  ASSUME FollowInv, WaitReturns \/ WatchEnds
  PROVE  DueInv'
<1> USE NoneIsNoFile
<1>0. /\ TypeOK /\ EndInv /\ CopyInv
      /\ pos \in Nat /\ Taken \in Seq(Byte)
      /\ \A f \in File : content[f] \in Seq(Byte)
      /\ open # None => open \in File
      /\ path # None => path \in File
  BY Typed DEF FollowInv
<1>1. /\ UNCHANGED <<disk, follower, hidden, clean>> /\ ~cancelled
      /\ due' = IF Followed = None THEN {} ELSE Writes(content[Followed])
  BY DEF WaitReturns, WatchEnds, StopFollowers, cancelled
<1>2. /\ Unread' = Unread /\ Taken' = Taken /\ Escaping' = Escaping
      /\ UNCHANGED <<pc, open, pos, final, content>>
  BY <1>1 DEF Unread, Followed, Ahead, Taken, Escaping, Escaped, disk, follower
<1>3. ~final /\ pc # "returned"
  BY <1>0, <1>1 DEF EndInv
<1>4. Followed # None => content[Followed] \in Seq(Byte)
  BY <1>0 DEF Followed
<1>5. 0 \notin due'
  BY <1>1 DEF Writes
<1>6. ASSUME clean, ~(open # None /\ Escaped), NEW d \in due'
      PROVE  d \in Writes(Taken) \cup Unread
  <2>1. Followed # None /\ d \in Writes(content[Followed])
    BY <1>1, <1>6
  <2>2. PICK k \in DOMAIN content[Followed] : content[Followed][k].n = d /\ d # 0
    BY <1>4, <2>1, WritesAre
  <2>3. CASE Ahead(Followed, k)
    BY <2>1, <2>2, <2>3, UnreadIs
  <2>4. CASE ~Ahead(Followed, k)
    <3>1. open # None /\ Followed = open
      BY <2>4 DEF Ahead, Followed
    <3>2. /\ Len(content[open]) \in Nat /\ k \in 1..Len(content[open])
      BY <1>0, <2>2, <3>1, BytesOf
    <3>3. k <= pos /\ pos <= Len(content[open])
      BY <1>0, <2>4, <3>1, <3>2 DEF Ahead
    <3>4. ~hidden
      BY <1>0, <1>6, <3>1, <3>2, <3>3 DEF Escaped
    <3>5. content[open][k].n \in Writes(Taken) \cup {0}
      BY <1>0, <1>3, <1>6, <3>1, <3>2, <3>3, <3>4 DEF CopyInv, BehindIsTaken
    <3> QED
      BY <2>2, <3>1, <3>5
  <2> QED
    BY <2>3, <2>4
<1>7. open # None => due' = Writes(content[open])
  BY <1>0, <1>1 DEF Followed
<1>8. clean => due' \subseteq Writes(Taken) \cup Unread \cup Escaping
  BY <1>6, <1>7 DEF Escaping
<1> QED
  BY <1>1, <1>2, <1>3, <1>5, <1>7, <1>8 DEF DueInv

LEMMA WritesJoin ==
  ASSUME NEW s \in Seq(Byte), NEW t \in Seq(Byte)
  PROVE  Writes(s \o t) = Writes(s) \cup Writes(t)
<1>1. /\ s \o t \in Seq(Byte) /\ Len(s \o t) = Len(s) + Len(t)
      /\ \A k \in 1..Len(s) + Len(t) : (s \o t)[k] =
            IF k <= Len(s) THEN s[k] ELSE t[k - Len(s)]
  BY ConcatProperties
<1>2. /\ Len(s) \in Nat /\ DOMAIN s = 1..Len(s)
      /\ Len(t) \in Nat /\ DOMAIN t = 1..Len(t)
      /\ DOMAIN (s \o t) = 1..Len(s \o t)
  BY <1>1, BytesOf
<1> DEFINE u == s \o t
<1> HIDE DEF u
<1>3. /\ u \in Seq(Byte) /\ DOMAIN u = 1..Len(s) + Len(t)
      /\ \A k \in DOMAIN u : u[k] = IF k <= Len(s) THEN s[k] ELSE t[k - Len(s)]
  BY <1>1, <1>2 DEF u
<1>4. ASSUME NEW k \in DOMAIN u
      PROVE  (\E j \in DOMAIN s : s[j] = u[k]) \/ (\E j \in DOMAIN t : t[j] = u[k])
  <2>1. CASE k <= Len(s)
    BY <1>2, <1>3, <1>4, <2>1
  <2>2. CASE ~(k <= Len(s))
    <3>1. k - Len(s) \in DOMAIN t /\ u[k] = t[k - Len(s)]
      BY <1>2, <1>3, <1>4, <2>2
    <3> QED
      BY <3>1
  <2> QED
    BY <2>1, <2>2
<1>5. ASSUME NEW j \in DOMAIN s
      PROVE  j \in DOMAIN u /\ u[j] = s[j]
  BY <1>2, <1>3, <1>5
<1>6. ASSUME NEW j \in DOMAIN t
      PROVE  Len(s) + j \in DOMAIN u /\ u[Len(s) + j] = t[j]
  <2>1. /\ Len(s) + j \in 1..Len(s) + Len(t) /\ ~(Len(s) + j <= Len(s))
        /\ Len(s) + j - Len(s) = j
    BY <1>2, <1>6
  <2> QED
    BY <1>3, <2>1
<1>7. \A d : d \in Writes(u) <=> d # 0 /\ \E k \in DOMAIN u : u[k].n = d
  BY <1>3, WritesAre
<1>8. \A d : d \in Writes(s) <=> d # 0 /\ \E k \in DOMAIN s : s[k].n = d
  BY WritesAre
<1>9. \A d : d \in Writes(t) <=> d # 0 /\ \E k \in DOMAIN t : t[k].n = d
  BY WritesAre
<1>10. ASSUME NEW d \in Writes(u)
       PROVE  d \in Writes(s) \cup Writes(t)
  <2>1. PICK k \in DOMAIN u : u[k].n = d /\ d # 0
    BY <1>7, <1>10
  <2> QED
    BY <1>4, <1>8, <1>9, <2>1
<1>11. Writes(s) \subseteq Writes(u)
  BY <1>5, <1>7, <1>8
<1>12. Writes(t) \subseteq Writes(u)
  BY <1>6, <1>7, <1>9
<1>13. Writes(u) = Writes(s) \cup Writes(t)
  BY <1>10, <1>11, <1>12
<1> QED
  BY <1>13 DEF u

LEMMA TakenHolds == TypeOK => Writes(Taken) = Writes(out) \cup Writes(partial)
  BY Typed, WritesJoin DEF Taken

LEMMA OutGrows ==
  ASSUME TypeOK, open # None, Reads
  PROVE  Writes(out) \subseteq Writes(out')
<1> DEFINE read == partial \o SubSeq(content[open], pos + 1, Len(content[open]))
<1>1. /\ content[open] \in Seq(Byte) /\ pos \in Nat
      /\ partial \in Seq(Byte) /\ out \in Seq(Byte)
  BY Typed
<1>2. \A k \in pos + 1..Len(content[open]) : content[open][k] \in Byte
  BY <1>1, BytesOf
<1>3. SubSeq(content[open], pos + 1, Len(content[open])) \in Seq(Byte)
  BY <1>1, <1>2, SubSeqProperties, BytesOf
<1>4. read \in Seq(Byte)
  BY <1>1, <1>3, ConcatProperties
<1>5. PICK n \in WholeLines(read) : out' = out \o SubSeq(read, 1, n)
  BY DEF Reads
<1> HIDE DEF read
<1>6. n \in 0..Len(read) /\ \A k \in 1..n : read[k] \in Byte
  BY <1>4, <1>5, BytesOf DEF WholeLines
<1>7. SubSeq(read, 1, n) \in Seq(Byte)
  BY <1>4, <1>6, SubSeqProperties, BytesOf
<1> QED
  BY <1>1, <1>5, <1>7, WritesJoin

\* What the game does to the file being followed, due loses or keeps unread.
LEMMA DueInGame ==
  ASSUME FollowInv, Game
  PROVE  DueInv'
<1> USE NoneIsNoFile
<1> SUFFICES ASSUME clean', cancelled' PROVE DueInv'
  BY DEF DueInv
<1>0. /\ TypeOK /\ Opened /\ CopyInv /\ pos \in Nat
      /\ \A f \in File : content[f] \in Seq(Byte)
      /\ content \in [File -> Seq(Byte)]
      /\ open # None => open \in File
      /\ path # None => path \in File
  BY Typed DEF FollowInv, StaleInv, TypeOK, DiskTyped
<1>1. UNCHANGED <<pc, open, pos, out, partial, Taken, final>> /\ clean /\ cancelled
  BY GameStays, FollowerStays DEF cancelled, super
<1>2. /\ 0 \notin due
      /\ pc \notin {"off", "returned"} => due \subseteq Writes(Taken) \cup Unread \cup Escaping
      /\ open # None /\ Len(content[open]) < pos =>
           due \subseteq Writes(content[open]) \cup Writes(out)
      /\ final /\ pc = "drain" /\ hidden => due \subseteq Writes(out)
      /\ final /\ pc = "select" => due \subseteq Writes(Taken)
      /\ pc = "returned" => due \subseteq Writes(out)
  BY <1>1 DEF FollowInv, DueInv
<1>3. due' \subseteq due
  BY DEF Game, GameWrites, Rotates, Creates, Cuts, Exits
<1>4. open # None => pc \notin {"off", "returned"}
  BY <1>0 DEF Opened
<1>5. pc = "drain" => open # None
  BY <1>0 DEF Opened
<1>6. ASSUME NEW d \in due', d \in Unread, Followed # None
      PROVE  d \in Writes(content[Followed])
  BY <1>0, <1>2, <1>3, <1>6, UnreadIs, WritesAre DEF Followed
<1> SUFFICES /\ pc \notin {"off", "returned"} => due' \subseteq Writes(Taken) \cup Unread' \cup Escaping'
             /\ open # None /\ Len(content'[open]) < pos =>
                  due' \subseteq Writes(content'[open]) \cup Writes(out)
             /\ final /\ pc = "drain" /\ hidden' => due' \subseteq Writes(out)
  BY <1>1, <1>2, <1>3 DEF DueInv
<1>7. ASSUME UNCHANGED <<hidden, Followed>>, open # None => content'[open] = content[open],
             open # None \/ content' = content
      PROVE  Unread' = Unread /\ Escaping' = Escaping
  <2>1. Followed # None => content'[Followed] = content[Followed]
    BY <1>7 DEF Followed
  <2>2. Followed # None => \A k : Ahead(Followed, k)' <=> Ahead(Followed, k)
    BY <1>1, <1>7 DEF Ahead, Followed
  <2> QED
    BY <1>1, <1>7, <2>1, <2>2 DEF Unread, Escaping, Escaped
<1>8. CASE GameWrites
  <2>1. UNCHANGED <<path, hidden, due, Followed>>
    BY <1>1, <1>8 DEF GameWrites, Followed
  <2>2. \A f \in File : /\ Len(content'[f]) \in Nat /\ Len(content[f]) \in Nat
                        /\ Len(content[f]) <= Len(content'[f])
                        /\ DOMAIN content[f] = 1..Len(content[f])
                        /\ content'[f] \in Seq(Byte)
                        /\ \A k \in DOMAIN content[f] :
                             k \in DOMAIN content'[f] /\ content'[f][k] = content[f][k]
    <3> TAKE f \in File
    <3>1. content'[f] = content[f] \/ Len(content'[f]) = Len(content[f]) + 1
      BY <1>0, <1>8, WriteAppends
    <3>2. \A k \in DOMAIN content[f] : content'[f][k] = content[f][k]
      BY <1>0, <1>8, WriteAppends
    <3>3. content[f] \in Seq(Byte) /\ content'[f] \in Seq(Byte)
      BY <1>0, <1>8, WriteAppends
    <3>4. /\ Len(content[f]) \in Nat /\ DOMAIN content[f] = 1..Len(content[f])
          /\ Len(content'[f]) \in Nat /\ DOMAIN content'[f] = 1..Len(content'[f])
      BY <3>3, BytesOf
    <3> QED
      BY <3>1, <3>2, <3>3, <3>4
  <2>3. \A f \in File : Writes(content[f]) \subseteq Writes(content'[f])
    BY <1>0, <2>2, WritesAre
  <2>4. ASSUME pc \notin {"off", "returned"}, NEW d \in due, d \in Unread
        PROVE  d \in Unread' \cup Escaping'
    <3>1. PICK k \in DOMAIN content[Followed] :
            Followed # None /\ Ahead(Followed, k) /\ content[Followed][k].n = d
      BY <2>4, UnreadIs
    <3>2. Followed \in File
      BY <1>0, <3>1 DEF Followed
    <3>3. k \in DOMAIN content'[Followed] /\ content'[Followed][k].n = d
      BY <2>2, <3>1, <3>2
    <3>4. CASE Ahead(Followed, k)'
      <4> DEFINE g == content'[Followed']
                 A == {j \in DOMAIN g : Ahead(Followed, j)'}
      <4>1. k \in A /\ g[k].n = d
        BY <2>1, <3>3, <3>4
      <4>2. Unread' = {g[i].n : i \in A}
        BY <2>1, <3>1 DEF Unread
      <4> HIDE DEF g, A
      <4> QED
        BY <4>1, <4>2
    <3>5. CASE ~Ahead(Followed, k)'
      <4>1. open # None /\ Followed = open
        BY <1>1, <2>1, <3>1, <3>5 DEF Ahead, Followed
      <4>2. Len(content[open]) < pos /\ ~(Len(content'[open]) < pos)
        BY <1>1, <2>1, <3>1, <3>2, <3>5, <4>1 DEF Ahead, Followed, File
      <4>3. hidden
        BY <1>0, <1>1, <2>2, <2>4, <3>2, <4>1, <4>2 DEF CopyInv, BehindIsTaken
      <4>4. Escaped'
        BY <1>0, <1>1, <2>1, <2>2, <3>2, <4>1, <4>2, <4>3 DEF Escaped
      <4>5. d \in Writes(content'[open])
        BY <1>2, <2>2, <2>4, <3>2, <3>3, <4>1, WritesAre
      <4> QED
        BY <1>1, <4>1, <4>4, <4>5 DEF Escaping
    <3> QED
      BY <3>4, <3>5
  <2>5. ASSUME NEW d \in Escaping
        PROVE  d \in Escaping'
    <3>1. open # None /\ Escaped /\ d \in Writes(content[open]) /\ open \in File
      BY <1>0, <2>5 DEF Escaping
    <3>2. Escaped'
      BY <1>0, <1>1, <2>1, <2>2, <3>1 DEF Escaped
    <3> QED
      BY <1>1, <2>3, <3>1, <3>2 DEF Escaping
  <2>6. open # None /\ Len(content'[open]) < pos => Len(content[open]) < pos
    BY <1>0, <2>2
  <2> QED
    BY <1>0, <1>2, <2>1, <2>3, <2>4, <2>5, <2>6
<1>9. CASE Rotates \/ Creates
  <2>1. UNCHANGED <<content, hidden>> /\ due' \subseteq due
    BY <1>3, <1>9 DEF Rotates, Creates
  <2>2. CASE open # None
    <3>1. Followed' = Followed
      BY <1>1, <2>2 DEF Followed
    <3> QED
      BY <1>2, <1>7, <2>1, <2>2, <3>1
  <2>3. CASE open = None /\ Rotates
    <3>1. Followed = path /\ path # None /\ due' = due \ Writes(content[path])
      BY <2>3 DEF Rotates, Followed
    <3>2. Escaping = {}
      BY <2>3 DEF Escaping
    <3> QED
      BY <1>2, <1>5, <1>6, <2>1, <2>3, <3>1, <3>2
  <2>4. CASE open = None /\ Creates
    <3>1. Unread = {} /\ Escaping = {}
      BY <2>4 DEF Creates, Unread, Escaping, Followed
    <3> QED
      BY <1>2, <1>5, <2>1, <2>4, <3>1
  <2> QED
    BY <1>9, <2>2, <2>3, <2>4
<1>10. CASE Cuts
  <2>1. /\ path \in File /\ path' = path /\ path # None
        /\ \A f \in File : f # path => content'[f] = content[f]
        /\ due' = due \ (Writes(content[path]) \cup (IF open = path THEN Writes(partial) ELSE {}))
    BY <1>0, <1>10 DEF Cuts
  <2>2. CASE open = path
    <3>1. Followed = path /\ pc \notin {"off", "returned"}
      BY <1>4, <2>1, <2>2 DEF Followed
    <3>2. ASSUME NEW d \in due' PROVE d \in Writes(out)
      <4>1. d \notin Writes(content[path]) /\ d \notin Writes(partial) /\ d \in due
        BY <2>1, <2>2, <3>2
      <4>2. d \notin Unread
        BY <1>6, <2>1, <3>1, <3>2, <4>1
      <4>3. d \notin Escaping
        BY <2>2, <4>1 DEF Escaping
      <4> QED
        BY <1>0, <1>2, <3>1, <4>1, <4>2, <4>3, TakenHolds
    <3> QED
      BY <1>0, <3>2, TakenHolds
  <2>3. CASE open # path /\ open # None
    <3>1. hidden' = hidden
      BY <1>0, <1>10, <2>3 DEF Cuts, TypeOK, FlagsTyped
    <3>2. Followed' = Followed /\ content'[open] = content[open]
      BY <1>0, <1>1, <2>1, <2>3 DEF Followed
    <3> QED
      BY <1>2, <1>3, <1>7, <2>3, <3>1, <3>2
  <2>4. CASE open = None
    <3>1. Followed = path /\ Escaping = {}
      BY <2>4 DEF Followed, Escaping
    <3> QED
      BY <1>2, <1>5, <1>6, <2>1, <2>4, <3>1
  <2> QED
    BY <2>2, <2>3, <2>4
<1>11. CASE Exits
  <2>1. UNCHANGED <<content, hidden, due, Followed>>
    BY <1>11 DEF Exits, disk, follower, Followed
  <2> QED
    BY <1>2, <1>7, <2>1
<1> QED
  BY <1>8, <1>9, <1>10, <1>11 DEF Game

LEMMA DueKept ==
  ASSUME FollowInv, [Next]_vars
  PROVE  DueInv'
<1> USE NoneIsNoFile
<1>0. /\ TypeOK /\ Opened /\ FilesInv /\ SnapshotInv /\ EndInv /\ CopyInv
      /\ pos \in Nat /\ Taken \in Seq(Byte) /\ out \in Seq(Byte)
      /\ \A f \in File : content[f] \in Seq(Byte)
      /\ open # None => open \in File
      /\ path # None => path \in File
  BY Typed DEF FollowInv, StaleInv
<1>1. \A f \in File : /\ Len(content[f]) \in Nat /\ DOMAIN content[f] = 1..Len(content[f])
  BY <1>0, BytesOf
<1>2. CASE WaitReturns \/ WatchEnds
  BY <1>2, DueAtStop
<1>3. CASE Game
  BY <1>3, DueInGame
<1>4. CASE ~(WaitReturns \/ WatchEnds \/ Game)
  <2> SUFFICES ASSUME clean', cancelled'
               PROVE  DueInv'
    BY DEF DueInv
  <2>1. /\ clean /\ cancelled /\ due' = due
        /\ ~TakeSnapshot /\ ~LaunchGame /\ ~StartFollowers
    <3>1. Follower => UNCHANGED super
      BY DEF Follower, Stat, Open, Fstat, Drain, Select, Returns
    <3>2. cancelled
      BY <1>4, <3>1 DEF Next, Supervisor, TakeSnapshot, LaunchGame, StartFollowers,
         Stopped, cancelled, super, vars
    <3>3. due' = due
      BY <1>4 DEF Next, Supervisor, TakeSnapshot, LaunchGame, StartFollowers,
         Stopped, Follower, Stat, Open, Fstat, Drain, Select, Returns, vars
    <3> QED
      BY <3>2, <3>3, CleanWas DEF cancelled, TakeSnapshot, LaunchGame, StartFollowers
  <2>2. /\ 0 \notin due
        /\ pc \notin {"off", "returned"} => due \subseteq Writes(Taken) \cup Unread \cup Escaping
        /\ open # None /\ Len(content[open]) < pos =>
             due \subseteq Writes(content[open]) \cup Writes(out)
        /\ final /\ pc = "drain" /\ hidden => due \subseteq Writes(out)
        /\ final /\ pc = "select" => due \subseteq Writes(Taken)
        /\ pc = "returned" => due \subseteq Writes(out)
    BY <2>1 DEF FollowInv, DueInv
  <2>0. Writes(out) \subseteq Writes(Taken)
    BY <1>0, TakenHolds
  <2>3. CASE Stopped \/ UNCHANGED vars
    <3>1. UNCHANGED <<disk, follower, hidden>>
      BY <2>3 DEF Stopped, vars
    <3>2. /\ Unread' = Unread /\ Taken' = Taken /\ Escaping' = Escaping
          /\ UNCHANGED <<pc, open, pos, final, content, out>>
      BY <3>1 DEF Unread, Followed, Ahead, Taken, Escaping, Escaped, disk, follower
    <3> QED
      BY <2>1, <2>2, <3>1, <3>2 DEF DueInv
  <2>4. CASE Stat
    <3>1. /\ Unread' = Unread /\ Taken' = Taken /\ Escaping' = Escaping
          /\ UNCHANGED <<open, pos, final, content, hidden, out>>
          /\ pc' \in {"select", "open", "fstat"} /\ pc = "stat"
      BY <2>4 DEF Stat, Unread, Followed, Ahead, Taken, Escaping, Escaped, disk, EndStep, Goto
    <3>2. pc' = "select" => due \subseteq Writes(Taken)
      <4> SUFFICES ASSUME pc' = "select", NEW d \in due
                   PROVE  d \in Writes(Taken)
        OBVIOUS
      <4>1. open = None /\ NothingNew(IF path = None THEN None ELSE StatOf(path))
        BY <2>4 DEF Stat, EndStep, Goto
      <4>2. CASE d \in Unread
        <5>1. PICK k \in DOMAIN content[path] : path # None /\ content[path][k].n = d
          BY <4>1, <4>2, UnreadIs DEF Followed
        <5>2. StatOf(path) # None
          <6>1. StatOf(path) \in [file : File, size : Nat, same : BOOLEAN]
            BY <1>0, <5>1, LenProperties DEF StatOf, TypeOK, DiskTyped, FlagsTyped
          <6> QED
            BY <6>1
        <5>3. stale # None /\ stale.file = path /\ ~touched
          BY <4>1, <5>1, <5>2 DEF NothingNew, StatOf
        <5>4. d = 0
          BY <1>0, <5>1, <5>3 DEF SnapshotInv
        <5> QED
          BY <2>2, <5>4
      <4> QED
        BY <2>2, <3>1, <4>1, <4>2 DEF Escaping
    <3> QED
      BY <2>1, <2>2, <3>1, <3>2 DEF DueInv
  <2>5. CASE Select
    <3>1. /\ Unread' = Unread /\ Taken' = Taken /\ Escaping' = Escaping
          /\ UNCHANGED <<open, pos, content, hidden, out>>
          /\ pc' = "stat" /\ pc = "select"
      BY <2>5 DEF Select, Unread, Followed, Ahead, Taken, Escaping, Escaped, disk, Goto
    <3> QED
      BY <2>1, <2>2, <3>1 DEF DueInv
  <2>6. CASE Returns
    <3>1. /\ pc = "select" /\ final /\ pc' = "returned" /\ open' = None
          /\ out' = Taken
      BY <1>0, <2>6, OtherTakes DEF Returns, Goto
    <3> QED
      BY <2>1, <2>2, <3>1 DEF DueInv
  <2>7. CASE Open
    <3>1. UNCHANGED <<content, path, hidden, Taken, final>> /\ open = None /\ pc = "open"
      BY <1>0, <2>7 DEF Open, Opened, disk, Taken
    <3>2. due \subseteq Writes(Taken) \cup Unread
      BY <2>2, <3>1 DEF Escaping
    <3>3. CASE path = None
      <4>1. Unread = {}
        BY <3>1, <3>3 DEF Unread, Followed
      <4>2. open' = None /\ pc' = "select"
        BY <2>7, <3>1, <3>3 DEF Open, EndStep, Goto
      <4> QED
        BY <2>1, <2>2, <3>1, <3>2, <4>1, <4>2 DEF DueInv
    <3>4. CASE path # None
      <4>1. open' = path /\ pos' = Offset /\ path = pst.file /\ pc' = "fstat"
        BY <2>7, <3>4, CleanWas DEF Open, Goto
      <4> DEFINE c == content[path]
      <4>2. /\ Offset \in Nat /\ (Offset > 0 => out = <<>> /\ partial = <<>>)
            /\ ~hidden => /\ Offset <= Len(c)
                          /\ \A k \in 1..Offset : c[k].n = 0
        BY <2>7, <3>4, <4>1, OffsetIs
      <4>3. ASSUME NEW d \in due, d \notin Writes(Taken)
            PROVE  \E k \in DOMAIN c : c[k].n = d
        BY <3>1, <3>2, <4>3, UnreadIs DEF Followed
      <4>4. Len(c) \in Nat /\ DOMAIN c = 1..Len(c) /\ c \in Seq(Byte)
        BY <1>0, <1>1, <3>4
      <4>5. Followed' = path
        BY <1>0, <3>4, <4>1 DEF Followed
      <4>6. ASSUME ~Escaped', NEW d \in due, d \notin Writes(Taken)
            PROVE  d \in Unread'
        <5>1. PICK k \in DOMAIN c : c[k].n = d
          BY <4>3, <4>6
        <5>2. k > Offset \/ Len(c) < Offset
          <6> SUFFICES ASSUME k <= Offset, Offset <= Len(c) PROVE FALSE
            BY <4>2, <4>4
          <6>1. Offset > 0
            BY <4>2, <4>4
          <6>2. ~hidden
            BY <3>1, <4>1, <4>2, <4>4, <4>6, <6>1 DEF Escaped
          <6> QED
            BY <2>2, <4>2, <4>4, <4>6, <5>1, <6>2
        <5>3. Ahead(path, k)'
          BY <3>1, <3>4, <4>1, <5>2 DEF Ahead
        <5>4. Followed' = path /\ path' = path /\ content' = content
          BY <3>1, <4>5
        <5>5. k \in {j \in DOMAIN content'[Followed'] : Ahead(Followed, j)'}
          BY <5>1, <5>3, <5>4 DEF Ahead
        <5>6. content'[Followed'][k].n = d
          BY <5>1, <5>4
        <5>7. Unread' = {content'[Followed'][i].n :
                           i \in {j \in DOMAIN content'[Followed'] : Ahead(Followed, j)'}}
          BY <3>4, <5>4 DEF Unread
        <5> DEFINE A == {j \in DOMAIN content'[Followed'] : Ahead(Followed, j)'}
                   g == content'[Followed']
        <5>8. k \in A /\ g[k].n = d /\ Unread' = {g[i].n : i \in A}
          BY <5>5, <5>6, <5>7
        <5> HIDE DEF A, g
        <5> QED
          BY <5>8
      <4>7. Len(c) < Offset => due \subseteq Writes(c)
        <5> SUFFICES ASSUME Len(c) < Offset, NEW d \in due PROVE d \in Writes(c)
          OBVIOUS
        <5>1. Taken = <<>>
          BY <4>2, <4>4, <1>0, TakenIs, EmptySeq
        <5>2. d \notin Writes(Taken)
          <6>1. Len(Taken) = 0 /\ DOMAIN Taken = 1..Len(Taken)
            BY <1>0, <5>1, EmptySeq, BytesOf
          <6>2. ~ \E k \in DOMAIN Taken : Taken[k].n = d
            BY <6>1
          <6>3. d \in Writes(Taken) <=> d # 0 /\ \E k \in DOMAIN Taken : Taken[k].n = d
            BY <1>0, WritesAre
          <6> QED
            BY <6>2, <6>3
        <5> QED
          BY <2>2, <4>3, <4>4, <5>2, WritesAre
      <4>8. due' \subseteq Writes(Taken') \cup Unread' \cup Escaping'
        <5> SUFFICES ASSUME NEW d \in due, d \notin Writes(Taken)
                     PROVE  d \in Unread' \cup Escaping'
          BY <2>1, <3>1
        <5>1. CASE ~Escaped'
          BY <4>6, <5>1
        <5>2. CASE Escaped'
          <6>1. d \in Writes(c)
            BY <2>2, <4>3, <4>4, WritesAre
          <6> QED
            BY <3>1, <3>4, <4>1, <5>2, <6>1 DEF Escaping
        <5> QED
          BY <5>1, <5>2
      <4> HIDE DEF c
      <4>9. open' # None /\ Len(content'[open']) < pos' => due' \subseteq Writes(content'[open'])
        BY <2>1, <3>1, <4>1, <4>7 DEF c
      <4> QED
        BY <2>1, <2>2, <3>1, <4>1, <4>8, <4>9 DEF DueInv
    <3> QED
      BY <3>3, <3>4
  <2>8. CASE Fstat
    <3>1. /\ UNCHANGED <<content, path, open, final>> /\ ~hidden' /\ ~Escaped /\ open # None
          /\ pc = "fstat" /\ pc' = "drain"
      BY <1>0, <2>8, CleanWas DEF Fstat, disk, Opened, Goto
    <3>2. due \subseteq Writes(Taken) \cup Unread
      BY <2>2, <3>1 DEF Escaping
    <3>3. CASE Len(content[open]) < pos /\ pos' = 0 /\ Taken' = out
      <4>1. due \subseteq Writes(content[open]) \cup Writes(out)
        BY <2>2, <3>1, <3>3
      <4>2. \A k \in DOMAIN content[open] : Ahead(open, k)'
        BY <1>0, <1>1, <3>1, <3>3 DEF Ahead
      <4>3. Followed' = open
        BY <3>1 DEF Followed
      <4>4. due \subseteq Unread' \cup Writes(Taken')
        <5> SUFFICES ASSUME NEW d \in due, d \in Writes(content[open]) PROVE d \in Unread'
          BY <3>3, <4>1
        <5>1. PICK k \in DOMAIN content[open] : content[open][k].n = d
          BY <1>0, <3>1, WritesAre
        <5> QED
          BY <3>1, <4>2, <4>3, <5>1 DEF Unread
      <4>5. ~(Len(content[open]) < pos')
        BY <1>0, <1>1, <3>1, <3>3
      <4> QED
        BY <2>1, <2>2, <3>1, <4>4, <4>5 DEF DueInv
    <3>4. CASE ~(Len(content[open]) < pos) /\ UNCHANGED <<Taken, pos>>
      <4>1. Unread' = Unread
        BY <3>1, <3>4 DEF Unread, Followed, Ahead
      <4> QED
        BY <2>1, <2>2, <3>1, <3>2, <3>4, <4>1 DEF DueInv
    <3> QED
      BY <1>0, <2>8, <3>3, <3>4, OtherTakes
  <2>9. CASE Drain
    <3>1. /\ open \in File /\ Reads /\ open # None /\ pc = "drain" /\ pc' = "select"
          /\ UNCHANGED <<content, hidden, path, final>> /\ ~Escaped
      BY <1>0, <2>9, CleanWas DEF Drain, Opened, disk, EndStep, Goto
    <3>2. /\ due \subseteq Writes(Taken) \cup Unread
          /\ BehindIsTaken /\ ReplacedIsGone
      BY <1>0, <2>1, <2>2, <3>1 DEF CopyInv, Escaping
    <3> DEFINE c == content[open]
    <3>3. Len(c) \in Nat /\ DOMAIN c = 1..Len(c)
      BY <1>1, <3>1
    <3>4. /\ Writes(Taken) \subseteq Writes(Taken')
          /\ \A k \in DOMAIN c : k > pos => c[k].n \in Writes(Taken') \cup {0}
      BY <1>0, <3>1, DrainGains
    <3>5. CASE Len(c) < pos
      <4>1. hidden
        BY <1>0, <3>1, <3>2, <3>3, <3>5 DEF BehindIsTaken
      <4>2. open' = open /\ pos' = pos
        BY <1>0, <2>9, <3>1, <3>2, <3>3, <3>5, <4>1 DEF Drain, ReplacedIsGone, Furthest
      <4>3. Unread' = Unread
        BY <3>1, <4>2 DEF Unread, Followed, Ahead
      <4>4. final => due \subseteq Writes(Taken')
        BY <2>0, <2>2, <3>1, <3>4, <4>1
      <4>5. Writes(out) \subseteq Writes(out')
        BY <1>0, <3>1, OutGrows
      <4> QED
        BY <2>1, <2>2, <3>1, <3>2, <3>4, <4>2, <4>3, <4>4, <4>5 DEF DueInv
    <3>6. CASE ~(Len(c) < pos)
      <4>1. due \subseteq Writes(Taken')
        <5> SUFFICES ASSUME NEW d \in due, d \in Unread PROVE d \in Writes(Taken')
          BY <3>2, <3>4
        <5>1. PICK k \in DOMAIN c : Ahead(open, k) /\ c[k].n = d
          BY <3>1, UnreadIs DEF Followed
        <5>2. k > pos
          BY <1>0, <3>1, <3>6, <5>1 DEF Ahead, File
        <5> QED
          BY <2>2, <3>4, <5>1, <5>2
      <4>2. open' # None => open' = open /\ ~(Len(c) < pos')
        BY <1>0, <2>9, <3>3, <3>6 DEF Drain, Furthest
      <4> QED
        BY <2>1, <2>2, <3>1, <4>1, <4>2 DEF DueInv
    <3> QED
      BY <3>5, <3>6
  <2> QED
    BY <1>4, <2>1, <2>3, <2>4, <2>5, <2>6, <2>7, <2>8, <2>9 DEF Next, Supervisor, Follower
<1> QED
  BY <1>2, <1>3, <1>4

LEMMA LogsInit == Init => FollowInv
<1> SUFFICES ASSUME Init PROVE FollowInv
  OBVIOUS
<1> USE NoneIsNoFile
<1>1. TypeOK /\ StaleInv
  BY FollowInit
<1>2. /\ \A f \in File : content[f] \in Seq(Byte) /\ f \in Nat
      /\ Taken = <<>> /\ Taken \in Seq(Byte)
  BY <1>1, Typed, ConcatEmptySeq, EmptySeq DEF Init, Taken
<1>3. /\ DOMAIN Taken = {} /\ Len(Taken) = 0
  BY <1>2, BytesOf, EmptySeq
<1>4. \A f \in File : DOMAIN content[f] = 1..Len(content[f]) /\ Len(content[f]) \in Nat
  BY <1>2, BytesOf
<1>5. \A f \in File : \A k \in DOMAIN content[f] :
         f = 1 /\ path = 1 /\ k = 1 /\ content[f][k] = OldByte
  <2>1. ASSUME NEW f \in File, content[f] = <<>>
        PROVE  DOMAIN content[f] = {}
    BY <1>4, <2>1, EmptySeq
  <2>2. CASE path = None
    BY <2>1, <2>2 DEF Init, File
  <2>3. CASE path # None
    <3>1. PICK n \in 0..1 : /\ path = 1
                            /\ content = [f \in File |-> IF f = 1 THEN [k \in 1..n |-> OldByte]
                                                                  ELSE <<>>]
      BY <2>3 DEF Init
    <3> QED
      BY <2>1, <3>1
  <2> QED
    BY <2>2, <2>3
<1>6. \A f \in File : \A k \in DOMAIN content[f] :
         f = 1 /\ path = 1 /\ k = 1 /\ content[f][k].n = 0 /\ content[f][k].nl
  BY <1>5 DEF OldByte
<1>7. FilesInv
  <2>1. path # None => path = files
    BY DEF Init
  <2>2. open = None /\ writes = 0 /\ (files = 0 \/ files = 1) /\ (path = 1 => files = 1)
    BY LogBounds DEF Init, File
  <2>3. ASSUME NEW f \in File
        PROVE  /\ Row(content[f])
               /\ \A k \in DOMAIN content[f] : content[f][k].n <= writes /\ f <= files
    BY <1>6, <2>2 DEF Row
  <2>4. ASSUME NEW f \in File, content[f] # <<>>
        PROVE  f = path /\ Last(content[f]).n = writes
    <3>1. Len(content[f]) \in DOMAIN content[f]
      BY <1>2, <2>4, BytesOf
    <3> QED
      BY <1>6, <2>2, <3>1 DEF Last
  <2>5. ASSUME NEW f \in File, NEW g \in File, f < g,
               NEW j \in DOMAIN content[f], NEW k \in DOMAIN content[g]
        PROVE  FALSE
    BY <1>2, <1>6, <2>5
  <2> QED
    BY <2>1, <2>2, <2>3, <2>4, <2>5 DEF FilesInv
<1>8. SnapshotInv /\ EndInv
  BY DEF Init, SnapshotInv, EndInv, cancelled
<1>9. TakenInv /\ CopyInv /\ DueInv
  BY <1>3 DEF Init, TakenInv, CopyInv, TakenInOrder, AheadIsNew, ReplacedIsGone,
     BehindIsTaken, PartialEnds, DueInv, Escaping, cancelled
<1> QED
  BY <1>1, <1>7, <1>8, <1>9 DEF FollowInv

LEMMA LogsKept == FollowInv /\ [Next]_vars => FollowInv'
<1> SUFFICES ASSUME FollowInv, [Next]_vars PROVE FollowInv'
  OBVIOUS
<1>1. (TypeOK /\ StaleInv)'
  BY TypesKept, StaleKept DEF FollowInv
<1>2. (FilesInv /\ SnapshotInv /\ EndInv /\ TakenInv)'
  BY FilesKept, SnapshotKept, EndKept, TakenKept DEF FollowInv, StaleInv
<1>3. CopyInv' /\ DueInv'
  BY CopyKept, DueKept
<1> QED
  BY <1>1, <1>2, <1>3 DEF FollowInv

\* The files, what was taken of them and what is due stay in step.
LEMMA LogsInStep == Spec => []FollowInv
<1>1. FollowInv /\ [Next]_vars => FollowInv'
  BY LogsKept
<1> QED
  BY <1>1, LogsInit, PTL DEF Spec

\* followFile: stdout gets lines whole, once, and in the order the game wrote
\* them, whatever it appends, rotates or truncates between the follower's
\* calls, until a cut escapes it.
THEOREM LinesInOrder == Spec => []CopiedInOrder
<1>1. ASSUME FollowInv
      PROVE  CopiedInOrder
  <2> SUFFICES ASSUME clean, NEW k \in 1..Len(out) - 1
               PROVE  Linked(out[k], out[k + 1])
    BY DEF CopiedInOrder, Linked
  <2>1. /\ Len(Taken) = Len(out) + Len(partial)
        /\ Len(out) \in Nat /\ Len(partial) \in Nat /\ DOMAIN out = 1..Len(out)
        /\ \A i \in DOMAIN out : Taken[i] = out[i]
    BY <1>1, TakenIs DEF FollowInv
  <2>2. k \in DOMAIN out /\ k + 1 \in DOMAIN out /\ k \in 1..Len(Taken) - 1
    BY <2>1
  <2> QED
    BY <1>1, <2>1, <2>2 DEF FollowInv, CopyInv, TakenInOrder
<1> QED
  BY <1>1, LogsInStep, PTL

\* followFile: what its position has passed in the open file is in stdout or
\* held back for the end of its line, through seeks, resets and reopened files.
THEOREM NothingIsSkipped == Spec => []NothingSkipped
<1>1. ASSUME FollowInv
      PROVE  NothingSkipped
  <2> DEFINE c == content[open]
             read == IF pos < Len(c) THEN pos ELSE Len(c)
  <2> SUFFICES ASSUME clean, open # None, ~hidden
               PROVE  Writes(SubSeq(c, 1, read)) \subseteq Writes(Taken)
    BY DEF NothingSkipped
  <2>1. c \in Seq(Byte) /\ Taken \in Seq(Byte) /\ pos \in Nat
    BY <1>1, Typed DEF FollowInv
  <2>2. pc # "returned"
    BY <1>1 DEF FollowInv, StaleInv, Opened, EndInv
  <2>3. pos <= Len(c) /\ \A k \in 1..pos : c[k].n \in Writes(Taken) \cup {0}
    BY <1>1, <2>2 DEF FollowInv, CopyInv, BehindIsTaken
  <2>4. Len(c) \in Nat /\ DOMAIN c = 1..Len(c) /\ \A k \in DOMAIN c : c[k] \in Byte
    BY <2>1, BytesOf
  <2>5. read = pos
    BY <2>1, <2>3, <2>4
  <2> HIDE DEF c
  <2>6. /\ SubSeq(c, 1, pos) \in Seq(Byte) /\ DOMAIN SubSeq(c, 1, pos) = 1..pos
        /\ \A k \in 1..pos : SubSeq(c, 1, pos)[k] = c[k]
    <3>1. \A k \in 1..pos : c[k] \in Byte
      BY <2>1, <2>3, <2>4
    <3>2. /\ SubSeq(c, 1, pos) \in Seq(Byte)
          /\ Len(SubSeq(c, 1, pos)) = IF 1 <= pos THEN pos - 1 + 1 ELSE 0
          /\ \A k \in 1..pos - 1 + 1 : SubSeq(c, 1, pos)[k] = c[1 + k - 1]
      BY <2>1, <3>1, SubSeqProperties
    <3>3. pos - 1 + 1 = pos /\ \A k \in 1..pos : 1 + k - 1 = k
      BY <2>1
    <3>4. Len(SubSeq(c, 1, pos)) = pos
      BY <2>1, <3>2
    <3>5. DOMAIN SubSeq(c, 1, pos) = 1..pos
      BY <3>2, <3>4, BytesOf
    <3>6. \A k \in 1..pos : SubSeq(c, 1, pos)[k] = c[1 + k - 1]
      BY <3>2, <3>3
    <3>7. ASSUME NEW k \in 1..pos PROVE SubSeq(c, 1, pos)[k] = c[k]
      <4>1. 1 + k - 1 = k
        BY <3>3
      <4> QED
        BY <3>6, <4>1
    <3> QED
      BY <3>2, <3>5, <3>7
  <2>7. Writes(SubSeq(c, 1, pos)) \subseteq Writes(Taken)
    <3> DEFINE s == SubSeq(c, 1, pos)
    <3> SUFFICES ASSUME NEW d \in Writes(s) PROVE d \in Writes(Taken)
      OBVIOUS
    <3>1. s \in Seq(Byte) /\ DOMAIN s = 1..pos /\ \A k \in 1..pos : s[k] = c[k]
      BY <2>6
    <3> HIDE DEF s
    <3>2. d # 0 /\ \E k \in DOMAIN s : s[k].n = d
      BY <3>1, WritesAre
    <3> QED
      BY <2>3, <3>1, <3>2
  <2> QED
    BY <2>5, <2>7
<1> QED
  BY <1>1, LogsInStep, PTL

\* StartTask's Wait goroutine stops the followers before it reports: when the
\* exit of a launched task is seen, all that was in the followed file when the
\* follower was stopped is in stdout, though the game may outlive its wrapper
\* and write, rotate and truncate meanwhile; but for what it cuts, or rotates
\* away unopened, before the last step, and unless the follower is given up on.
THEOREM DrainedThenReported == Spec => []DrainedBeforeReport
<1>1. ASSUME FollowInv
      PROVE  DrainedBeforeReport
  <2> SUFFICES ASSUME mode = "launched", reported, ~gaveUp, pc # "off", clean
               PROVE  due \subseteq Writes(out)
    BY DEF DrainedBeforeReport
  <2>1. sup = "done" /\ pc = "returned"
    BY <1>1 DEF FollowInv, EndInv
  <2> QED
    BY <1>1, <2>1 DEF FollowInv, DueInv, cancelled
<1> QED
  BY <1>1, LogsInStep, PTL
=============================================================================
