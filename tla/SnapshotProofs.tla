-------------------------- MODULE SnapshotProofs ---------------------------
(***************************************************************************)
(* The safety of the snapshotter, for any members, times, size of the      *)
(* write buffer and number of failures.                                    *)
(***************************************************************************)
EXTENDS Snapshot, SequenceTheorems, TLAPS

\* The images that the file and the writer hold.
Held == {written} \cup {buffered[i] : i \in 1 .. Len(buffered)}

IsRecord(op) == op.ty \notin {"update_clock", "sync"}

\* A record comes first in the list of a handler, which only runs before a leave; the time
\* of an event is news.  (update_clock makes its record when its turn comes.)
RecordsFirst(ops) ==
  \A i \in 1 .. Len(ops) : IsRecord(ops[i]) =>
    /\ i = 1 /\ ~ leaving
    /\ ops[i].ty = "Clock" => ops[i].of # "clock" /\ ops[i].time > last[ops[i].of]

\* What the open handle and a compaction under way say of the file.
Handles ==
  /\ ~ fh => buffered = <<>>
  /\ compaction \in {"remove", "rename", "reopen"} => ~ fh
  /\ compaction = "reopen" => exists
  /\ phase = "down" => ~ fh /\ todo = <<>> /\ compaction = "none"

\* No image has a time that the task has not seen.
Behind ==
  phase # "down" => /\ last["clock"] < clock
                    /\ \A im \in Held, c \in Clocks : im.last[c] <= last[c]

\* After a leave the task knows no members, and after a synced one nor does any image.
Forgotten == phase # "down" /\ leaving /\ ~ rejoin_after_leave => alive_nodes = {}
Gone ==
  left /\ ~ rejoin_after_leave => /\ phase # "down" => leaving
                                  /\ \A im \in Held : im.nodes = {}

IInv == /\ TypeOK /\ RecordsFirst(todo) /\ Handles
        /\ Behind /\ Forgotten /\ Gone /\ FileMatchesMemory

\* The initial state satisfies the invariant.
LEMMA InitIInv == Init => IInv
<1> SUFFICES ASSUME Init PROVE IInv
  OBVIOUS
<1> USE DEF Init
<1>1. TypeOK
  <2>1. Empty \in Image /\ last \in [Clocks -> Nat] /\ alive_nodes \in SUBSET Node
    BY DEF Image, Empty, NoTimes
  <2>2. buffered \in Seq(Image) /\ todo \in Seq(Op)
    OBVIOUS
  <2>3. phase \in Phase /\ compaction \in Syscall /\ clock \in Nat \ {0} /\ failures \in Nat
    BY DEF Phase, Syscall
  <2> QED
    BY <2>1, <2>2, <2>3, Zenon DEF TypeOK
<1>2. Held = {Empty}
  BY DEF Held
<1>3. RecordsFirst(todo) /\ Handles
  BY DEF RecordsFirst, Handles
<1>4. Behind /\ Forgotten /\ Gone
  BY <1>2 DEF Behind, Forgotten, Gone, Empty, NoTimes, Clocks
<1>5. FileMatchesMemory
  BY DEF FileMatchesMemory, Matches, Full, Empty
<1> QED
  BY <1>1, <1>3, <1>4, <1>5 DEF IInv

-----------------------------------------------------------------------------
(* What the file operations do to the images.                              *)

\* A flush to the end.
LEMMA FlushAll ==
  ASSUME NEW ims \in Seq(Image), Flushed(ims), buffered' = <<>>, written \in Image
  PROVE  /\ written' \in Image /\ torn' \in BOOLEAN /\ buffered' \in Seq(Image)
         /\ Held' \subseteq {written} \cup {ims[i] : i \in 1 .. Len(ims)}
         /\ Full' = IF ims = <<>> THEN written ELSE ims[Len(ims)]
<1>1. ims # <<>> => Len(ims) \in 1 .. Len(ims) /\ ims[Len(ims)] \in Image
  OBVIOUS
<1>2. written' = IF ims = <<>> THEN written ELSE ims[Len(ims)]
  BY DEF Flushed
<1>3. Held' = {written'}
  BY DEF Held
<1>4. Full' = written'
  BY DEF Full
<1>5. buffered' \in Seq(Image)
  OBVIOUS
<1>6. torn' \in BOOLEAN
  BY Zenon DEF Flushed
<1>7. written' \in Image /\ written' \in {written} \cup {ims[i] : i \in 1 .. Len(ims)}
  BY <1>1, <1>2
<1> QED
  BY <1>2, <1>3, <1>4, <1>5, <1>6, <1>7

\* A flush that stops before the end.
LEMMA FlushPart ==
  ASSUME NEW ims \in Seq(Image), NEW k \in 0 .. Len(ims) - 1, PartlyFlushed(ims, k),
         written \in Image, torn \in BOOLEAN
  PROVE  /\ written' \in Image /\ torn' \in BOOLEAN /\ buffered' \in Seq(Image)
         /\ Held' \subseteq {written} \cup {ims[i] : i \in 1 .. Len(ims)}
         /\ Full' = ims[Len(ims)]
<1> DEFINE n == Len(ims)
           rest == SubSeq(ims, k + 1, n)
<1>1. n \in Nat /\ k \in Nat /\ k < n
  OBVIOUS
<1>2. /\ rest \in Seq(Image) /\ Len(rest) = n - k
      /\ \A i \in 1 .. n - k : rest[i] = ims[k + i]
  BY <1>1, SubSeqProperties
<1>3. written' = (IF k = 0 THEN written ELSE ims[k]) /\ buffered' = rest /\ torn' \in BOOLEAN
  BY Zenon DEF PartlyFlushed
<1> HIDE DEF rest
<1>4. written' \in Image /\ written' \in {written} \cup {ims[i] : i \in 1 .. n}
  BY <1>1, <1>3
<1>5. \A i \in 1 .. Len(buffered') : buffered'[i] \in {ims[j] : j \in 1 .. n}
  BY <1>1, <1>2, <1>3
<1>6. Full' = ims[n]
  <2>1. rest # <<>> /\ rest[n - k] = ims[n]
    BY <1>1, <1>2
  <2> QED
    BY <1>2, <1>3, <2>1 DEF Full
<1> QED
  BY <1>2, <1>3, <1>4, <1>5, <1>6 DEF Held

\* What the writer holds after an append is in the file, in the writer before it, or new.
LEMMA AppendedHeld ==
  ASSUME NEW im \in Image, buffered \in Seq(Image)
  PROVE  LET ims == Append(buffered, im)
         IN  /\ ims \in Seq(Image) /\ ims # <<>> /\ Len(ims) = Len(buffered) + 1
             /\ ims[Len(ims)] = im
             /\ {written} \cup {ims[i] : i \in 1 .. Len(ims)} \subseteq Held \cup {im}
<1> DEFINE ims == Append(buffered, im)
<1>1. /\ ims \in Seq(Image) /\ ims # <<>> /\ Len(ims) = Len(buffered) + 1 /\ Len(buffered) \in Nat
      /\ \A i \in 1 .. Len(buffered) : ims[i] = buffered[i]
      /\ ims[Len(buffered) + 1] = im
  BY AppendProperties
<1> HIDE DEF ims
<1>2. \A i \in 1 .. Len(ims) : ims[i] \in Held \cup {im}
  <2> SUFFICES ASSUME NEW i \in 1 .. Len(ims) PROVE ims[i] \in Held \cup {im}
    OBVIOUS
  <2>1. CASE i = Len(buffered) + 1
    BY <1>1, <2>1
  <2>2. CASE i \in 1 .. Len(buffered)
    BY <1>1, <2>2 DEF Held
  <2> QED
    BY <1>1, <2>1, <2>2
<1> QED
  BY <1>1, <1>2 DEF ims, Held

\* The file and the writer after try_append with an open handle: the images are old or that
\* of the new record, and the last one is the new one, or the file is known to miss a record.
LEMMA AppendDisk ==
  ASSUME NEW r, Replayed(Full, r) \in Image, Appended(r) \/ AppendFails(r),
         written \in Image, torn \in BOOLEAN, buffered \in Seq(Image), dirty \in BOOLEAN,
         failures \in Nat
  PROVE  /\ written' \in Image /\ torn' \in BOOLEAN /\ buffered' \in Seq(Image)
         /\ Held' \subseteq Held \cup {Replayed(Full, r)}
         /\ \/ dirty' = TRUE
            \/ dirty' = dirty /\ Full' = Replayed(Full, r)
         /\ failures' \in Nat /\ recovering' \in BOOLEAN /\ compaction' \in {"none", "write"}
<1> DEFINE im == Replayed(Full, r)
           ims == Append(buffered, im)
           Result == /\ written' \in Image /\ torn' \in BOOLEAN /\ buffered' \in Seq(Image)
                     /\ Held' \subseteq Held \cup {im}
                     /\ \/ dirty' = TRUE
                        \/ dirty' = dirty /\ Full' = im
<1>1. /\ ims \in Seq(Image) /\ ims # <<>> /\ Len(ims) = Len(buffered) + 1 /\ ims[Len(ims)] = im
      /\ {written} \cup {ims[i] : i \in 1 .. Len(ims)} \subseteq Held \cup {im}
  BY AppendedHeld
<1>2. Len(buffered) \in Nat
  OBVIOUS
<1>3. ASSUME Flushed(buffered), buffered' = <<im>>, dirty' = dirty PROVE Result
  <2>1. written' \in Image /\ written' \in Held
    <3>1. buffered # <<>> => Len(buffered) \in 1 .. Len(buffered) /\ buffered[Len(buffered)] \in Image
      OBVIOUS
    <3> QED
      BY <1>3, <3>1 DEF Flushed, Held
  <2>2. torn' \in BOOLEAN
    BY <1>3, Zenon DEF Flushed
  <2> HIDE DEF im
  <2>3. buffered' \in Seq(Image) /\ Len(buffered') = 1 /\ buffered'[1] = im /\ buffered' # <<>>
    BY <1>3 DEF im
  <2>4. Full' = im
    BY <2>3 DEF Full
  <2>5. Held' \subseteq Held \cup {im}
    <3>1. Held' = {written'} \cup {buffered'[i] : i \in 1 .. 1}
      BY <2>3 DEF Held
    <3> QED
      BY <2>1, <2>3, <3>1
  <2> QED
    BY <1>3, <2>1, <2>2, <2>3, <2>4, <2>5
<1>4. ASSUME UNCHANGED <<written, torn>>, buffered' = ims, dirty' = dirty PROVE Result
  <2> HIDE DEF im, ims
  <2>1. Full' = im
    BY <1>1, <1>4 DEF Full
  <2>2. Held' \subseteq Held \cup {im}
    BY <1>1, <1>4 DEF Held
  <2> QED
    BY <1>1, <1>4, <2>1, <2>2
<1>5. ASSUME Flushed(ims), buffered' = <<>>, dirty' = dirty PROVE Result
  <2> HIDE DEF im, ims
  <2> QED
    BY <1>1, <1>5, FlushAll
<1>6. ASSUME NEW k \in 0 .. Len(buffered) - 1, PartlyFlushed(buffered, k), dirty' = TRUE PROVE Result
  <2>1. /\ written' \in Image /\ torn' \in BOOLEAN /\ buffered' \in Seq(Image)
        /\ Held' \subseteq {written} \cup {buffered[i] : i \in 1 .. Len(buffered)}
    BY <1>6, FlushPart
  <2> QED
    BY <1>6, <2>1, Zenon DEF Held
<1>7. ASSUME NEW k \in 0 .. Len(buffered), PartlyFlushed(ims, k), dirty' = dirty PROVE Result
  <2> HIDE DEF im, ims
  <2>1. k \in 0 .. Len(ims) - 1
    BY <1>1, <1>2
  <2> QED
    BY <1>1, <1>7, <2>1, FlushPart
<1>8. CASE Appended(r)
  <2>1. \/ Len(buffered) = BufferCap /\ Flushed(buffered) /\ buffered' = <<im>>
        \/ UNCHANGED <<written, torn>> /\ buffered' = ims
        \/ Flushed(ims) /\ buffered' = <<>>
    BY <1>8 DEF Appended
  <2>2. /\ dirty' = dirty /\ failures' \in Nat /\ recovering' \in BOOLEAN
        /\ compaction' \in {"none", "write"}
    BY <1>8, Zenon DEF Appended
  <2>3. Result
    <3> HIDE DEF Result, ims, im
    <3> QED
      BY <1>3, <1>4, <1>5, <2>1, <2>2
  <2> QED
    BY <2>2, <2>3
<1>9. CASE AppendFails(r)
  <2>1. \/ \E k \in 0 .. Len(buffered) - 1 : PartlyFlushed(buffered, k) /\ dirty' = TRUE
        \/ \E k \in 0 .. Len(buffered) : PartlyFlushed(ims, k) /\ dirty' = dirty
    <3> HIDE DEF ims
    <3>1. \/ /\ Len(buffered) = BufferCap
             /\ \E k \in 0 .. BufferCap - 1 : PartlyFlushed(buffered, k)
             /\ dirty' = TRUE
          \/ /\ \E k \in (IF Len(buffered) = BufferCap THEN BufferCap ELSE 0) .. Len(buffered) :
                  PartlyFlushed(ims, k)
             /\ UNCHANGED dirty
      BY <1>9 DEF AppendFails, ims
    <3> QED
      BY <1>2, <3>1, SnapshotSizes
  <2>2. failures' \in Nat /\ recovering' \in BOOLEAN /\ compaction' \in {"none", "write"}
    <3>1. Fails /\ Recovery
      BY <1>9 DEF AppendFails
    <3>2. failures' \in Nat
      BY <3>1 DEF Fails
    <3> QED
      BY <3>1, <3>2, Zenon DEF Recovery
  <2>3. Result
    <3> HIDE DEF Result, ims
    <3> QED
      BY <1>6, <1>7, <2>1, Zenon
  <2> QED
    BY <2>2, <2>3
<1> QED
  BY <1>8, <1>9, Zenon

-----------------------------------------------------------------------------
(* What a record does to the memory and to an image.                       *)

\* The memory after a record: the times only grow, and after a leave there are no members.
LEMMA RememberMoves ==
  ASSUME TypeOK, NEW r \in Record, Remember(r),
         r.ty # "Clock" => ~ leaving,
         r.ty = "Clock" => r.time >= last[r.of]
  PROVE  /\ alive_nodes' \in SUBSET Node /\ last' \in [Clocks -> Nat] /\ leaving' \in BOOLEAN
         /\ \A c \in Clocks : last[c] <= last'[c]
         /\ (r.ty = "Clock" => r.of \in Clocks /\ r.time \in Nat /\ last' = [last EXCEPT ![r.of] = r.time])
         /\ (r.ty # "Clock" => last' = last)
         /\ (leaving => leaving' /\ alive_nodes' = alive_nodes)
         /\ (~ leaving /\ leaving' => r.ty = "Leave")
         /\ (r.ty = "Leave" /\ ~ rejoin_after_leave => alive_nodes' = {} /\ leaving')
<1>1. r.ty \in {"Alive", "NotAlive", "Clock", "Leave"}
  BY DEF Record
<1>2. r.ty \in {"Alive", "NotAlive"} => r.node \in Node
  BY DEF Record
<1>3. r.ty = "Clock" => r.of \in Clocks /\ r.time \in Nat
  BY DEF Record
<1>4. alive_nodes \in SUBSET Node /\ last \in [Clocks -> Nat] /\ leaving \in BOOLEAN
  BY DEF TypeOK
<1>5. alive_nodes' \in SUBSET Node
  BY <1>1, <1>2, <1>4 DEF Remember
<1>6. /\ last' \in [Clocks -> Nat] /\ \A c \in Clocks : last[c] <= last'[c]
      /\ (r.ty = "Clock" => last' = [last EXCEPT ![r.of] = r.time])
      /\ (r.ty # "Clock" => last' = last)
  BY <1>1, <1>3, <1>4 DEF Remember
<1>7. leaving' = (leaving \/ r.ty = "Leave")
  BY DEF Remember
<1>8. r.ty = "Clock" => alive_nodes' = alive_nodes
  BY DEF Remember
<1>9. r.ty = "Leave" /\ ~ rejoin_after_leave => alive_nodes' = {}
  BY DEF Remember
<1> QED
  BY <1>3, <1>4, <1>5, <1>6, <1>7, <1>8, <1>9, Zenon

\* The image after a record follows the memory.
LEMMA ReplayedMoves ==
  ASSUME TypeOK, NEW r \in Record, Remember(r), NEW im \in Image,
         r.ty # "Clock" => ~ leaving,
         r.ty = "Clock" => r.time >= last[r.of]
  PROVE  LET u == Replayed(im, r)
         IN  /\ u \in Image
             /\ (\A c \in Clocks : im.last[c] <= last[c]) => \A c \in Clocks : u.last[c] <= last'[c]
             /\ r.ty = "Clock" => u.nodes = im.nodes
             /\ Matches(im) => /\ u.nodes = alive_nodes'
                               /\ u.last = last' \/ (leaving' /\ ~ rejoin_after_leave)
<1>1. r.ty \in {"Alive", "NotAlive", "Clock", "Leave"}
  BY DEF Record
<1>2. /\ last' \in [Clocks -> Nat] /\ \A c \in Clocks : last[c] <= last'[c]
      /\ (r.ty = "Clock" => r.of \in Clocks /\ r.time \in Nat /\ last' = [last EXCEPT ![r.of] = r.time])
      /\ (r.ty # "Clock" => last' = last)
      /\ leaving => leaving' /\ alive_nodes' = alive_nodes
  BY RememberMoves
<1>3. last \in [Clocks -> Nat] /\ im.last \in [Clocks -> Nat] /\ im.nodes \in SUBSET Node
  BY DEF TypeOK, Image
<1>4. CASE r.ty = "Alive"
  <2>1. r.node \in Node
    BY <1>4 DEF Record
  <2> DEFINE u == Replayed(im, r)
  <2>2. u = [im EXCEPT !.nodes = @ \cup {r.node}]
    BY <1>4 DEF Replayed
  <2>3. u \in Image /\ u.nodes = im.nodes \cup {r.node} /\ u.last = im.last
    BY <2>1, <2>2 DEF Image
  <2>4. alive_nodes' = alive_nodes \cup {r.node} /\ ~ leaving /\ last' = last
    BY <1>2, <1>4 DEF Remember
  <2> HIDE DEF u
  <2> QED
    BY <1>4, <2>3, <2>4 DEF Matches, u
<1>5. CASE r.ty = "NotAlive"
  <2> DEFINE u == Replayed(im, r)
  <2>2. u = [im EXCEPT !.nodes = @ \ {r.node}]
    BY <1>5 DEF Replayed
  <2>3. u \in Image /\ u.nodes = im.nodes \ {r.node} /\ u.last = im.last
    BY <2>2 DEF Image
  <2>4. alive_nodes' = alive_nodes \ {r.node} /\ ~ leaving /\ last' = last
    BY <1>2, <1>5 DEF Remember
  <2> HIDE DEF u
  <2> QED
    BY <1>5, <2>3, <2>4 DEF Matches, u
<1>6. CASE r.ty = "Clock"
  <2> DEFINE u == Replayed(im, r)
  <2>1. u = [im EXCEPT !.last[r.of] = r.time]
    BY <1>6 DEF Replayed
  <2>2. u \in Image /\ u.nodes = im.nodes /\ u.last = [im.last EXCEPT ![r.of] = r.time]
    BY <1>2, <1>6, <2>1 DEF Image
  <2>3. alive_nodes' = alive_nodes /\ last' = [last EXCEPT ![r.of] = r.time] /\ leaving' = leaving
    BY <1>2, <1>6 DEF Remember, TypeOK
  <2> HIDE DEF u
  <2>4. (\A c \in Clocks : im.last[c] <= last[c]) => \A c \in Clocks : u.last[c] <= last'[c]
    BY <1>2, <1>3, <1>6, <2>2, <2>3
  <2>5. Matches(im) => u.nodes = alive_nodes' /\ (u.last = last' \/ (leaving' /\ ~ rejoin_after_leave))
    BY <2>2, <2>3, Zenon DEF Matches
  <2> QED
    BY <1>6, <2>2, <2>4, <2>5 DEF u
<1>7. CASE r.ty = "Leave" /\ rejoin_after_leave
  <2>1. Replayed(im, r) = im
    BY <1>7 DEF Replayed
  <2>2. alive_nodes' = alive_nodes /\ last' = last /\ ~ leaving
    BY <1>2, <1>7 DEF Remember
  <2> QED
    BY <1>7, <2>1, <2>2 DEF Matches
<1>8. CASE r.ty = "Leave" /\ ~ rejoin_after_leave
  <2> DEFINE u == Replayed(im, r)
  <2>1. u = [im EXCEPT !.nodes = {}, !.last = NoTimes]
    BY <1>8 DEF Replayed
  <2>2. u \in Image /\ u.nodes = {} /\ u.last = NoTimes
    <3>1. NoTimes \in [Clocks -> Nat]
      BY DEF NoTimes
    <3> HIDE DEF u
    <3> QED
      BY <2>1, <3>1, Zenon DEF Image
  <2>3. alive_nodes' = {} /\ leaving'
    BY <1>8, Zenon DEF Remember
  <2> HIDE DEF u
  <2>4. \A c \in Clocks : u.last[c] <= last'[c]
    BY <1>2, <2>2 DEF NoTimes
  <2> QED
    BY <1>8, <2>2, <2>3, <2>4 DEF u
<1> QED
  BY <1>1, <1>4, <1>5, <1>6, <1>7, <1>8

\* Every image has its type.
LEMMA HeldTypes == ASSUME TypeOK PROVE Held \subseteq Image
<1>1. written \in Image /\ buffered \in Seq(Image)
  BY DEF TypeOK
<1>2. \A i \in 1 .. Len(buffered) : buffered[i] \in Image
  BY <1>1
<1> QED
  BY <1>1, <1>2 DEF Held

\* The image of all that was appended is one of those that are held.
LEMMA FullHeld ==
  ASSUME TypeOK
  PROVE  Full \in Held /\ Full \in Image
<1>1. written \in Image /\ buffered \in Seq(Image)
  BY DEF TypeOK
<1>2. buffered # <<>> => Len(buffered) \in 1 .. Len(buffered) /\ buffered[Len(buffered)] \in Image
  BY <1>1
<1> QED
  BY <1>1, <1>2 DEF Full, Held

\* What is left of a handler's list holds no record.
LEMMA TailOps ==
  ASSUME TypeOK, RecordsFirst(todo), todo # <<>>
  PROVE  /\ Tail(todo) \in Seq(Op)
         /\ \A i \in 1 .. Len(Tail(todo)) : ~ IsRecord(Tail(todo)[i])
<1>1. todo \in Seq(Op)
  BY DEF TypeOK
<1>2. /\ Tail(todo) \in Seq(Op) /\ Len(Tail(todo)) = Len(todo) - 1 /\ Len(todo) \in Nat
      /\ \A i \in 1 .. Len(Tail(todo)) : Tail(todo)[i] = todo[i + 1]
  BY <1>1, HeadTailProperties
<1>3. \A i \in 1 .. Len(todo) : IsRecord(todo[i]) => i = 1
  BY DEF RecordsFirst
<1>4. ASSUME NEW i \in 1 .. Len(Tail(todo)) PROVE ~ IsRecord(Tail(todo)[i])
  <2>1. i + 1 \in 1 .. Len(todo) /\ i + 1 # 1 /\ Tail(todo)[i] = todo[i + 1]
    BY <1>2
  <2> QED
    BY <1>3, <2>1
<1> QED
  BY <1>2, <1>4

-----------------------------------------------------------------------------
(* The steps.                                                              *)

\* try_append, of a record that its handler may make.
LEMMA AppendIInv ==
  ASSUME IInv, phase \in {"running", "ending", "closing"}, todo # <<>>, compaction = "none",
         NEW r \in Record, try_append(r),
         r.ty # "Clock" => ~ leaving,
         r.ty = "Clock" => r.time >= last[r.of] /\ (r.of = "clock" => r.time < clock)
  PROVE  IInv'
<1> DEFINE im == Replayed(Full, r)
<1> USE DEF IInv
<1>1. /\ Remember(r) /\ todo' = Tail(todo)
      /\ UNCHANGED <<exists, fh, clock, shutdown, rejoin_after_leave, left>>
  BY DEF try_append, env
<1>2. /\ alive_nodes' \in SUBSET Node /\ last' \in [Clocks -> Nat] /\ leaving' \in BOOLEAN
      /\ \A c \in Clocks : last[c] <= last'[c]
      /\ (r.ty = "Clock" => r.of \in Clocks /\ r.time \in Nat /\ last' = [last EXCEPT ![r.of] = r.time])
      /\ (r.ty # "Clock" => last' = last)
      /\ (leaving => leaving' /\ alive_nodes' = alive_nodes)
      /\ (~ leaving /\ leaving' => r.ty = "Leave")
      /\ (r.ty = "Leave" /\ ~ rejoin_after_leave => alive_nodes' = {} /\ leaving')
  BY <1>1, RememberMoves
<1>3. Full \in Held /\ Full \in Image
  BY FullHeld
<1>4. /\ im \in Image
      /\ (\A c \in Clocks : Full.last[c] <= last[c]) => \A c \in Clocks : im.last[c] <= last'[c]
      /\ r.ty = "Clock" => im.nodes = Full.nodes
      /\ Matches(Full) => /\ im.nodes = alive_nodes'
                          /\ im.last = last' \/ (leaving' /\ ~ rejoin_after_leave)
  BY <1>1, <1>3, ReplayedMoves
<1> HIDE DEF im
<1>5. /\ todo' \in Seq(Op) /\ RecordsFirst(todo)'
  <2>1. Tail(todo) \in Seq(Op) /\ \A i \in 1 .. Len(Tail(todo)) : ~ IsRecord(Tail(todo)[i])
    BY TailOps
  <2> QED
    BY <1>1, <2>1 DEF RecordsFirst, IsRecord
<1>6. /\ written' \in Image /\ torn' \in BOOLEAN /\ buffered' \in Seq(Image)
      /\ Held' \subseteq Held \cup {im}
      /\ \/ dirty' = TRUE
         \/ fh /\ dirty' = dirty /\ Full' = im
      /\ failures' \in Nat /\ recovering' \in BOOLEAN
      /\ \/ fh /\ compaction' \in {"none", "write"} /\ phase' = phase
         \/ ~ fh /\ compaction' = "none" /\ phase' = "panicked" /\ buffered' = buffered
  <2>1. CASE fh
    <3>1. (Appended(r) \/ AppendFails(r)) /\ phase' = phase
      BY <2>1 DEF try_append
    <3>2. /\ im \in Image /\ written \in Image /\ torn \in BOOLEAN /\ buffered \in Seq(Image)
          /\ dirty \in BOOLEAN /\ failures \in Nat
      BY <1>4 DEF TypeOK
    <3>3. /\ written' \in Image /\ torn' \in BOOLEAN /\ buffered' \in Seq(Image)
          /\ Held' \subseteq Held \cup {im}
          /\ \/ dirty' = TRUE
             \/ dirty' = dirty /\ Full' = im
          /\ failures' \in Nat /\ recovering' \in BOOLEAN /\ compaction' \in {"none", "write"}
      BY <3>1, <3>2, AppendDisk, Zenon DEF im
    <3> QED
      BY <2>1, <3>1, <3>3
  <2>2. CASE ~ fh
    <3>1. /\ phase' = "panicked" /\ dirty' = TRUE
          /\ UNCHANGED <<written, buffered, torn, compaction, recovering, failures>>
      BY <2>2 DEF try_append
    <3>2. Held' = Held
      BY <3>1 DEF Held
    <3> QED
      BY <2>2, <3>1, <3>2 DEF TypeOK
  <2> QED
    BY <2>1, <2>2, Zenon
<1>7. TypeOK'
  <2>1. phase' \in Phase /\ compaction' \in Syscall
    BY <1>6 DEF TypeOK, Phase, Syscall
  <2>2. /\ exists' \in BOOLEAN /\ fh' \in BOOLEAN /\ clock' \in Nat \ {0} /\ shutdown' \in BOOLEAN
        /\ rejoin_after_leave' \in BOOLEAN /\ left' \in BOOLEAN
    BY <1>1 DEF TypeOK
  <2>3. dirty' \in BOOLEAN
    BY <1>6, Zenon DEF TypeOK
  <2> QED
    BY <1>2, <1>5, <1>6, <2>1, <2>2, <2>3 DEF TypeOK
<1>8. phase' # "down" /\ phase # "down"
  BY <1>6
<1>9. Handles'
  <2>1. fh' = fh /\ (~ fh => buffered = <<>>) /\ compaction' \notin {"remove", "rename", "reopen"}
    BY <1>1, <1>6 DEF Handles
  <2> QED
    BY <1>6, <1>8, <2>1 DEF Handles
<1>10. Behind'
  <2>1. last["clock"] < clock /\ \A x \in Held, c \in Clocks : x.last[c] <= last[c]
    BY <1>8 DEF Behind
  <2>2. last'["clock"] < clock' /\ clock' = clock
    BY <1>1, <1>2, <2>1 DEF TypeOK, Clocks
  <2>3. \A x \in Held \cup {im}, c \in Clocks : x.last[c] <= last'[c]
    <3>1. \A c \in Clocks : im.last[c] <= last'[c]
      BY <1>3, <1>4, <2>1
    <3>2. ASSUME NEW x \in Held, NEW c \in Clocks PROVE x.last[c] <= last'[c]
      <4>1. x.last[c] <= last[c] /\ last[c] <= last'[c]
        BY <1>2, <2>1
      <4>2. x.last[c] \in Nat /\ last[c] \in Nat /\ last'[c] \in Nat
        BY <1>2, HeldTypes DEF TypeOK, Image
      <4> QED
        BY <4>1, <4>2
    <3> QED
      BY <3>1, <3>2
  <2> QED
    BY <1>6, <2>2, <2>3 DEF Behind
<1>11. Forgotten'
  BY <1>1, <1>2, <1>8 DEF Forgotten
<1>12. Gone'
  <2> SUFFICES ASSUME left, ~ rejoin_after_leave
               PROVE  leaving' /\ \A x \in Held' : x.nodes = {}
    BY <1>1, <1>8 DEF Gone
  <2>1. leaving /\ \A x \in Held : x.nodes = {}
    BY <1>8 DEF Gone
  <2>2. im.nodes = {}
    BY <1>3, <1>4, <2>1
  <2> QED
    BY <1>2, <1>6, <2>1, <2>2
<1>13. FileMatchesMemory'
  <2> SUFFICES ASSUME ~ dirty' PROVE IF exists' THEN Matches(Full)' ELSE ~ fh'
    BY DEF FileMatchesMemory
  <2>1. fh /\ dirty' = dirty /\ Full' = im
    BY <1>6
  <2>2. exists /\ Matches(Full)
    BY <1>8, <2>1 DEF FileMatchesMemory
  <2> QED
    BY <1>1, <1>4, <2>1, <2>2 DEF Matches
<1> QED
  BY <1>5, <1>7, <1>9, <1>10, <1>11, <1>12, <1>13

\* A handler that only makes its list of operations.
LEMMA DoIInv ==
  ASSUME IInv, NEW ops \in Seq(Op), Do(ops), RecordsFirst(ops), UNCHANGED env,
         phase # "down", phase' \in Phase \ {"down"}
  PROVE  IInv'
<1> USE DEF IInv
<1>1. /\ todo' = ops /\ UNCHANGED <<alive_nodes, last, leaving, exists, written, buffered, torn, fh>>
      /\ UNCHANGED <<compaction, recovering, dirty, left, failures, clock, shutdown, rejoin_after_leave>>
  BY DEF Do, memory, disk, env
<1>2. TypeOK'
  BY <1>1 DEF TypeOK
<1>3. RecordsFirst(todo)'
  BY <1>1 DEF RecordsFirst, IsRecord
<1>4. Held' = Held /\ Full' = Full
  BY <1>1 DEF Held, Full
<1>5. Handles' /\ Behind' /\ Forgotten' /\ Gone'
  BY <1>1, <1>4 DEF Handles, Behind, Forgotten, Gone
<1>6. FileMatchesMemory'
  BY <1>1, <1>4 DEF FileMatchesMemory, Matches
<1> QED
  BY <1>2, <1>3, <1>5, <1>6

\* The list of a member event: its record, if any, then update_clock.
LEMMA MemberOpsOK ==
  ASSUME NEW ty, NEW n \in Node, ~ leaving
  PROVE  MemberOps(ty, n) \in Seq(Op) /\ RecordsFirst(MemberOps(ty, n))
<1> DEFINE a == [ty |-> "Alive", node |-> n]
           b == [ty |-> "NotAlive", node |-> n]
           c == [ty |-> "update_clock"]
<1>1. a \in Op /\ b \in Op /\ c \in Op
  BY DEF Op, Record
<1>2. a.ty = "Alive" /\ b.ty = "NotAlive" /\ c.ty = "update_clock"
  OBVIOUS
<1> HIDE DEF a, b, c
<1>3. ASSUME NEW s \in {<<a>>, <<b>>, <<>>} PROVE s \o <<c>> \in Seq(Op) /\ RecordsFirst(s \o <<c>>)
  <2>1. /\ s \in Seq(Op) /\ <<c>> \in Seq(Op) /\ Len(<<c>>) = 1 /\ <<c>>[1] = c
        /\ Len(s) \in {0, 1} /\ (Len(s) = 1 => s[1] \in {a, b})
    <3>1. \A x \in Op : <<x>> \in Seq(Op) /\ Len(<<x>>) = 1 /\ <<x>>[1] = x
      OBVIOUS
    <3>2. <<>> \in Seq(Op) /\ Len(<<>>) = 0
      OBVIOUS
    <3>3. CASE s = <<>>
      BY <1>1, <3>1, <3>2, <3>3
    <3>4. CASE s \in {<<a>>, <<b>>}
      BY <1>1, <3>1, <3>4, Zenon
    <3> QED
      BY <3>3, <3>4
  <2>2. /\ s \o <<c>> \in Seq(Op) /\ Len(s \o <<c>>) = Len(s) + 1
        /\ \A i \in 1 .. Len(s) + 1 : (s \o <<c>>)[i] = IF i <= Len(s) THEN s[i] ELSE <<c>>[i - Len(s)]
    BY <2>1, ConcatProperties
  <2> DEFINE o == s \o <<c>>
  <2> HIDE DEF o
  <2>3. \A i \in 1 .. Len(o) : (i = 1 /\ o[i] \in {a, b}) \/ o[i] = c
    BY <2>1, <2>2 DEF o
  <2>4. \A i \in 1 .. Len(o) : (i = 1 /\ o[i].ty # "Clock") \/ ~ IsRecord(o[i])
    BY <1>2, <2>3 DEF IsRecord
  <2> QED
    BY <2>2, <2>4 DEF RecordsFirst, o
<1>4. \E s \in {<<a>>, <<b>>, <<>>} : MemberOps(ty, n) = s \o <<c>>
  BY Zenon DEF MemberOps, a, b, c
<1> QED
  BY <1>3, <1>4, Zenon

\* The list of a user event or a query: the time, if it is news.
LEMMA TimeOpsOK ==
  ASSUME TypeOK, NEW of \in Clocks \ {"clock"}, NEW ltime \in Nat, ~ leaving
  PROVE  TimeOps(of, ltime) \in Seq(Op) /\ RecordsFirst(TimeOps(of, ltime))
<1> DEFINE r == [ty |-> "Clock", of |-> of, time |-> ltime]
<1>1. r \in Op /\ r.ty = "Clock" /\ r.of = of /\ r.time = ltime
  BY DEF Op, Record
<1>2. CASE ltime <= last[of]
  BY <1>2 DEF TimeOps, RecordsFirst
<1>3. CASE ~ (ltime <= last[of])
  <2>1. ltime > last[of]
    BY <1>3 DEF TypeOK
  <2>2. TimeOps(of, ltime) = <<r>>
    BY <1>3 DEF TimeOps
  <2> HIDE DEF r
  <2>3. <<r>> \in Seq(Op) /\ Len(<<r>>) = 1 /\ <<r>>[1] = r
    BY <1>1
  <2> QED
    BY <1>1, <2>1, <2>2, <2>3 DEF RecordsFirst
<1> QED
  BY <1>2, <1>3

\* The lists of the other handlers.
LEMMA OtherOpsOK ==
  /\ \A ty \in {"update_clock", "sync"} :
       <<[ty |-> ty]>> \in Seq(Op) /\ RecordsFirst(<<[ty |-> ty]>>)
  /\ ~ leaving => LeaveOps \in Seq(Op) /\ RecordsFirst(LeaveOps)
  /\ \A pending \in BOOLEAN :
       (pending => ~ leaving) =>
         LET ops == (IF pending THEN LeaveOps ELSE <<>>) \o <<[ty |-> "update_clock"]>>
         IN  ops \in Seq(Op) /\ RecordsFirst(ops)
<1> DEFINE l == [ty |-> "Leave"]
           y == [ty |-> "sync"]
           c == [ty |-> "update_clock"]
<1>1. l \in Op /\ y \in Op /\ c \in Op
  BY DEF Op, Record
<1>2. l.ty = "Leave" /\ ~ IsRecord(y) /\ ~ IsRecord(c)
  BY DEF IsRecord
<1> HIDE DEF l, y, c
<1>3. ASSUME NEW o \in Op, ~ IsRecord(o) PROVE <<o>> \in Seq(Op) /\ RecordsFirst(<<o>>)
  BY <1>3 DEF RecordsFirst
<1>4. LeaveOps = <<l, y>>
  BY DEF LeaveOps, l, y
<1>5. /\ <<l, y>> \in Seq(Op) /\ Len(<<l, y>>) = 2 /\ <<l, y>>[1] = l /\ <<l, y>>[2] = y
  BY <1>1
<1>6. ~ leaving => LeaveOps \in Seq(Op) /\ RecordsFirst(LeaveOps)
  <2>1. \A i \in 1 .. Len(<<l, y>>) : i = 1 \/ <<l, y>>[i] = y
    BY <1>5
  <2> QED
    BY <1>2, <1>4, <1>5, <2>1 DEF RecordsFirst
<1>7. ASSUME NEW s \in {<<l, y>>, <<>>}, s # <<>> => ~ leaving
      PROVE  s \o <<c>> \in Seq(Op) /\ RecordsFirst(s \o <<c>>)
  <2>1. /\ s \in Seq(Op) /\ <<c>> \in Seq(Op) /\ Len(<<c>>) = 1 /\ <<c>>[1] = c
        /\ Len(s) \in {0, 2} /\ (Len(s) = 2 => s = <<l, y>> /\ s[1] = l /\ s[2] = y /\ s # <<>>)
    <3>1. <<c>> \in Seq(Op) /\ Len(<<c>>) = 1 /\ <<c>>[1] = c
      BY <1>1
    <3>2. <<>> \in Seq(Op) /\ Len(<<>>) = 0
      OBVIOUS
    <3>3. CASE s = <<>>
      BY <3>1, <3>2, <3>3
    <3>4. CASE s = <<l, y>>
      BY <1>5, <3>1, <3>2, <3>4
    <3> QED
      BY <3>3, <3>4
  <2>2. /\ s \o <<c>> \in Seq(Op) /\ Len(s \o <<c>>) = Len(s) + 1
        /\ \A i \in 1 .. Len(s) + 1 : (s \o <<c>>)[i] = IF i <= Len(s) THEN s[i] ELSE <<c>>[i - Len(s)]
    BY <2>1, ConcatProperties
  <2> DEFINE o == s \o <<c>>
  <2> HIDE DEF o
  <2>3. \A i \in 1 .. Len(o) : (i = 1 /\ o[i] = l /\ ~ leaving) \/ o[i] \in {y, c}
    BY <1>7, <2>1, <2>2 DEF o
  <2>4. \A i \in 1 .. Len(o) : (i = 1 /\ ~ leaving /\ o[i].ty # "Clock") \/ ~ IsRecord(o[i])
    BY <1>2, <2>3
  <2> QED
    BY <2>2, <2>4 DEF RecordsFirst, o
<1>8. \A ty \in {"update_clock", "sync"} : [ty |-> ty] \in {y, c}
  BY DEF y, c
<1>9. \A ty \in {"update_clock", "sync"} :
        <<[ty |-> ty]>> \in Seq(Op) /\ RecordsFirst(<<[ty |-> ty]>>)
  BY <1>1, <1>2, <1>3, <1>8
<1>10. ASSUME NEW pending \in BOOLEAN, pending => ~ leaving
       PROVE  LET ops == (IF pending THEN LeaveOps ELSE <<>>) \o <<c>>
              IN  ops \in Seq(Op) /\ RecordsFirst(ops)
  <2>1. CASE pending
    BY <1>4, <1>7, <1>10, <2>1
  <2>2. CASE ~ pending
    BY <1>7, <2>2
  <2> QED
    BY <2>1, <2>2
<1> QED
  BY <1>6, <1>9, <1>10 DEF c

\* A step of the task that only touches the file: the images are old, or what compact()
\* puts in their place.
LEMMA FileIInv ==
  ASSUME IInv, phase # "down", phase' # "down", UNCHANGED <<memory, env>>,
         TypeOK', RecordsFirst(todo)', Handles', FileMatchesMemory',
         Held' \subseteq Held \cup {Empty, Compacted},
         left' => left \/ (leaving /\ (~ rejoin_after_leave => \A im \in Held' : im.nodes = {}))
  PROVE  IInv'
<1> USE DEF IInv
<1>1. UNCHANGED <<alive_nodes, last, leaving, clock, rejoin_after_leave>>
  BY DEF memory, env
<1>2. Forgotten'
  BY <1>1 DEF Forgotten
<1>3. Empty.nodes = {} /\ \A c \in Clocks : Empty.last[c] = 0
  BY DEF Empty, NoTimes
<1>4. Compacted.nodes = alive_nodes /\ Compacted.last = last
  BY DEF Compacted
<1>5. Behind'
  <2>1. last \in [Clocks -> Nat]
    BY DEF TypeOK
  <2>2. \A im \in Held \cup {Empty, Compacted}, c \in Clocks : im.last[c] <= last[c]
    BY <1>3, <1>4, <2>1 DEF Behind
  <2> QED
    BY <1>1, <2>2 DEF Behind
<1>6. Gone'
  <2> SUFFICES ASSUME left', ~ rejoin_after_leave
               PROVE  leaving /\ \A im \in Held' : im.nodes = {}
    BY <1>1 DEF Gone
  <2>1. CASE left
    <3>1. leaving /\ \A im \in Held : im.nodes = {}
      BY <2>1 DEF Gone
    <3>2. alive_nodes = {}
      BY <3>1 DEF Forgotten
    <3> QED
      BY <1>3, <1>4, <3>1, <3>2
  <2> QED
    BY <2>1
<1> QED
  BY <1>2, <1>5, <1>6

\* The flush of the writer, complete or not, loses nothing.
LEMMA FlushDisk ==
  ASSUME TypeOK, Handles, FlushWriter
  PROVE  /\ written' \in Image /\ torn' \in BOOLEAN /\ buffered' \in Seq(Image) /\ failures' \in Nat
         /\ Held' \subseteq Held /\ Full' = Full
         /\ ~ fh => buffered' = <<>>
         /\ fh /\ failures' = failures => Held' = {Full}
<1>1. /\ written \in Image /\ torn \in BOOLEAN /\ buffered \in Seq(Image) /\ failures \in Nat
      /\ ~ fh => buffered = <<>>
  BY DEF TypeOK, Handles
<1>2. CASE ~ fh
  <2>1. UNCHANGED <<written, buffered, torn, failures>>
    BY <1>2 DEF FlushWriter
  <2>2. Held' = Held /\ Full' = Full
    BY <2>1 DEF Held, Full
  <2> QED
    BY <1>1, <1>2, <2>1, <2>2
<1>3. CASE fh /\ Flushed(buffered) /\ buffered' = <<>> /\ UNCHANGED failures
  <2>1. /\ written' \in Image /\ torn' \in BOOLEAN /\ buffered' \in Seq(Image)
        /\ Held' \subseteq {written} \cup {buffered[i] : i \in 1 .. Len(buffered)}
        /\ Full' = IF buffered = <<>> THEN written ELSE buffered[Len(buffered)]
    BY <1>1, <1>3, FlushAll
  <2>2. Held' = {written'} /\ Full' = written'
    BY <1>3 DEF Held, Full
  <2>3. Full' = Full /\ Held' \subseteq Held
    BY <2>1, Zenon DEF Full, Held
  <2> QED
    BY <1>1, <1>3, <2>1, <2>2, <2>3
<1>4. ASSUME fh, NEW k \in 0 .. Len(buffered) - 1, PartlyFlushed(buffered, k), Fails
      PROVE  /\ written' \in Image /\ torn' \in BOOLEAN /\ buffered' \in Seq(Image)
             /\ Held' \subseteq Held /\ Full' = Full
             /\ failures' \in Nat /\ failures' # failures
  <2>1. /\ written' \in Image /\ torn' \in BOOLEAN /\ buffered' \in Seq(Image)
        /\ Held' \subseteq {written} \cup {buffered[i] : i \in 1 .. Len(buffered)}
        /\ Full' = buffered[Len(buffered)]
    BY <1>1, <1>4, FlushPart
  <2>2. failures' = failures + 1
    BY <1>4 DEF Fails
  <2>3. buffered # <<>>
    BY <1>1, <1>4
  <2>4. failures' \in Nat /\ failures' # failures
    BY <1>1, <2>2
  <2> QED
    BY <2>1, <2>3, <2>4, SMTT(30) DEF Full, Held
<1>5. \/ ~ fh
      \/ fh /\ Flushed(buffered) /\ buffered' = <<>> /\ UNCHANGED failures
      \/ fh /\ \E k \in 0 .. Len(buffered) - 1 : PartlyFlushed(buffered, k) /\ Fails
  BY DEF FlushWriter
<1> QED
  BY <1>2, <1>3, <1>4, <1>5

\* The flush at the end of handle_leave and of stream().
LEMMA SyncIInv == ASSUME IInv, Sync PROVE IInv'
<1> USE DEF IInv
<1>1. /\ phase \in {"running", "ending", "closing"} /\ compaction = "none" /\ todo # <<>>
      /\ todo' = Tail(todo) /\ FlushWriter
      /\ left' = (left \/ (fh /\ failures' = failures /\ leaving /\ ~ dirty))
      /\ UNCHANGED <<memory, exists, fh, phase, compaction, recovering, env, dirty>>
  BY DEF Sync, Busy
<1>2. UNCHANGED <<alive_nodes, last, leaving, clock, shutdown, rejoin_after_leave>>
  BY <1>1 DEF memory, env
<1>3. /\ written' \in Image /\ torn' \in BOOLEAN /\ buffered' \in Seq(Image) /\ failures' \in Nat
      /\ Held' \subseteq Held /\ Full' = Full
      /\ ~ fh => buffered' = <<>>
      /\ fh /\ failures' = failures => Held' = {Full}
  BY <1>1, FlushDisk
<1>4. Tail(todo) \in Seq(Op) /\ \A i \in 1 .. Len(Tail(todo)) : ~ IsRecord(Tail(todo)[i])
  BY <1>1, TailOps
<1>5. left' \in BOOLEAN
  BY <1>1 DEF TypeOK
<1>6. TypeOK'
  BY <1>1, <1>2, <1>3, <1>4, <1>5, SMTT(30) DEF TypeOK
<1>7. RecordsFirst(todo)'
  BY <1>1, <1>4 DEF RecordsFirst, IsRecord
<1>8. Handles'
  BY <1>1, <1>3 DEF Handles
<1>9. FileMatchesMemory'
  BY <1>1, <1>2, <1>3 DEF FileMatchesMemory, Matches
<1>10. left' => left \/ (leaving /\ (~ rejoin_after_leave => \A im \in Held' : im.nodes = {}))
  <2> SUFFICES ASSUME fh, failures' = failures, leaving, ~ dirty, ~ rejoin_after_leave
               PROVE  \A im \in Held' : im.nodes = {}
    BY <1>1, Zenon
  <2>1. Full.nodes = alive_nodes
    BY <1>1 DEF FileMatchesMemory, Matches
  <2>2. alive_nodes = {}
    BY <1>1, SMTT(30) DEF Forgotten
  <2> QED
    BY <1>3, <2>1, <2>2
<1> QED
  BY <1>1, <1>3, <1>6, <1>7, <1>8, <1>9, <1>10, FileIInv

\* The end of the task.
LEMMA CloseIInv == ASSUME IInv, Close PROVE IInv'
<1> USE DEF IInv
<1>1. /\ phase = "closing" /\ phase' = "done" /\ compaction = "none" /\ FlushWriter
      /\ UNCHANGED <<memory, exists, fh, todo, compaction, recovering, env, dirty, left>>
  BY DEF Close, Idle
<1>2. UNCHANGED <<alive_nodes, last, leaving, clock, shutdown, rejoin_after_leave>>
  BY <1>1 DEF memory, env
<1>3. /\ written' \in Image /\ torn' \in BOOLEAN /\ buffered' \in Seq(Image) /\ failures' \in Nat
      /\ Held' \subseteq Held /\ Full' = Full
      /\ ~ fh => buffered' = <<>>
  BY <1>1, FlushDisk
<1>4. TypeOK'
  BY <1>1, <1>2, <1>3 DEF TypeOK, Phase
<1>5. RecordsFirst(todo)'
  BY <1>1, <1>2 DEF RecordsFirst, IsRecord
<1>6. Handles'
  BY <1>1, <1>3 DEF Handles
<1>7. FileMatchesMemory'
  BY <1>1, <1>2, <1>3 DEF FileMatchesMemory, Matches
<1> QED
  BY <1>1, <1>3, <1>4, <1>5, <1>6, <1>7, FileIInv

\* What all system calls of compact() leave alone.
LEMMA CompactingKeeps ==
  ASSUME IInv, NEW call, Compacting(call)
  PROVE  /\ phase \in {"running", "ending", "closing"} /\ compaction = call
         /\ UNCHANGED <<memory, env, left, todo>>
         /\ UNCHANGED <<alive_nodes, last, leaving, clock, shutdown, rejoin_after_leave>>
         /\ RecordsFirst(todo)'
<1>1. /\ phase \in {"running", "ending", "closing"} /\ compaction = call
      /\ UNCHANGED <<memory, env, left, todo>>
  BY DEF Compacting
<1>2. UNCHANGED <<alive_nodes, last, leaving, clock, shutdown, rejoin_after_leave>>
  BY <1>1 DEF memory, env
<1>3. RecordsFirst(todo)'
  BY <1>1, <1>2 DEF IInv, RecordsFirst, IsRecord
<1> QED
  BY <1>1, <1>2, <1>3

\* After an error, compact() is over or starts again.
LEMMA CompactFailsMoves ==
  ASSUME failures \in Nat, CompactFails
  PROVE  failures' \in Nat /\ compaction' \in {"none", "write"} /\ recovering' \in BOOLEAN
<1>1. failures' \in Nat
  BY DEF CompactFails, Fails
<1>2. \/ compaction' = "none" /\ recovering' = FALSE
      \/ compaction' = "write" /\ recovering' = TRUE
  BY DEF CompactFails, Recovery
<1> QED
  BY <1>1, <1>2, Zenon

\* Writing the new file touches neither the old one nor the writer.
LEMMA CompactWriteIInv == ASSUME IInv, CompactWrite PROVE IInv'
<1> USE DEF IInv
<1>1. /\ phase \in {"running", "ending", "closing"}
      /\ UNCHANGED <<memory, env, left, todo>>
      /\ UNCHANGED <<alive_nodes, last, leaving, clock, shutdown, rejoin_after_leave>>
      /\ RecordsFirst(todo)'
  BY CompactingKeeps DEF CompactWrite
<1>2. UNCHANGED <<exists, written, buffered, torn, fh, phase, dirty>>
  BY DEF CompactWrite, disk
<1>3. failures' \in Nat /\ compaction' \in {"none", "write", "take"} /\ recovering' \in BOOLEAN
  <2>1. failures \in Nat /\ recovering \in BOOLEAN
    BY DEF TypeOK
  <2>2. CASE compaction' = "take" /\ UNCHANGED <<recovering, failures>>
    BY <2>1, <2>2
  <2>3. CASE CompactFails
    BY <2>1, <2>3, CompactFailsMoves
  <2> QED
    BY <2>2, <2>3 DEF CompactWrite
<1>4. TypeOK'
  BY <1>1, <1>2, <1>3 DEF TypeOK, Syscall
<1>5. Held' = Held /\ Full' = Full
  BY <1>2 DEF Held, Full
<1>6. Handles'
  BY <1>1, <1>2, <1>3 DEF Handles
<1>7. FileMatchesMemory'
  BY <1>1, <1>2, <1>5 DEF FileMatchesMemory, Matches
<1> QED
  BY <1>1, <1>2, <1>4, <1>5, <1>6, <1>7, FileIInv

\* The old handle goes, with what it could not flush.
LEMMA CompactTakeIInv == ASSUME IInv, CompactTake PROVE IInv'
<1> USE DEF IInv
<1>1. /\ phase \in {"running", "ending", "closing"} /\ compaction = "take"
      /\ UNCHANGED <<memory, env, left, todo>>
      /\ UNCHANGED <<alive_nodes, last, leaving, clock, shutdown, rejoin_after_leave>>
      /\ RecordsFirst(todo)'
  BY CompactingKeeps DEF CompactTake
<1>2. CASE ~ fh
  <2>1. /\ phase' = "panicked" /\ UNCHANGED <<exists, written, buffered, torn, fh>>
        /\ UNCHANGED <<compaction, dirty, failures, recovering>>
    BY <1>2 DEF CompactTake, disk
  <2>2. TypeOK'
    BY <1>1, <2>1 DEF TypeOK, Phase
  <2>3. Held' = Held /\ Full' = Full
    BY <2>1 DEF Held, Full
  <2>4. Handles'
    BY <1>1, <2>1 DEF Handles
  <2>5. FileMatchesMemory'
    BY <1>1, <2>1, <2>3, SMTT(30) DEF FileMatchesMemory, Matches
  <2> QED
    BY <1>1, <2>1, <2>2, <2>3, <2>4, <2>5, FileIInv
<1>3. CASE fh
  <2>1. /\ fh' = FALSE /\ compaction' = "remove" /\ buffered' = <<>>
        /\ UNCHANGED <<phase, exists, recovering>>
        /\ \/ Flushed(buffered) /\ UNCHANGED <<dirty, failures>>
           \/ /\ \E k \in 0 .. Len(buffered) - 1 :
                   /\ written' = IF k = 0 THEN written ELSE buffered[k]
                   /\ torn' \in IF k = 0 THEN {torn, TRUE} ELSE BOOLEAN
              /\ Fails /\ dirty' = TRUE
    BY <1>3, Zenon DEF CompactTake
  <2>2. written \in Image /\ torn \in BOOLEAN /\ buffered \in Seq(Image) /\ failures \in Nat
    BY DEF TypeOK
  <2>3. /\ written' \in Image /\ torn' \in BOOLEAN /\ failures' \in Nat /\ Held' \subseteq Held
        /\ dirty' = TRUE \/ (dirty' = dirty /\ Full' = Full)
    <3>1. CASE Flushed(buffered) /\ UNCHANGED <<dirty, failures>>
      <4>1. /\ written' \in Image /\ torn' \in BOOLEAN
            /\ Held' \subseteq {written} \cup {buffered[i] : i \in 1 .. Len(buffered)}
            /\ Full' = IF buffered = <<>> THEN written ELSE buffered[Len(buffered)]
        BY <2>1, <2>2, <3>1, FlushAll
      <4> QED
        BY <2>2, <3>1, <4>1, Zenon DEF Full, Held
    <3>2. ASSUME NEW k \in 0 .. Len(buffered) - 1,
                 written' = IF k = 0 THEN written ELSE buffered[k],
                 torn' \in IF k = 0 THEN {torn, TRUE} ELSE BOOLEAN,
                 Fails, dirty' = TRUE
          PROVE  /\ written' \in Image /\ torn' \in BOOLEAN /\ failures' \in Nat
                 /\ Held' \subseteq Held
      <4>1. failures' \in Nat
        BY <2>2, <3>2 DEF Fails
      <4>2. k # 0 => k \in 1 .. Len(buffered) /\ buffered[k] \in Image
        BY <2>2
      <4>3. written' \in Image /\ written' \in Held
        BY <2>2, <3>2, <4>2 DEF Held
      <4>4. Held' = {written'}
        BY <2>1 DEF Held
      <4>5. torn' \in BOOLEAN
        BY <2>2, <3>2, Zenon
      <4> QED
        BY <4>1, <4>3, <4>4, <4>5
    <3> QED
      BY <2>1, <3>1, <3>2, Zenon
  <2>4. TypeOK'
    <3>1. buffered' \in Seq(Image)
      BY <2>1
    <3>2. dirty' \in BOOLEAN /\ compaction' \in Syscall
      BY <2>1, <2>3, Zenon DEF TypeOK, Syscall
    <3> QED
      BY <1>1, <2>1, <2>3, <3>1, <3>2, Zenon DEF TypeOK
  <2>5. Handles'
    BY <1>1, <2>1 DEF Handles
  <2>6. FileMatchesMemory'
    BY <1>1, <1>3, <2>1, <2>3, SMTT(30) DEF FileMatchesMemory, Matches
  <2> QED
    BY <1>1, <2>1, <2>3, <2>4, <2>5, <2>6, FileIInv
<1> QED
  BY <1>2, <1>3

\* Between the removal of the old file and the rename there is none.
LEMMA CompactRemoveIInv == ASSUME IInv, CompactRemove PROVE IInv'
<1> USE DEF IInv
<1>1. /\ phase \in {"running", "ending", "closing"} /\ compaction = "remove"
      /\ UNCHANGED <<memory, env, left, todo>>
      /\ UNCHANGED <<alive_nodes, last, leaving, clock, shutdown, rejoin_after_leave>>
      /\ RecordsFirst(todo)'
  BY CompactingKeeps DEF CompactRemove
<1>2. ~ fh /\ buffered = <<>> /\ UNCHANGED <<buffered, fh, phase, dirty>>
  BY <1>1 DEF CompactRemove, Handles
<1>3. \/ /\ compaction' = "rename" /\ exists' = FALSE /\ written' = Empty /\ torn' = FALSE
         /\ UNCHANGED <<recovering, failures>>
      \/ /\ compaction' \in {"none", "write"} /\ recovering' \in BOOLEAN /\ failures' \in Nat
         /\ UNCHANGED <<exists, written, torn>>
  <2>1. failures \in Nat
    BY DEF TypeOK
  <2> QED
    BY <2>1, CompactFailsMoves DEF CompactRemove
<1>4. Held' = {written'} /\ Full' = written' /\ Full = written /\ Held = {written}
  BY <1>2 DEF Held, Full
<1>5. TypeOK'
  <2>1. Empty \in Image
    BY DEF Empty, Image, NoTimes
  <2>2. written' \in Image /\ exists' \in BOOLEAN /\ torn' \in BOOLEAN
    BY <1>3, <2>1, Zenon DEF TypeOK
  <2>3. compaction' \in Syscall /\ recovering' \in BOOLEAN /\ failures' \in Nat
    BY <1>3 DEF TypeOK, Syscall
  <2> QED
    BY <1>1, <1>2, <2>2, <2>3 DEF TypeOK
<1>6. Handles'
  BY <1>1, <1>2, <1>3 DEF Handles
<1>7. FileMatchesMemory'
  BY <1>1, <1>2, <1>3, <1>4, SMTT(30) DEF FileMatchesMemory, Matches
<1> QED
  BY <1>1, <1>2, <1>3, <1>4, <1>5, <1>6, <1>7, FileIInv

\* The new file holds all of the memory.
LEMMA CompactRenameIInv == ASSUME IInv, CompactRename PROVE IInv'
<1> USE DEF IInv
<1>1. /\ phase \in {"running", "ending", "closing"} /\ compaction = "rename"
      /\ UNCHANGED <<memory, env, left, todo>>
      /\ UNCHANGED <<alive_nodes, last, leaving, clock, shutdown, rejoin_after_leave>>
      /\ RecordsFirst(todo)'
  BY CompactingKeeps DEF CompactRename
<1>2. ~ fh /\ buffered = <<>> /\ UNCHANGED <<torn, buffered, fh, phase>>
  BY <1>1 DEF CompactRename, Handles
<1>3. \/ /\ compaction' = "reopen" /\ exists' = TRUE /\ written' = Compacted /\ dirty' = FALSE
         /\ UNCHANGED <<recovering, failures>>
      \/ /\ compaction' \in {"none", "write"} /\ recovering' \in BOOLEAN /\ failures' \in Nat
         /\ UNCHANGED <<exists, written, dirty>>
  <2>1. failures \in Nat
    BY DEF TypeOK
  <2> QED
    BY <2>1, CompactFailsMoves DEF CompactRename
<1>4. Held' = {written'} /\ Full' = written' /\ Full = written /\ Held = {written}
  BY <1>2 DEF Held, Full
<1>5. TypeOK'
  <2>1. Compacted \in Image
    BY DEF Compacted, Image, TypeOK
  <2>2. written' \in Image /\ exists' \in BOOLEAN /\ dirty' \in BOOLEAN
    BY <1>3, <2>1, Zenon DEF TypeOK
  <2>3. compaction' \in Syscall /\ recovering' \in BOOLEAN /\ failures' \in Nat
    BY <1>3 DEF TypeOK, Syscall
  <2> QED
    BY <1>1, <1>2, <2>2, <2>3 DEF TypeOK
<1>6. Handles'
  BY <1>1, <1>2, <1>3, SMTT(30) DEF Handles
<1>7. FileMatchesMemory'
  <2>1. Compacted.nodes = alive_nodes /\ Compacted.last = last
    BY SMTT(30) DEF Compacted
  <2> QED
    BY <1>1, <1>2, <1>3, <1>4, <2>1 DEF FileMatchesMemory, Matches
<1> QED
  BY <1>1, <1>2, <1>3, <1>4, <1>5, <1>6, <1>7, FileIInv, SMTT(30)

\* The new file is opened for the appends to come.
LEMMA CompactReopenIInv == ASSUME IInv, CompactReopen PROVE IInv'
<1> USE DEF IInv
<1>1. /\ phase \in {"running", "ending", "closing"} /\ compaction = "reopen"
      /\ UNCHANGED <<memory, env, left, todo>>
      /\ UNCHANGED <<alive_nodes, last, leaving, clock, shutdown, rejoin_after_leave>>
      /\ RecordsFirst(todo)'
  BY CompactingKeeps DEF CompactReopen
<1>2. /\ ~ fh /\ buffered = <<>> /\ exists
      /\ UNCHANGED <<exists, written, buffered, torn, phase, dirty>>
  BY <1>1 DEF CompactReopen, Handles
<1>3. \/ compaction' = "none" /\ recovering' = FALSE /\ fh' = TRUE /\ UNCHANGED failures
      \/ /\ compaction' \in {"none", "write"} /\ recovering' \in BOOLEAN /\ failures' \in Nat
         /\ UNCHANGED fh
  <2>1. failures \in Nat
    BY DEF TypeOK
  <2> QED
    BY <2>1, CompactFailsMoves DEF CompactReopen
<1>4. Held' = Held /\ Full' = Full
  BY <1>2 DEF Held, Full
<1>5. TypeOK'
  <2>1. fh' \in BOOLEAN /\ recovering' \in BOOLEAN
    BY <1>3, Zenon DEF TypeOK
  <2>2. compaction' \in Syscall /\ failures' \in Nat
    BY <1>3 DEF TypeOK, Syscall
  <2> QED
    BY <1>1, <1>2, <2>1, <2>2 DEF TypeOK
<1>6. Handles'
  BY <1>1, <1>2, <1>3 DEF Handles
<1>7. FileMatchesMemory'
  BY <1>1, <1>2, <1>4 DEF FileMatchesMemory, Matches
<1> QED
  BY <1>1, <1>2, <1>4, <1>5, <1>6, <1>7, FileIInv

\* The process ends: only the file is left.
LEMMA CrashIInv == ASSUME IInv, Crash PROVE IInv'
<1> USE DEF IInv
<1>1. /\ phase' = "down" /\ alive_nodes' = {} /\ last' = NoTimes /\ leaving' = FALSE
      /\ buffered' = <<>> /\ fh' = FALSE /\ todo' = <<>> /\ compaction' = "none"
      /\ recovering' = FALSE /\ clock' = 1 /\ shutdown' = FALSE
      /\ UNCHANGED <<exists, written, torn, rejoin_after_leave, dirty, left, failures>>
  BY DEF Crash
<1>2. TypeOK'
  <2>1. last' \in [Clocks -> Nat] /\ alive_nodes' \in SUBSET Node
    BY <1>1 DEF NoTimes
  <2>2. buffered' \in Seq(Image) /\ todo' \in Seq(Op)
    BY <1>1
  <2>3. phase' \in Phase /\ compaction' \in Syscall /\ clock' \in Nat \ {0}
    BY <1>1 DEF Phase, Syscall
  <2> QED
    BY <1>1, <2>1, <2>2, <2>3, Zenon DEF TypeOK
<1>3. Held' = {written} /\ written \in Held
  BY <1>1, SMTT(30) DEF Held
<1>4. RecordsFirst(todo)' /\ Handles'
  BY <1>1, SMTT(30) DEF RecordsFirst, Handles
<1>5. Behind' /\ Forgotten' /\ FileMatchesMemory'
  BY <1>1, SMTT(30) DEF Behind, Forgotten, FileMatchesMemory
<1>6. Gone'
  BY <1>1, <1>3 DEF Gone
<1> QED
  BY <1>2, <1>4, <1>5, <1>6

\* The next start takes its memory from the file.
LEMMA RestartIInv == ASSUME IInv, Restart PROVE IInv'
<1> USE DEF IInv
<1>1. /\ phase = "down" /\ phase' = "running" /\ exists' = TRUE /\ fh' = TRUE
      /\ alive_nodes' = written.nodes /\ last' = written.last /\ leaving' = FALSE
      /\ clock' = last'["clock"] + 1 /\ dirty' = FALSE /\ left' = FALSE
      /\ UNCHANGED <<written, buffered, torn, todo, compaction, recovering, shutdown,
                     rejoin_after_leave, failures>>
  BY SMTT(30) DEF Restart
<1>2. buffered = <<>> /\ todo = <<>> /\ compaction = "none"
  BY <1>1 DEF Handles
<1>3. /\ written.nodes \in SUBSET Node /\ written.last \in [Clocks -> Nat]
      /\ written.last["clock"] \in Nat
  BY SMTT(30) DEF TypeOK, Image, Clocks
<1>4. TypeOK'
  <2>1. phase' \in Phase
    BY <1>1 DEF Phase
  <2>2. clock' \in Nat \ {0}
    BY <1>1, <1>3
  <2> QED
    BY <1>1, <1>3, <2>1, <2>2, Zenon DEF TypeOK
<1>5. Held' = {written} /\ Full' = written
  BY <1>1, <1>2 DEF Held, Full
<1>6. RecordsFirst(todo)'
  BY <1>1, <1>2 DEF RecordsFirst
<1>7. Handles'
  BY <1>1, <1>2, SMTT(30) DEF Handles
<1>8. Behind'
  BY <1>1, <1>3, <1>5, SMTT(30) DEF Behind
<1>9. Forgotten' /\ Gone'
  BY <1>1 DEF Forgotten, Gone
<1>10. FileMatchesMemory'
  BY <1>1, <1>5 DEF FileMatchesMemory, Matches
<1> QED
  BY <1>4, <1>6, <1>7, <1>8, <1>9, <1>10, SMTT(30)

\* Nothing of the snapshotter moves, and the clock of the node only forward.
LEMMA QuietIInv ==
  ASSUME IInv, UNCHANGED <<memory, disk, tasks, rejoin_after_leave, dirty, left, failures>>,
         clock' \in Nat, clock' >= clock, shutdown' \in BOOLEAN
  PROVE  IInv'
<1> USE DEF IInv
<1>1. /\ UNCHANGED <<alive_nodes, last, leaving, exists, written, buffered, torn, fh>>
      /\ UNCHANGED <<phase, todo, compaction, recovering, rejoin_after_leave, dirty, left, failures>>
  BY DEF memory, disk, tasks
<1>2. TypeOK'
  <2>1. clock' \in Nat \ {0}
    BY DEF TypeOK
  <2> QED
    BY <1>1, <2>1 DEF TypeOK
<1>3. Held' = Held /\ Full' = Full
  BY <1>1, SMTT(30) DEF Held, Full
<1>4. RecordsFirst(todo)'
  BY <1>1, Zenon DEF RecordsFirst, IsRecord
<1>5. Handles' /\ Forgotten' /\ Gone'
  BY <1>1, <1>3, SMTT(30) DEF Handles, Forgotten, Gone
<1>6. Behind'
  <2>1. last["clock"] \in Nat /\ clock \in Nat
    BY DEF TypeOK, Clocks
  <2>2. phase # "down" => last["clock"] < clock
    BY DEF Behind
  <2>3. phase # "down" => last["clock"] < clock'
    BY <2>1, <2>2
  <2>4. phase # "down" => \A im \in Held, c \in Clocks : im.last[c] <= last[c]
    BY Zenon DEF Behind
  <2> QED
    BY <1>1, <1>3, <2>3, <2>4, Zenon DEF Behind
<1>7. FileMatchesMemory'
  BY <1>1, <1>3 DEF FileMatchesMemory, Matches
<1> QED
  BY <1>2, <1>4, <1>5, <1>6, <1>7

\* An event is recorded, or ends the loop.
LEMMA RecordedIInv ==
  ASSUME IInv, NEW ops, Recorded(ops), ~ leaving => ops \in Seq(Op) /\ RecordsFirst(ops)
  PROVE  IInv'
<1>1. phase \in {"running", "ending"} /\ UNCHANGED env
  BY DEF Recorded
<1>2. CASE ~ leaving
  <2>1. phase' = phase /\ Do(ops)
    BY <1>2 DEF Recorded
  <2>2. phase # "down" /\ phase' \in Phase \ {"down"}
    BY <1>1, <2>1 DEF Phase
  <2> QED
    BY <1>1, <1>2, <2>1, <2>2, DoIInv
<1>3. CASE leaving
  <2>1. PICK ty \in {"update_clock", "sync"} : Do(<<[ty |-> ty]>>)
    BY <1>1, <1>3 DEF Recorded
  <2>2. phase # "down" /\ phase' \in Phase \ {"down"}
    BY <1>1, <1>3 DEF Recorded, Phase
  <2>3. <<[ty |-> ty]>> \in Seq(Op) /\ RecordsFirst(<<[ty |-> ty]>>)
    BY OtherOpsOK
  <2> QED
    BY <1>1, <2>1, <2>2, <2>3, DoIInv, SMTT(30)
<1> QED
  BY <1>2, <1>3

\* The other steps of the main loop and of the drain.
LEMMA LoopIInv ==
  ASSUME IInv, Leave \/ Tick \/ DrainEnd \/ \E pending \in BOOLEAN : SeeShutdown(pending)
  PROVE  IInv'
<1>1. CASE Leave
  <2>1. phase = "running" /\ phase' = phase /\ UNCHANGED env /\ Do(LeaveOps) /\ ~ leaving
    BY <1>1 DEF Leave
  <2>2. LeaveOps \in Seq(Op) /\ RecordsFirst(LeaveOps)
    BY <2>1, OtherOpsOK
  <2> QED
    BY <2>1, <2>2, DoIInv DEF Phase
<1>2. CASE Tick \/ DrainEnd
  <2>1. PICK ty \in {"update_clock", "sync"} : Do(<<[ty |-> ty]>>)
    BY <1>2 DEF Tick, DrainEnd
  <2>2. phase \in {"running", "ending"} /\ phase' \in {"running", "closing"} /\ UNCHANGED env
    BY <1>2 DEF Tick, DrainEnd
  <2>3. <<[ty |-> ty]>> \in Seq(Op) /\ RecordsFirst(<<[ty |-> ty]>>)
    BY OtherOpsOK
  <2> QED
    BY <2>1, <2>2, <2>3, DoIInv, Zenon DEF Phase
<1>3. ASSUME NEW pending \in BOOLEAN, SeeShutdown(pending) PROVE IInv'
  <2> DEFINE ops == (IF pending THEN LeaveOps ELSE <<>>) \o <<[ty |-> "update_clock"]>>
  <2>1. phase = "running" /\ phase' = "ending" /\ UNCHANGED env /\ Do(ops) /\ (pending => ~ leaving)
    BY <1>3 DEF SeeShutdown
  <2>2. ops \in Seq(Op) /\ RecordsFirst(ops)
    BY <2>1, OtherOpsOK
  <2> HIDE DEF ops
  <2> QED
    BY <2>1, <2>2, DoIInv DEF Phase
<1> QED
  BY <1>1, <1>2, <1>3

\* The first record of a handler's list.
LEMMA AppendRecordIInv == ASSUME IInv, AppendRecord PROVE IInv'
<1> DEFINE r == Head(todo)
<1>1. /\ phase \in {"running", "ending", "closing"} /\ compaction = "none" /\ todo # <<>>
      /\ r \in Record /\ try_append(r)
  BY DEF AppendRecord, Busy
<1>2. todo \in Seq(Op) /\ RecordsFirst(todo) /\ last \in [Clocks -> Nat]
  BY DEF IInv, TypeOK
<1>3. Len(todo) \in Nat /\ 1 \in 1 .. Len(todo) /\ r = todo[1]
  BY <1>1, <1>2
<1> HIDE DEF r
<1>4. IsRecord(r)
  BY <1>1 DEF Record, IsRecord
<1>5. ~ leaving /\ (r.ty = "Clock" => r.of # "clock" /\ r.time > last[r.of])
  BY <1>2, <1>3, <1>4 DEF RecordsFirst
<1>6. r.ty = "Clock" => r.of \in Clocks /\ r.time \in Nat
  BY <1>1 DEF Record
<1>7. r.ty = "Clock" => r.time >= last[r.of] /\ (r.of = "clock" => r.time < clock)
  BY <1>2, <1>5, <1>6
<1> QED
  BY <1>1, <1>5, <1>7, AppendIInv

\* update_clock records the time before the next one of the clock.
LEMMA UpdateClockIInv == ASSUME IInv, UpdateClock PROVE IInv'
<1> DEFINE r == [ty |-> "Clock", of |-> "clock", time |-> clock - 1]
<1>1. phase \in {"running", "ending", "closing"} /\ compaction = "none" /\ todo # <<>>
  BY DEF UpdateClock, Busy
<1>2. clock \in Nat \ {0} /\ last \in [Clocks -> Nat] /\ last["clock"] \in Nat
  BY DEF IInv, TypeOK, Clocks
<1>3. CASE clock - 1 > last["clock"]
  <2>1. try_append(r)
    BY <1>3 DEF UpdateClock
  <2>2. r.ty = "Clock" /\ r.of = "clock" /\ r.time = clock - 1
    OBVIOUS
  <2>3. r \in Record
    BY <1>2 DEF Record, Clocks
  <2> HIDE DEF r
  <2>4. r.time >= last[r.of] /\ r.time < clock
    BY <1>2, <1>3, <2>2, SMTT(30)
  <2> QED
    BY <1>1, <2>1, <2>2, <2>3, <2>4, AppendIInv
<1>4. CASE ~ (clock - 1 > last["clock"])
  <2>1. /\ todo' = Tail(todo)
        /\ UNCHANGED <<memory, disk, phase, compaction, recovering, env, dirty, left, failures>>
    BY <1>4 DEF UpdateClock
  <2>2. /\ UNCHANGED <<alive_nodes, last, leaving, exists, written, buffered, torn, fh>>
        /\ UNCHANGED <<clock, shutdown, rejoin_after_leave>>
    BY <2>1 DEF memory, disk, env
  <2>3. Tail(todo) \in Seq(Op) /\ \A i \in 1 .. Len(Tail(todo)) : ~ IsRecord(Tail(todo)[i])
    BY <1>1, TailOps, SMTT(30) DEF IInv
  <2>4. RecordsFirst(todo)'
    BY <2>1, <2>3, SMTT(30) DEF RecordsFirst, IsRecord
  <2>5. TypeOK'
    BY <2>1, <2>2, <2>3 DEF IInv, TypeOK
  <2>6. Held' = Held /\ Full' = Full
    BY <2>2, SMTT(30) DEF Held, Full
  <2>7. Handles' /\ FileMatchesMemory'
    BY <1>1, <2>1, <2>2, <2>6 DEF IInv, Handles, FileMatchesMemory, Matches
  <2> QED
    BY <1>1, <2>1, <2>4, <2>5, <2>6, <2>7, FileIInv
<1> QED
  BY <1>3, <1>4, SMTT(30)

\* Every step keeps the invariant.
LEMMA StepIInv == ASSUME IInv, [Next]_vars PROVE IInv'
<1>1. ASSUME NEW ty \in {"Join", "Leave", "Failed", "Reap"}, NEW n \in Node, MemberEvent(ty, n)
      PROVE  IInv'
  <2>1. ~ leaving => MemberOps(ty, n) \in Seq(Op) /\ RecordsFirst(MemberOps(ty, n))
    BY MemberOpsOK
  <2> QED
    BY <1>1, <2>1, RecordedIInv DEF MemberEvent
<1>2. ASSUME NEW of \in Timed, NEW ltime \in 1 .. MaxTime, TimedEvent(of, ltime) PROVE IInv'
  <2>1. of \in Clocks \ {"clock"} /\ ltime \in Nat
    BY SnapshotBounds DEF Clocks
  <2>2. ~ leaving => TimeOps(of, ltime) \in Seq(Op) /\ RecordsFirst(TimeOps(of, ltime))
    BY <2>1, TimeOpsOK DEF IInv
  <2> QED
    BY <1>2, <2>2, RecordedIInv DEF TimedEvent
<1>3. CASE Events
  BY <1>1, <1>2, <1>3 DEF Events
<1>4. CASE Leave \/ Tick \/ DrainEnd \/ \E pending \in BOOLEAN : SeeShutdown(pending)
  BY <1>4, LoopIInv
<1>5. CASE Close
  BY <1>5, CloseIInv
<1>6. CASE AppendRecord
  BY <1>6, AppendRecordIInv
<1>7. CASE UpdateClock
  BY <1>7, UpdateClockIInv
<1>8. CASE Sync
  BY <1>8, SyncIInv
<1>9. CASE Compact
  BY <1>9, CompactWriteIInv, CompactTakeIInv, CompactRemoveIInv, CompactRenameIInv,
     CompactReopenIInv DEF Compact
<1>10. CASE ClockAdvances \/ SignalShutdown
  <2>1. clock \in Nat /\ shutdown \in BOOLEAN
    BY DEF IInv, TypeOK
  <2>2. /\ UNCHANGED <<memory, disk, tasks, rejoin_after_leave, dirty, left, failures>>
        /\ clock' \in {clock, clock + 1} /\ shutdown' \in {shutdown, TRUE}
    BY <1>10, Zenon DEF ClockAdvances, SignalShutdown
  <2>3. clock' \in Nat /\ clock' >= clock
    BY <2>1, <2>2
  <2>4. shutdown' \in BOOLEAN
    BY <2>1, <2>2, Zenon
  <2> QED
    BY <2>2, <2>3, <2>4, QuietIInv
<1>11. CASE Crash
  BY <1>11, CrashIInv
<1>12. CASE Restart
  BY <1>12, RestartIInv
<1>13. CASE UNCHANGED vars
  <2>1. clock' = clock /\ shutdown' = shutdown
    BY <1>13 DEF vars, env
  <2>2. clock' \in Nat /\ clock' >= clock /\ shutdown' \in BOOLEAN
    BY <2>1 DEF IInv, TypeOK
  <2>3. UNCHANGED <<memory, disk, tasks, rejoin_after_leave, dirty, left, failures>>
    BY <1>13 DEF vars, env
  <2> QED
    BY <2>2, <2>3, QuietIInv
<1> QED
  BY <1>3, <1>4, <1>5, <1>6, <1>7, <1>8, <1>9, <1>10, <1>11, <1>12, <1>13, Zenon DEF Next

-----------------------------------------------------------------------------
(* The theorems.                                                           *)

\* Type correctness, and what the snapshotter wrote and buffered replays to its memory,
\* through appends, flushes that fail half-way, compactions and restarts, as long as no
\* error told it that a record is missing.
THEOREM SnapshotFile == Spec => [](TypeOK /\ FileMatchesMemory)
<1>1. IInv => TypeOK /\ FileMatchesMemory
  BY DEF IInv
<1> QED
  BY InitIInv, StepIInv, <1>1, PTL DEF Spec

\* The times of the file are never above those of the memory, nor these at the clock: a
\* node that crashes anywhere does not come back in the future.
THEOREM SnapshotTimes == Spec => []TimesBehind
<1>1. IInv => TimesBehind
  BY SMTT(30) DEF IInv, Behind, TimesBehind, Held
<1> QED
  BY InitIInv, StepIInv, <1>1, PTL DEF Spec

\* After a handle_leave that was synced the file never holds a member again, whatever is
\* appended, compacted or interrupted, unless rejoin_after_leave is set.
THEOREM SnapshotLeave == Spec => []LeaveForgets
<1>1. IInv => LeaveForgets
  BY DEF IInv, Gone, LeaveForgets, Held
<1> QED
  BY InitIInv, StepIInv, <1>1, PTL DEF Spec
=============================================================================
