------------------------- MODULE ImmediateContextProofs -------------------------
(***************************************************************************)
(* Proofs about ImmediateContext for every number of threads, buffers,     *)
(* slices and chunks, every chunk capacity and every mix of usages.        *)
(***************************************************************************)
EXTENDS ImmediateContext, CsThreadProofs, DataInduction

-----------------------------------------------------------------------------
(* Commands.                                                               *)

\* What a command is made of.
LEMMA IssuedFields ==
  ASSUME NEW c \in Issued
  PROVE  /\ c.op \in {"use", "rename", "flush"}
         /\ c.op = "use" => c.buf \in Buffers /\ c.slice \in Slices /\ c.access \in Access
         /\ c.op = "rename" => /\ c.buf \in Buffers /\ c.slice \in Slices
                               /\ c = Rename(c.buf, c.slice)
  <1>1. c \in Command
    BY DEF Issued
  <1>2. CASE c = FlushCommand
    BY <1>2 DEF FlushCommand
  <1>3. CASE \E b \in Buffers, s \in Slices : c = Rename(b, s)
    BY <1>3 DEF Rename
  <1>4. CASE \E b \in Buffers, s \in Slices \cup {NoSlice}, acc \in Access : c = Use(b, s, acc)
    <2>1. PICK b \in Buffers, s \in Slices \cup {NoSlice}, acc \in Access : c = Use(b, s, acc)
      BY <1>4
    <2>2. c.op = "use" /\ c.buf = b /\ c.slice = s /\ c.access = acc
      BY <2>1 DEF Use
    <2>3. c.slice # NoSlice
      BY <2>2 DEF Issued
    <2> QED BY <2>2, <2>3
  <1> QED BY <1>1, <1>2, <1>3, <1>4 DEF Command

\* The commands a context emits are of this kind.
LEMMA IssuedUse ==
  ASSUME NEW b \in Buffers, NEW s \in Slices, NEW acc \in Access
  PROVE  /\ Use(b, s, acc) \in Issued /\ Use(b, s, acc).op = "use"
         /\ Use(b, s, acc).buf = b /\ Use(b, s, acc).slice = s
  <1>1. Use(b, s, acc) \in Command /\ Use(b, s, acc).slice = s
    BY DEF Command, Use
  <1>2. s # NoSlice
    BY ContextAssumption
  <1> QED BY <1>1, <1>2 DEF Issued, Use

\* A rename is a command.
LEMMA IssuedRename ==
  ASSUME NEW b \in Buffers, NEW s \in Slices
  PROVE  /\ Rename(b, s) \in Issued /\ Rename(b, s).op = "rename"
         /\ Rename(b, s).buf = b /\ Rename(b, s).slice = s
  <1>1. Rename(b, s) \in Command /\ Rename(b, s).op = "rename"
    BY DEF Command, Rename
  <1> QED BY <1>1 DEF Issued, Rename

\* A flush is a command.
LEMMA IssuedFlush == FlushCommand \in Issued /\ FlushCommand.op = "flush"
  <1>1. FlushCommand \in Command /\ FlushCommand.op = "flush"
    BY DEF Command, FlushCommand
  <1> QED BY <1>1 DEF Issued

\* What is dispatched is made of commands.
LEMMA IssuedCommands == Issued \subseteq Commands
  BY ContextAssumption DEF Issued

-----------------------------------------------------------------------------
(* Sequences of commands: one more at the end, one less at the front.      *)

\* The elements of a sequence to which one is appended.
LEMMA AppendAt ==
  ASSUME NEW T, NEW u \in Seq(T), NEW c \in T
  PROVE  /\ Append(u, c) \in Seq(T) /\ Append(u, c) # <<>>
         /\ Len(u) \in Nat /\ Len(Append(u, c)) = Len(u) + 1
         /\ DOMAIN u = 1..Len(u) /\ DOMAIN Append(u, c) = 1..(Len(u) + 1)
         /\ Append(u, c)[Len(u) + 1] = c
         /\ \A i \in 1..Len(u) : Append(u, c)[i] = u[i] /\ u[i] \in T
  BY AppendProperties

\* The elements of a sequence from which the first is taken.
LEMMA TailAt ==
  ASSUME NEW T, NEW u \in Seq(T), u # <<>>
  PROVE  /\ Tail(u) \in Seq(T) /\ Head(u) \in T /\ Head(u) = u[1]
         /\ Len(u) \in Nat \ {0} /\ Len(Tail(u)) = Len(u) - 1
         /\ DOMAIN u = 1..Len(u) /\ DOMAIN Tail(u) = 1..(Len(u) - 1)
         /\ \A i \in 1..(Len(u) - 1) : Tail(u)[i] = u[i + 1] /\ u[i + 1] \in T
  BY HeadTailProperties

\* Emitting a command adds at most the rename it is.
LEMMA RenamedAppend ==
  ASSUME NEW u \in Seq(Issued), NEW c \in Issued, NEW b, NEW s
  PROVE  Renamed(Append(u, c), b, s) <=> Renamed(u, b, s) \/ c = Rename(b, s)
  <1>1. /\ Len(u) \in Nat /\ DOMAIN u = 1..Len(u) /\ DOMAIN Append(u, c) = 1..(Len(u) + 1)
        /\ Append(u, c)[Len(u) + 1] = c
        /\ \A i \in 1..Len(u) : Append(u, c)[i] = u[i]
    BY AppendAt
  <1>2. \A i \in 1..(Len(u) + 1) : i \in 1..Len(u) \/ i = Len(u) + 1
    BY <1>1
  <1> QED BY <1>1, <1>2 DEF Renamed

\* Executing one takes away at most the rename it is.
LEMMA RenamedTail ==
  ASSUME NEW u \in Seq(Issued), u # <<>>, NEW b, NEW s
  PROVE  Renamed(u, b, s) <=> Renamed(Tail(u), b, s) \/ Head(u) = Rename(b, s)
  <1>1. /\ Head(u) = u[1] /\ Len(u) \in Nat \ {0}
        /\ DOMAIN u = 1..Len(u) /\ DOMAIN Tail(u) = 1..(Len(u) - 1)
        /\ \A i \in 1..(Len(u) - 1) : Tail(u)[i] = u[i + 1]
    BY TailAt
  <1>2. \A i \in 1..Len(u) : i = 1 \/ (i - 1 \in 1..(Len(u) - 1) /\ (i - 1) + 1 = i)
    BY <1>1
  <1>3. \A i \in 1..(Len(u) - 1) : i + 1 \in 1..Len(u)
    BY <1>1
  <1>4. 1 \in 1..Len(u)
    BY <1>1
  <1>5. ASSUME Renamed(u, b, s), ~Renamed(Tail(u), b, s) PROVE Head(u) = Rename(b, s)
    <2>1. PICK i \in 1..Len(u) : u[i] = Rename(b, s)
      BY <1>1, <1>5 DEF Renamed
    <2>2. CASE i = 1
      BY <1>1, <2>1, <2>2
    <2>3. CASE i # 1
      <3>1. i - 1 \in DOMAIN Tail(u) /\ Tail(u)[i - 1] = u[i]
        BY <1>1, <1>2, <2>3
      <3> QED BY <1>5, <2>1, <3>1 DEF Renamed
    <2> QED BY <2>2, <2>3
  <1>6. ASSUME Renamed(Tail(u), b, s) \/ Head(u) = Rename(b, s) PROVE Renamed(u, b, s)
    BY <1>1, <1>3, <1>4, <1>6 DEF Renamed
  <1> QED BY <1>5, <1>6

\* No slice is bound twice, if the new one is not yet to be bound.
LEMMA RenamedOnceAppend ==
  ASSUME NEW u \in Seq(Issued), NEW c \in Issued, RenamedOnce(u),
         c.op = "rename" => ~Renamed(u, c.buf, c.slice)
  PROVE  RenamedOnce(Append(u, c))
  <1> DEFINE v == Append(u, c)
  <1>1. /\ Len(u) \in Nat /\ DOMAIN u = 1..Len(u) /\ DOMAIN v = 1..(Len(u) + 1)
        /\ v[Len(u) + 1] = c
        /\ \A i \in 1..Len(u) : v[i] = u[i]
    BY AppendAt
  <1> HIDE DEF v
  <1>2. \A i \in 1..(Len(u) + 1) : i \in 1..Len(u) \/ i = Len(u) + 1
    BY <1>1
  <1>3. SUFFICES ASSUME NEW i \in DOMAIN v, NEW j \in DOMAIN v, v[i].op = "rename", v[i] = v[j]
                 PROVE  i = j
    BY DEF RenamedOnce, v
  <1>4. c.op = "rename" => c = Rename(c.buf, c.slice)
    BY IssuedFields
  <1>5. \A k \in 1..Len(u) : c.op = "rename" => u[k] # c
    BY <1>1, <1>4 DEF Renamed
  <1>6. CASE i \in 1..Len(u) /\ j \in 1..Len(u)
    BY <1>1, <1>3, <1>6 DEF RenamedOnce
  <1>7. CASE i = Len(u) + 1 /\ j = Len(u) + 1
    BY <1>7
  <1>8. CASE i = Len(u) + 1 /\ j \in 1..Len(u)
    BY <1>1, <1>3, <1>5, <1>8
  <1>9. CASE j = Len(u) + 1 /\ i \in 1..Len(u)
    BY <1>1, <1>3, <1>5, <1>9
  <1> QED BY <1>1, <1>2, <1>6, <1>7, <1>8, <1>9

\* The rename that is executed was the only one to its slice.
LEMMA RenamedOnceTail ==
  ASSUME NEW u \in Seq(Issued), u # <<>>, RenamedOnce(u)
  PROVE  /\ RenamedOnce(Tail(u))
         /\ Head(u).op = "rename" => ~Renamed(Tail(u), Head(u).buf, Head(u).slice)
  <1>1. /\ Head(u) = u[1] /\ Head(u) \in Issued /\ Len(u) \in Nat \ {0}
        /\ DOMAIN u = 1..Len(u) /\ DOMAIN Tail(u) = 1..(Len(u) - 1)
        /\ \A i \in 1..(Len(u) - 1) : Tail(u)[i] = u[i + 1]
    BY TailAt
  <1>3. \A i \in 1..(Len(u) - 1) : i + 1 \in 1..Len(u) /\ i + 1 # 1 /\ 1 \in 1..Len(u)
    BY <1>1
  <1>4. RenamedOnce(Tail(u))
    <2> SUFFICES ASSUME NEW i \in 1..(Len(u) - 1), NEW j \in 1..(Len(u) - 1),
                        u[i + 1].op = "rename", u[i + 1] = u[j + 1]
                 PROVE  i = j
      BY <1>1 DEF RenamedOnce
    <2>1. i + 1 = j + 1
      BY <1>1, <1>3 DEF RenamedOnce
    <2> QED BY <1>1, <2>1
  <1>5. ASSUME Head(u).op = "rename", Renamed(Tail(u), Head(u).buf, Head(u).slice)
        PROVE  FALSE
    <2>1. Head(u) = Rename(Head(u).buf, Head(u).slice)
      BY <1>1, <1>5, IssuedFields
    <2>2. PICK i \in 1..(Len(u) - 1) : u[i + 1] = Head(u)
      BY <1>1, <1>5, <2>1 DEF Renamed
    <2> QED BY <1>1, <1>3, <1>5, <2>2 DEF RenamedOnce
  <1> QED BY <1>4, <1>5

\* What is bound before a command does not depend on those after it.
LEMMA BoundAtAppend ==
  ASSUME NEW u \in Seq(Issued), NEW c \in Issued, NEW first, NEW b, NEW s,
         NEW p \in 1..(Len(u) + 1), BoundAt(u, first, b, p, s)
  PROVE  BoundAt(Append(u, c), first, b, p, s)
  <1>1. Len(u) \in Nat /\ \A i \in 1..Len(u) : Append(u, c)[i] = u[i]
    BY AppendAt
  <1>2. \A i \in 1..(p - 1) : Append(u, c)[i] = u[i]
    BY <1>1
  <1>3. \A i \in 1..(p - 1) : \A j \in (i + 1)..(p - 1) : j \in 1..(p - 1)
    BY <1>1
  <1> QED BY <1>2, <1>3 DEF BoundAt, IsRename

\* The last command binds its slice, or nothing.
LEMMA BoundAtEnd ==
  ASSUME NEW u \in Seq(Issued), NEW c \in Issued, NEW first, NEW b, NEW s,
         IF IsRename(c, b) THEN s = c.slice ELSE BoundAt(u, first, b, Len(u) + 1, s)
  PROVE  BoundAt(Append(u, c), first, b, Len(Append(u, c)) + 1, s)
  <1> DEFINE v == Append(u, c)
  <1>1. /\ Len(u) \in Nat /\ Len(v) = Len(u) + 1 /\ v[Len(u) + 1] = c
        /\ \A i \in 1..Len(u) : v[i] = u[i]
    BY AppendAt
  <1> HIDE DEF v
  <1>2. (Len(v) + 1) - 1 = Len(u) + 1 /\ (Len(u) + 1) - 1 = Len(u)
    BY <1>1
  <1>3. CASE IsRename(c, b)
    <2>1. Len(u) + 1 \in 1..(Len(u) + 1) /\ ((Len(u) + 1) + 1)..(Len(u) + 1) = {}
      BY <1>1
    <2>2. BoundAt(v, first, b, Len(v) + 1, s)
      BY <1>1, <1>2, <1>3, <2>1 DEF BoundAt
    <2> QED BY <2>2 DEF v
  <1>4. CASE ~IsRename(c, b)
    <2>1. BoundAt(u, first, b, Len(u) + 1, s)
      BY <1>4
    <2>2. \A i \in 1..(Len(u) + 1) : i \in 1..Len(u) \/ v[i] = c
      BY <1>1
    <2>3. CASE s = first /\ \A i \in 1..Len(u) : ~IsRename(u[i], b)
      <3>1. \A i \in 1..(Len(u) + 1) : ~IsRename(v[i], b)
        BY <1>1, <1>4, <2>2, <2>3
      <3>2. BoundAt(v, first, b, Len(v) + 1, s)
        BY <1>2, <2>3, <3>1 DEF BoundAt
      <3> QED BY <3>2 DEF v
    <2>4. CASE \E i \in 1..Len(u) : /\ IsRename(u[i], b) /\ u[i].slice = s
                                    /\ \A j \in (i + 1)..Len(u) : ~IsRename(u[j], b)
      <3>1. PICK i \in 1..Len(u) : /\ IsRename(u[i], b) /\ u[i].slice = s
                                   /\ \A j \in (i + 1)..Len(u) : ~IsRename(u[j], b)
        BY <2>4
      <3>2. i \in 1..(Len(u) + 1) /\ v[i] = u[i]
        BY <1>1
      <3>3. \A j \in (i + 1)..(Len(u) + 1) : ~IsRename(v[j], b)
        <4>1. \A j \in (i + 1)..(Len(u) + 1) : j \in (i + 1)..Len(u) \/ j = Len(u) + 1
          BY <1>1
        <4>2. \A j \in (i + 1)..Len(u) : v[j] = u[j]
          BY <1>1
        <4> QED BY <1>1, <1>4, <3>1, <4>1, <4>2
      <3>4. BoundAt(v, first, b, Len(v) + 1, s)
        BY <1>2, <3>1, <3>2, <3>3 DEF BoundAt
      <3> QED BY <3>4 DEF v
    <2> QED BY <1>2, <2>1, <2>3, <2>4 DEF BoundAt
  <1> QED BY <1>3, <1>4

\* Executing the first command binds its slice, or nothing.
LEMMA BoundAtTail ==
  ASSUME NEW u \in Seq(Issued), u # <<>>, NEW first, NEW b, NEW s,
         NEW p \in 1..Len(u), BoundAt(u, first, b, p + 1, s)
  PROVE  BoundAt(Tail(u), IF IsRename(Head(u), b) THEN Head(u).slice ELSE first, b, p, s)
  <1> DEFINE v == Tail(u)
             now == IF IsRename(Head(u), b) THEN Head(u).slice ELSE first
  <1>1. /\ Head(u) = u[1] /\ Len(u) \in Nat \ {0} /\ Len(v) = Len(u) - 1
        /\ \A i \in 1..(Len(u) - 1) : v[i] = u[i + 1]
    BY TailAt
  <1> HIDE DEF v
  <1>2. (p + 1) - 1 = p
    BY <1>1
  <1>3. \A i \in 1..(p - 1) : v[i] = u[i + 1] /\ i + 1 \in 1..p /\ i + 1 # 1
    BY <1>1, SMTT(20)
  <1>4. 1 \in 1..p
    BY <1>1
  <1>5. CASE s = first /\ \A i \in 1..p : ~IsRename(u[i], b)
    <2>1. now = first
      BY <1>1, <1>4, <1>5
    <2>2. \A i \in 1..(p - 1) : ~IsRename(v[i], b)
      BY <1>3, <1>5
    <2>3. BoundAt(v, now, b, p, s)
      BY <1>5, <2>1, <2>2 DEF BoundAt
    <2> QED BY <2>3 DEF v
  <1>6. CASE \E i \in 1..p : /\ IsRename(u[i], b) /\ u[i].slice = s
                             /\ \A j \in (i + 1)..p : ~IsRename(u[j], b)
    <2>1. PICK i \in 1..p : /\ IsRename(u[i], b) /\ u[i].slice = s
                            /\ \A j \in (i + 1)..p : ~IsRename(u[j], b)
      BY <1>6
    <2>2. CASE i = 1
      <3>1. s = now
        BY <1>1, <2>1, <2>2
      <3>2. \A j \in 1..(p - 1) : j + 1 \in (i + 1)..p
        BY <1>1, <2>2
      <3>3. \A j \in 1..(p - 1) : ~IsRename(v[j], b)
        BY <1>3, <2>1, <3>2
      <3>4. BoundAt(v, now, b, p, s)
        BY <3>1, <3>3 DEF BoundAt
      <3> QED BY <3>4 DEF v
    <2>3. CASE i # 1
      <3>1. i - 1 \in 1..(p - 1) /\ (i - 1) + 1 = i
        BY <1>1, <2>3
      <3>2. v[i - 1] = u[i]
        BY <1>3, <3>1
      <3>3. \A j \in ((i - 1) + 1)..(p - 1) : j \in 1..(p - 1) /\ j + 1 \in (i + 1)..p
        BY <1>1
      <3>4. \A j \in ((i - 1) + 1)..(p - 1) : ~IsRename(v[j], b)
        BY <1>3, <2>1, <3>3
      <3>5. BoundAt(v, now, b, p, s)
        BY <2>1, <3>1, <3>2, <3>4 DEF BoundAt
      <3> QED BY <3>5 DEF v
    <2> QED BY <2>2, <2>3
  <1> QED BY <1>2, <1>5, <1>6 DEF BoundAt

\* What is bound now, at the first command.
LEMMA BoundAtFirst ==
  ASSUME NEW u, NEW first, NEW b, NEW s
  PROVE  BoundAt(u, first, b, 1, s) <=> s = first
  BY DEF BoundAt

\* A slice that is bound at some point is bound now or renamed to.
LEMMA BoundIsRenamed ==
  ASSUME NEW u \in Seq(Issued), NEW first, NEW b, NEW s, NEW p \in 1..(Len(u) + 1),
         BoundAt(u, first, b, p, s)
  PROVE  s = first \/ Renamed(u, b, s)
  <1>1. SUFFICES ASSUME NEW i \in 1..(p - 1), IsRename(u[i], b), u[i].slice = s
                 PROVE  Renamed(u, b, s)
    BY DEF BoundAt
  <1>2. i \in 1..Len(u) /\ DOMAIN u = 1..Len(u) /\ u[i] \in Issued
    BY AppendAt
  <1>3. u[i] = Rename(b, s)
    BY <1>1, <1>2, IssuedFields DEF IsRename
  <1> QED BY <1>2, <1>3 DEF Renamed

-----------------------------------------------------------------------------
(* One more command is recorded: slices keep one owner, and uses find the  *)
(* slice they mean.                                                        *)

\* A new rename is to a slice that is reserved for it.
LEMMA CommandsOwnAppend ==
  ASSUME NEW u \in Seq(Issued), NEW c \in Issued, NEW lists, NEW bound, NEW avail, NEW left,
         CommandsOwn(u, lists, bound, avail),
         \A b \in Buffers : left[b] \subseteq avail[b],
         c.op = "rename" => /\ Reserved(lists, bound, left, c.buf, c.slice)
                            /\ ~Renamed(u, c.buf, c.slice)
  PROVE  CommandsOwn(Append(u, c), lists, bound, left)
  <1>1. RenamedOnce(Append(u, c))
    BY RenamedOnceAppend DEF CommandsOwn
  <1>2. ASSUME NEW b \in Buffers, NEW s \in Slices, Renamed(Append(u, c), b, s)
        PROVE  Reserved(lists, bound, left, b, s)
    <2>1. CASE Renamed(u, b, s)
      BY <2>1 DEF CommandsOwn, Reserved
    <2>2. CASE c = Rename(b, s)
      BY <2>2, IssuedRename
    <2> QED BY <1>2, <2>1, <2>2, RenamedAppend
  <1> QED BY <1>1, <1>2 DEF CommandsOwn

\* A new use is of the slice bound last.
LEMMA ChainedAppend ==
  ASSUME NEW u \in Seq(Issued), NEW c \in Issued, NEW bound, NEW final, NEW last,
         Chained(u, bound, final),
         \A b \in Buffers : usage[b] # "shared" =>
           /\ c.op = "use" /\ c.buf = b => c.slice = final[b]
           /\ last[b] = IF IsRename(c, b) THEN c.slice ELSE final[b]
  PROVE  Chained(Append(u, c), bound, last)
  <1> DEFINE v == Append(u, c)
  <1>1. /\ Len(u) \in Nat /\ DOMAIN u = 1..Len(u)
        /\ DOMAIN v = 1..(Len(u) + 1) /\ v[Len(u) + 1] = c
        /\ \A i \in 1..Len(u) : v[i] = u[i]
    BY AppendAt
  <1>2. SUFFICES ASSUME NEW b \in Buffers, usage[b] # "shared"
                 PROVE  /\ \A p \in DOMAIN v : v[p].op = "use" /\ v[p].buf = b
                                               => BoundAt(v, bound[b], b, p, v[p].slice)
                        /\ BoundAt(v, bound[b], b, Len(v) + 1, last[b])
    BY DEF Chained
  <1>3. /\ \A p \in 1..Len(u) : u[p].op = "use" /\ u[p].buf = b
                                => BoundAt(u, bound[b], b, p, u[p].slice)
        /\ BoundAt(u, bound[b], b, Len(u) + 1, final[b])
    BY <1>1, <1>2 DEF Chained
  <1>4. ASSUME NEW p \in DOMAIN v, v[p].op = "use", v[p].buf = b
        PROVE  BoundAt(v, bound[b], b, p, v[p].slice)
    <2>1. p \in 1..(Len(u) + 1)
      BY <1>1
    <2>2. CASE p \in 1..Len(u)
      BY <1>1, <1>3, <1>4, <2>1, <2>2, BoundAtAppend
    <2>3. CASE p = Len(u) + 1
      <3>1. v[p].slice = final[b]
        BY <1>1, <1>2, <1>4, <2>3
      <3>2. BoundAt(u, bound[b], b, p, v[p].slice)
        BY <1>3, <2>3, <3>1
      <3> QED BY <2>1, <3>2, BoundAtAppend
    <2> QED BY <1>1, <2>1, <2>2, <2>3
  <1>5. BoundAt(v, bound[b], b, Len(v) + 1, last[b])
    BY <1>2, <1>3, BoundAtEnd
  <1> QED BY <1>4, <1>5

-----------------------------------------------------------------------------
(* Streams.                                                                *)

StreamType(st) ==
  st \in [out : Seq(Seq(Issued)), cur : Seq(Issued), busy : BOOLEAN]

\* The commands that will be unexecuted when the stream is committed.
Before == chunk \o FlattenSeq(queued)
After(st) == Before \o (FlattenSeq(st.out) \o st.cur)

\* What has been dispatched is made of commands.
LEMMA BeforeType ==
  ASSUME TypeOK, StreamInv
  PROVE  /\ Before \in Seq(Issued) /\ FlattenSeq(queued) \in Seq(Issued)
         /\ chunk \in Seq(Issued) /\ queued \in Seq(Seq(Issued))
  <1>1. chunk \in Seq(Issued) /\ queued \in Seq(Seq(Issued))
    BY DEF TypeOK, StreamInv
  <1>2. FlattenSeq(queued) \in Seq(Issued)
    BY <1>1, FlattenType
  <1> QED BY <1>1, <1>2 DEF Before

\* Sequences of commands put one after the other.
LEMMA ConcatIssued ==
  ASSUME NEW a \in Seq(Issued), NEW b \in Seq(Issued), NEW c \in Issued
  PROVE  /\ a \o b \in Seq(Issued)
         /\ Append(a, c) \in Seq(Issued) /\ Append(a, c) # <<>>
         /\ a \o <<>> = a /\ <<>> \o a = a
  BY ConcatEmptySeq

\* Concatenation is associative.
LEMMA ConcatThree ==
  \A a, b, c \in Seq(Issued) : (a \o b) \o c = a \o (b \o c)
  BY ConcatAssociative

\* Appending to the last part is appending to the whole.
LEMMA ConcatAppend ==
  \A a, b \in Seq(Issued) : \A c \in Issued : a \o Append(b, c) = Append(a \o b, c)
  OBVIOUS

\* What is recorded with a stream is made of commands.
LEMMA AfterType ==
  ASSUME TypeOK, StreamInv, NEW st, StreamType(st)
  PROVE  After(st) \in Seq(Issued)
  <1>1. FlattenSeq(st.out) \in Seq(Issued) /\ st.cur \in Seq(Issued)
    BY FlattenType DEF StreamType
  <1>2. Before \in Seq(Issued)
    BY BeforeType
  <1> QED BY <1>1, <1>2 DEF After

\* Nothing has been recorded in the stream a call begins with.
LEMMA StreamStart ==
  ASSUME TypeOK, StreamInv
  PROVE  StreamType(Stream) /\ After(Stream) = Unexecuted
  <1>1. csChunk \in Seq(Issued) /\ csIsBusy \in BOOLEAN
    BY DEF TypeOK, StreamInv
  <1>2. StreamType(Stream)
    BY <1>1 DEF StreamType, Stream
  <1>3. FlattenSeq(Stream.out) \o Stream.cur = csChunk
    BY <1>1, FlattenEmpty, ConcatEmptySeq DEF Stream
  <1> QED BY <1>2, <1>3 DEF After, Before, Unexecuted

\* Sending the chunk keeps the types.
LEMMA SentType ==
  ASSUME NEW st, StreamType(st)
  PROVE  StreamType(Sent(st))
  <1>1. st.out \in Seq(Seq(Issued)) /\ st.cur \in Seq(Issued) /\ <<>> \in Seq(Issued)
    BY DEF StreamType
  <1>2. Append(st.out, st.cur) \in Seq(Seq(Issued))
    BY <1>1
  <1> QED BY <1>1, <1>2 DEF Sent, StreamType

\* Sending the chunk does not change what is unexecuted.
LEMMA AfterSent ==
  ASSUME TypeOK, StreamInv, NEW st, StreamType(st)
  PROVE  /\ StreamType(Sent(st)) /\ After(Sent(st)) = After(st)
         /\ Sent(st).out = Append(st.out, st.cur) /\ Sent(st).cur = <<>> /\ Sent(st).busy = TRUE
  <1>1. st.out \in Seq(Seq(Issued)) /\ st.cur \in Seq(Issued)
    BY DEF StreamType
  <1>2. /\ Sent(st).out = Append(st.out, st.cur) /\ Sent(st).cur = <<>> /\ Sent(st).busy = TRUE
        /\ StreamType(Sent(st))
    BY <1>1 DEF Sent, StreamType
  <1>3. FlattenSeq(Append(st.out, st.cur)) = FlattenSeq(st.out) \o st.cur
    BY <1>1, FlattenAppend
  <1>4. FlattenSeq(st.out) \o st.cur \in Seq(Issued)
    BY <1>1, FlattenType
  <1>5. FlattenSeq(Sent(st).out) \o Sent(st).cur = FlattenSeq(st.out) \o st.cur
    BY <1>2, <1>3, <1>4, ConcatEmptySeq
  <1> QED BY <1>2, <1>5 DEF After

\* Emitting a command adds it, in the chunk that is recorded or in a new one.
LEMMA EmitShape ==
  ASSUME NEW st, StreamType(st), NEW c \in Issued
  PROVE  \/ /\ EmitCs(st, c).out = st.out /\ EmitCs(st, c).cur = Append(st.cur, c)
            /\ EmitCs(st, c).busy = st.busy
         \/ /\ EmitCs(st, c).out = Append(st.out, st.cur) /\ EmitCs(st, c).cur = Append(<<>>, c)
            /\ EmitCs(st, c).busy = TRUE
  <1>1. CASE Len(st.cur) < ChunkCapacity
    BY <1>1 DEF EmitCs, StreamType
  <1>2. CASE ~(Len(st.cur) < ChunkCapacity)
    BY <1>2 DEF EmitCs, StreamType, Sent
  <1> QED BY <1>1, <1>2

\* Emitting keeps them, and leaves something to send.
LEMMA EmitType ==
  ASSUME NEW st, StreamType(st), NEW c \in Issued
  PROVE  StreamType(EmitCs(st, c)) /\ EmitCs(st, c).cur # <<>>
  <1>1. ASSUME NEW r, StreamType(r)
        PROVE  StreamType([r EXCEPT !.cur = Append(@, c)]) /\ [r EXCEPT !.cur = Append(@, c)].cur # <<>>
    <2>1. r.cur \in Seq(Issued)
      BY <1>1 DEF StreamType
    <2>2. Append(r.cur, c) \in Seq(Issued)
      BY <2>1
    <2>3. Append(r.cur, c) # <<>>
      BY <2>1, AppendProperties
    <2>4. [r EXCEPT !.cur = Append(@, c)].cur = Append(r.cur, c)
      BY <1>1 DEF StreamType
    <2> QED BY <1>1, <2>2, <2>3, <2>4 DEF StreamType
  <1>2. StreamType(Sent(st))
    BY SentType
  <1> QED BY <1>1, <1>2 DEF EmitCs

\* The command emitted is the last one recorded.
LEMMA AfterEmit ==
  ASSUME TypeOK, StreamInv, NEW st, StreamType(st), NEW c \in Issued
  PROVE  After(EmitCs(st, c)) = Append(After(st), c)
  <1>1. st.out \in Seq(Seq(Issued)) /\ st.cur \in Seq(Issued) /\ FlattenSeq(st.out) \in Seq(Issued)
    BY FlattenType DEF StreamType
  <1>2. FlattenSeq(EmitCs(st, c).out) \o EmitCs(st, c).cur
          = Append(FlattenSeq(st.out) \o st.cur, c)
    <2>1. CASE EmitCs(st, c).out = st.out /\ EmitCs(st, c).cur = Append(st.cur, c)
      BY <1>1, <2>1, ConcatAppend, Zenon
    <2>2. CASE EmitCs(st, c).out = Append(st.out, st.cur) /\ EmitCs(st, c).cur = Append(<<>>, c)
      <3>1. FlattenSeq(EmitCs(st, c).out) = FlattenSeq(st.out) \o st.cur
        BY <1>1, <2>2, FlattenAppend
      <3>2. \A a \in Seq(Issued) : a \o Append(<<>>, c) = Append(a, c)
        OBVIOUS
      <3>3. FlattenSeq(st.out) \o st.cur \in Seq(Issued)
        BY <1>1
      <3> QED BY <2>2, <3>1, <3>2, <3>3
    <2> QED BY <2>1, <2>2, EmitShape
  <1>3. FlattenSeq(st.out) \o st.cur \in Seq(Issued)
    BY <1>1
  <1>4. Before \in Seq(Issued)
    BY BeforeType
  <1>5. Before \o Append(FlattenSeq(st.out) \o st.cur, c)
          = Append(Before \o (FlattenSeq(st.out) \o st.cur), c)
    BY <1>3, <1>4, ConcatAppend, Zenon
  <1> QED BY <1>2, <1>5 DEF After

\* The commands recorded are those unexecuted after the step.
LEMMA AfterCommit ==
  ASSUME TypeOK, StreamInv, NEW st, StreamType(st), Commit(st)
  PROVE  /\ StreamInv'
         /\ Unexecuted' = After(st) /\ After(st) \in Seq(Issued)
         /\ queued' = queued \o st.out /\ queued' \in Seq(Seq(Issued))
         /\ dispatched' = dispatched + Len(st.out) /\ csSeqNum' = csSeqNum + Len(st.out)
         /\ UNCHANGED <<executed, chunk, csPc, ran, sync, seqArg, csStopped, holding>>
         /\ csChunk' = st.cur /\ csIsBusy' = st.busy
  <1>1. /\ st.out \in Seq(Seq(Issued)) /\ st.cur \in Seq(Issued) /\ st.busy \in BOOLEAN
        /\ FlattenSeq(st.out) \in Seq(Issued)
    BY FlattenType DEF StreamType
  <1>2. queued \in Seq(Seq(Issued)) /\ dispatched \in Nat /\ CsInv
    BY BeforeType DEF StreamInv, TypeOK, CsTypeOK
  <1>3. csChunk' = st.cur /\ csIsBusy' = st.busy /\ csSeqNum' = csSeqNum + Len(st.out)
    BY DEF Commit
  <1>4. /\ queued' = queued \o st.out /\ dispatched' = dispatched + Len(st.out) /\ CsInv'
        /\ UNCHANGED <<executed, chunk, csPc, ran, sync, seqArg, csStopped, holding>>
    <2>1. CASE st.out = <<>>
      <3>1. UNCHANGED csVars
        BY <2>1 DEF Commit
      <3>2. queued \o <<>> = queued /\ dispatched + Len(<<>>) = dispatched
        BY <1>2, ConcatEmptySeq
      <3> QED BY <1>2, <2>1, <3>1, <3>2, CsInvFrame DEF csVars
    <2>2. CASE st.out # <<>>
      <3>1. Dispatch(st.out)
        BY <2>2 DEF Commit
      <3>2. st.out \in Seq(Seq(Commands))
        BY <1>1, IssuedCommands
      <3>3. CsInv'
        BY <1>2, <3>1, <3>2, CsInvDispatch
      <3> QED BY <3>1, <3>3 DEF Dispatch, Push
    <2> QED BY <2>1, <2>2
  <1>5. queued' \in Seq(Seq(Issued))
    BY <1>1, <1>2, <1>4
  <1>6. FlattenSeq(queued') = FlattenSeq(queued) \o FlattenSeq(st.out)
    BY <1>1, <1>2, <1>4, FlattenConcat
  <1>7. (chunk \o (FlattenSeq(queued) \o FlattenSeq(st.out))) \o st.cur
          = (chunk \o FlattenSeq(queued)) \o (FlattenSeq(st.out) \o st.cur)
    <2>1. chunk \in Seq(Issued) /\ FlattenSeq(queued) \in Seq(Issued)
      BY BeforeType
    <2>2. /\ FlattenSeq(queued) \o FlattenSeq(st.out) \in Seq(Issued)
          /\ FlattenSeq(st.out) \o st.cur \in Seq(Issued)
      BY <1>1, <2>1
    <2>3. (chunk \o (FlattenSeq(queued) \o FlattenSeq(st.out))) \o st.cur
            = chunk \o ((FlattenSeq(queued) \o FlattenSeq(st.out)) \o st.cur)
      <3> DEFINE x == FlattenSeq(queued) \o FlattenSeq(st.out)
      <3>1. chunk \in Seq(Issued) /\ x \in Seq(Issued) /\ st.cur \in Seq(Issued)
        BY <1>1, <2>1, <2>2
      <3> HIDE DEF x
      <3>2. (chunk \o x) \o st.cur = chunk \o (x \o st.cur)
        BY <3>1, ConcatThree, Zenon
      <3> QED BY <3>2 DEF x
    <2>4. (FlattenSeq(queued) \o FlattenSeq(st.out)) \o st.cur
            = FlattenSeq(queued) \o (FlattenSeq(st.out) \o st.cur)
      BY <1>1, <2>1, ConcatThree, Zenon
    <2>5. chunk \o (FlattenSeq(queued) \o (FlattenSeq(st.out) \o st.cur))
            = (chunk \o FlattenSeq(queued)) \o (FlattenSeq(st.out) \o st.cur)
      BY <2>1, <2>2, ConcatThree, Zenon
    <2> QED BY <2>3, <2>4, <2>5
  <1>8. Unexecuted' = After(st)
    BY <1>3, <1>4, <1>6, <1>7 DEF Unexecuted, After, Before
  <1>9. StreamInv'
    BY <1>1, <1>3, <1>4 DEF StreamInv
  <1> QED BY <1>3, <1>4, <1>5, <1>8, <1>9, AfterType

-----------------------------------------------------------------------------
(* What a stream must satisfy for its commit to keep the invariant.        *)

\* The numbers the chunks have, and those of the stream will have.
Numbered(st, sq) ==
  \A b \in Tracked :
    /\ UsesTracked(chunk, b) => sq[b] > ran
    /\ \A i \in DOMAIN queued :
         UsesTracked(queued[i], b)
         => sq[b] >= i + ran + (IF csPc = "execute" THEN 1 ELSE 0)
    /\ \A i \in DOMAIN st.out : UsesTracked(st.out[i], b) => sq[b] >= csSeqNum + i
    /\ UsesTracked(st.cur, b) => sq[b] > csSeqNum + Len(st.out)

\* sq, avail and final are the sequence numbers, the free slices and the mapped
\* slices of the next state.
StreamGood(st, sq, avail, final) ==
  /\ StreamType(st)
  /\ CommandsOwn(After(st), Lists, phys, avail)
  /\ Chained(After(st), phys, final)
  /\ st.cur = <<>> /\ ~st.busy => EndsFlushed(After(st))
  /\ Numbered(st, sq)

\* A chunk uses what it used and what the new command uses.
LEMMA UsesTrackedAppend ==
  ASSUME NEW u \in Seq(Issued), NEW c \in Issued, NEW b
  PROVE  UsesTracked(Append(u, c), b) <=> UsesTracked(u, b) \/ (c.op = "use" /\ c.buf = b)
  <1>1. /\ Len(u) \in Nat /\ DOMAIN u = 1..Len(u) /\ DOMAIN Append(u, c) = 1..(Len(u) + 1)
        /\ Append(u, c)[Len(u) + 1] = c
        /\ \A i \in 1..Len(u) : Append(u, c)[i] = u[i]
    BY AppendAt
  <1>2. \A i \in 1..(Len(u) + 1) : i \in 1..Len(u) \/ i = Len(u) + 1
    BY <1>1
  <1> QED BY <1>1, <1>2 DEF UsesTracked

\* The numbers of chunks that have been dispatched are at most csSeqNum.
LEMMA DispatchedNumbers ==
  ASSUME TypeOK, StreamInv
  PROVE  /\ csSeqNum \in Nat /\ ran \in Nat /\ ran <= csSeqNum
         /\ executed \in Nat /\ executed <= ran
         /\ csSeqNum = ran + Len(queued) + (IF csPc = "execute" THEN 1 ELSE 0)
         /\ Len(queued) \in Nat
         /\ \A i \in DOMAIN queued :
              i \in Nat /\ i + ran + (IF csPc = "execute" THEN 1 ELSE 0) <= csSeqNum
  <1>1. /\ ran \in Nat /\ dispatched \in Nat /\ csSeqNum = dispatched /\ executed \in Nat
        /\ Len(queued) \in Nat /\ DOMAIN queued = 1..Len(queued)
        /\ ran + Len(queued) + (IF csPc = "execute" THEN 1 ELSE 0) = dispatched
        /\ executed + (IF holding /\ csPc # "execute" THEN 1 ELSE 0) = ran
    BY BeforeType DEF StreamInv, CsInv, CsTypeOK
  <1>2. CASE csPc = "execute"
    BY <1>1, <1>2
  <1>3. CASE csPc # "execute"
    BY <1>1, <1>3
  <1> QED BY <1>2, <1>3

\* The types of a stream.
LEMMA NumberedType ==
  ASSUME NEW st, StreamType(st)
  PROVE  /\ st.out \in Seq(Seq(Issued)) /\ st.cur \in Seq(Issued) /\ st.busy \in BOOLEAN
         /\ Len(st.out) \in Nat /\ DOMAIN st.out = 1..Len(st.out)
  BY DEF StreamType

\* Sending the chunk gives it the number it was to have.
LEMMA NumberedSent ==
  ASSUME TypeOK, StreamInv, NEW st, StreamType(st), NEW sq \in [Buffers -> Nat],
         Numbered(st, sq), NEW after, StreamType(after),
         after.out = Append(st.out, st.cur), after.cur = <<>>
  PROVE  Numbered(after, sq)
  <1>1. /\ st.out \in Seq(Seq(Issued)) /\ st.cur \in Seq(Issued)
        /\ Len(st.out) \in Nat /\ csSeqNum \in Nat
    BY NumberedType, DispatchedNumbers
  <1>2. /\ DOMAIN after.out = 1..(Len(st.out) + 1) /\ after.out[Len(st.out) + 1] = st.cur
        /\ \A i \in 1..Len(st.out) : after.out[i] = st.out[i]
        /\ DOMAIN st.out = 1..Len(st.out)
    BY <1>1, AppendAt
  <1>3. SUFFICES ASSUME NEW b \in Tracked
        PROVE /\ \A i \in DOMAIN after.out : UsesTracked(after.out[i], b) => sq[b] >= csSeqNum + i
              /\ ~UsesTracked(after.cur, b)
    BY DEF Numbered
  <1>4. sq[b] \in Nat
    BY DEF Tracked
  <1>5. ~UsesTracked(after.cur, b)
    BY DEF UsesTracked
  <1>6. ASSUME NEW i \in DOMAIN after.out, UsesTracked(after.out[i], b) PROVE sq[b] >= csSeqNum + i
    <2>1. CASE i \in 1..Len(st.out)
      BY <1>2, <1>6, <2>1 DEF Numbered
    <2>2. CASE i = Len(st.out) + 1
      <3>1. sq[b] > csSeqNum + Len(st.out)
        BY <1>2, <1>6, <2>2 DEF Numbered
      <3> QED BY <1>1, <1>4, <2>2, <3>1
    <2> QED BY <1>1, <1>2, <2>1, <2>2
  <1> QED BY <1>5, <1>6

\* A larger number is as good.
LEMMA NumberedRaised ==
  ASSUME TypeOK, StreamInv, NEW st, StreamType(st),
         NEW sq \in [Buffers -> Nat], NEW sq2 \in [Buffers -> Nat], Numbered(st, sq),
         \A b \in Tracked : sq2[b] = sq[b] \/ sq2[b] > csSeqNum + Len(st.out)
  PROVE  Numbered(st, sq2)
  <1>1. SUFFICES ASSUME NEW b \in Tracked, sq2[b] > csSeqNum + Len(st.out)
        PROVE /\ sq2[b] > ran
              /\ \A i \in DOMAIN queued : sq2[b] >= i + ran + (IF csPc = "execute" THEN 1 ELSE 0)
              /\ \A i \in DOMAIN st.out : sq2[b] >= csSeqNum + i
              /\ sq2[b] > csSeqNum + Len(st.out)
    BY DEF Numbered
  <1>2. sq2[b] \in Nat
    BY DEF Tracked
  <1>3. Len(st.out) \in Nat /\ DOMAIN st.out = 1..Len(st.out)
    BY NumberedType
  <1>4. /\ csSeqNum \in Nat /\ ran \in Nat /\ ran <= csSeqNum
        /\ \A i \in DOMAIN queued :
              i \in Nat /\ i + ran + (IF csPc = "execute" THEN 1 ELSE 0) <= csSeqNum
    BY DispatchedNumbers
  <1>5. \A i \in DOMAIN queued : sq2[b] >= i + ran + (IF csPc = "execute" THEN 1 ELSE 0)
    <2> SUFFICES ASSUME NEW i \in DOMAIN queued
                 PROVE  sq2[b] >= i + ran + (IF csPc = "execute" THEN 1 ELSE 0)
      OBVIOUS
    <2>1. i \in Nat /\ i + ran + (IF csPc = "execute" THEN 1 ELSE 0) <= csSeqNum
      BY <1>4
    <2>2. CASE csPc = "execute"
      BY <1>1, <1>2, <1>3, <1>4, <2>1, <2>2
    <2>3. CASE csPc # "execute"
      BY <1>1, <1>2, <1>3, <1>4, <2>1, <2>3
    <2> QED BY <2>2, <2>3
  <1> QED BY <1>1, <1>2, <1>3, <1>4, <1>5

\* A command that uses a tracked buffer raises its number.
LEMMA NumberedEmit ==
  ASSUME TypeOK, StreamInv, NEW st, StreamType(st), NEW c \in Issued,
         NEW sq \in [Buffers -> Nat], NEW sq2 \in [Buffers -> Nat], Numbered(st, sq),
         \A b \in Tracked :
           \/ sq2[b] > csSeqNum + Len(EmitCs(st, c).out)
           \/ sq2[b] = sq[b] /\ ~(c.op = "use" /\ c.buf = b)
  PROVE  Numbered(EmitCs(st, c), sq2)
  <1> DEFINE after == EmitCs(st, c)
  <1>0. StreamType(after)
    BY EmitType
  <1>1. /\ st.out \in Seq(Seq(Issued)) /\ st.cur \in Seq(Issued)
        /\ Len(st.out) \in Nat /\ csSeqNum \in Nat
    BY NumberedType, DispatchedNumbers
  <1>3. ASSUME NEW cur \in Seq(Issued), after.cur = Append(cur, c),
               \A b \in Tracked : UsesTracked(cur, b) => sq[b] > csSeqNum + Len(after.out),
               \A b \in Tracked :
                 /\ UsesTracked(chunk, b) => sq[b] > ran
                 /\ \A i \in DOMAIN queued :
                      UsesTracked(queued[i], b)
                      => sq[b] >= i + ran + (IF csPc = "execute" THEN 1 ELSE 0)
                 /\ \A i \in DOMAIN after.out : UsesTracked(after.out[i], b) => sq[b] >= csSeqNum + i
        PROVE  Numbered(after, sq2)
    <2> DEFINE old == [out |-> after.out, cur |-> cur, busy |-> TRUE]
    <2>1. StreamType(old)
      BY <1>0, <1>3, NumberedType DEF StreamType
    <2>2. Numbered(old, sq)
      BY <1>3 DEF Numbered
    <2>3. Numbered(old, sq2)
      <3>1. \A b \in Tracked : sq2[b] = sq[b] \/ sq2[b] > csSeqNum + Len(old.out)
        OBVIOUS
      <3> HIDE DEF old
      <3> QED BY <2>1, <2>2, <3>1, NumberedRaised
    <2>4. \A b \in Tracked : UsesTracked(after.cur, b) =>
            UsesTracked(cur, b) \/ (c.op = "use" /\ c.buf = b)
      BY <1>3, UsesTrackedAppend
    <2>5. ASSUME NEW b \in Tracked, UsesTracked(after.cur, b) PROVE sq2[b] > csSeqNum + Len(after.out)
      BY <1>3, <2>4, <2>5
    <2> QED BY <2>3, <2>5 DEF Numbered
  <1>4. CASE after.out = st.out /\ after.cur = Append(st.cur, c)
    <2>1. \A b \in Tracked :
            /\ UsesTracked(st.cur, b) => sq[b] > csSeqNum + Len(after.out)
            /\ UsesTracked(chunk, b) => sq[b] > ran
            /\ \A i \in DOMAIN queued :
                 UsesTracked(queued[i], b)
                 => sq[b] >= i + ran + (IF csPc = "execute" THEN 1 ELSE 0)
            /\ \A i \in DOMAIN after.out : UsesTracked(after.out[i], b) => sq[b] >= csSeqNum + i
      BY <1>4 DEF Numbered
    <2> QED BY <1>1, <1>3, <1>4, <2>1
  <1>5. CASE after.out = Append(st.out, st.cur) /\ after.cur = Append(<<>>, c)
    <2> DEFINE sent == [out |-> after.out, cur |-> <<>>, busy |-> TRUE]
    <2>0. <<>> \in Seq(Issued)
      OBVIOUS
    <2>1. StreamType(sent)
      BY <1>0, <2>0, NumberedType DEF StreamType
    <2>2. sent.out = Append(st.out, st.cur) /\ sent.cur = <<>>
      BY <1>5
    <2> HIDE DEF sent
    <2>3. Numbered(sent, sq)
      BY <2>1, <2>2, NumberedSent
    <2>4. \A b \in Tracked :
            /\ UsesTracked(<<>>, b) => sq[b] > csSeqNum + Len(after.out)
            /\ UsesTracked(chunk, b) => sq[b] > ran
            /\ \A i \in DOMAIN queued :
                 UsesTracked(queued[i], b)
                 => sq[b] >= i + ran + (IF csPc = "execute" THEN 1 ELSE 0)
            /\ \A i \in DOMAIN after.out : UsesTracked(after.out[i], b) => sq[b] >= csSeqNum + i
      BY <2>3 DEF Numbered, sent
    <2> QED BY <1>3, <1>5, <2>0, <2>4
  <1> QED BY <1>4, <1>5, EmitShape

\* A call begins with what the invariant says of the recorded chunk.
LEMMA GoodStart ==
  ASSUME ContextInv
  PROVE  StreamGood(Stream, seqOf, free, mapped)
  <1>1. TypeOK /\ StreamInv /\ SliceInv /\ FlushInv /\ SeqInv
    BY DEF ContextInv
  <1>2. StreamType(Stream) /\ After(Stream) = Unexecuted
    BY <1>1, StreamStart
  <1>3. Numbered(Stream, seqOf)
    <2>1. DOMAIN Stream.out = {} /\ Len(Stream.out) = 0 /\ Stream.cur = csChunk
      BY DEF Stream
    <2>2. csSeqNum + 0 = csSeqNum
      BY <1>1, DispatchedNumbers
    <2> QED BY <1>1, <2>1, <2>2 DEF Numbered, SeqInv
  <1>4. Stream.cur = csChunk /\ Stream.busy = csIsBusy
    BY DEF Stream
  <1> QED BY <1>1, <1>2, <1>3, <1>4 DEF StreamGood, SliceInv, FlushInv

\* Sending a chunk keeps a stream good ...
LEMMA GoodSent ==
  ASSUME TypeOK, StreamInv, NEW st, NEW sq \in [Buffers -> Nat], NEW avail, NEW final,
         StreamGood(st, sq, avail, final)
  PROVE  StreamGood(Sent(st), sq, avail, final)
  <1>1. StreamType(st)
    BY DEF StreamGood
  <1>2. /\ StreamType(Sent(st)) /\ After(Sent(st)) = After(st)
        /\ Sent(st).out = Append(st.out, st.cur) /\ Sent(st).cur = <<>> /\ Sent(st).busy = TRUE
    BY <1>1, AfterSent
  <1>3. Numbered(Sent(st), sq)
    BY <1>1, <1>2, NumberedSent DEF StreamGood
  <1> QED BY <1>2, <1>3 DEF StreamGood

\* ... so does sending it if there is one ...
LEMMA GoodFlushCsChunk ==
  ASSUME TypeOK, StreamInv, NEW st, NEW sq \in [Buffers -> Nat], NEW avail, NEW final,
         StreamGood(st, sq, avail, final)
  PROVE  StreamGood(FlushCsChunk(st), sq, avail, final) /\ FlushCsChunk(st).cur = <<>>
  <1>1. Sent(st).cur = <<>>
    BY DEF Sent
  <1> QED BY <1>1, GoodSent DEF FlushCsChunk

\* Recording a command, when it means the mapped slice or takes a free one.
LEMMA GoodEmit ==
  ASSUME TypeOK, StreamInv, NEW st, NEW c \in Issued,
         NEW sq \in [Buffers -> Nat], NEW avail, NEW final,
         NEW sq2 \in [Buffers -> Nat], NEW left, NEW last,
         StreamGood(st, sq, avail, final),
         \A b \in Buffers : left[b] \subseteq avail[b],
         c.op = "rename" => /\ Reserved(Lists, phys, left, c.buf, c.slice)
                            /\ ~Renamed(After(st), c.buf, c.slice),
         \A b \in Buffers : usage[b] # "shared" =>
           /\ c.op = "use" /\ c.buf = b => c.slice = final[b]
           /\ last[b] = IF IsRename(c, b) THEN c.slice ELSE final[b],
         \A b \in Tracked :
           \/ sq2[b] > csSeqNum + Len(EmitCs(st, c).out)
           \/ sq2[b] = sq[b] /\ ~(c.op = "use" /\ c.buf = b)
  PROVE  StreamGood(EmitCs(st, c), sq2, left, last)
  <1>1. StreamType(st) /\ Numbered(st, sq)
    BY DEF StreamGood
  <1>2. After(st) \in Seq(Issued) /\ After(EmitCs(st, c)) = Append(After(st), c)
    BY <1>1, AfterType, AfterEmit
  <1>3. StreamType(EmitCs(st, c)) /\ EmitCs(st, c).cur # <<>>
    BY <1>1, EmitType
  <1>4. Numbered(EmitCs(st, c), sq2)
    BY <1>1, NumberedEmit
  <1>5. CommandsOwn(After(EmitCs(st, c)), Lists, phys, left)
    <2>1. CommandsOwn(After(st), Lists, phys, avail)
      BY DEF StreamGood
    <2> QED BY <1>2, <2>1, CommandsOwnAppend
  <1>6. Chained(After(EmitCs(st, c)), phys, last)
    <2>1. Chained(After(st), phys, final)
      BY DEF StreamGood
    <2> QED BY <1>2, <2>1, ChainedAppend
  <1> QED BY <1>3, <1>4, <1>5, <1>6 DEF StreamGood

\* Flush leaves nothing recorded and the flush last.
LEMMA GoodFlush ==
  ASSUME TypeOK, StreamInv, NEW st, NEW sq \in [Buffers -> Nat], NEW avail, NEW final,
         StreamGood(st, sq, avail, final)
  PROVE  StreamGood(Flush(st), sq, avail, final) /\ Flush(st).cur = <<>> /\ Flush(st).busy = FALSE
  <1>0. StreamType(st)
    BY DEF StreamGood
  <1>1. CASE ~(st.busy \/ st.cur # <<>>)
    BY <1>0, <1>1 DEF Flush, StreamType
  <1>2. CASE st.busy \/ st.cur # <<>>
    <2> DEFINE e == EmitCs(st, FlushCommand)
               f == [Sent(e) EXCEPT !.busy = FALSE]
    <2>1. StreamGood(e, sq, avail, final)
      <3>1. /\ FlushCommand \in Issued /\ FlushCommand.op = "flush"
            /\ \A b : ~IsRename(FlushCommand, b)
        BY IssuedFlush DEF IsRename
      <3> QED BY <3>1, GoodEmit
    <2>2. StreamType(e) /\ e.cur # <<>> /\ After(e) = Append(After(st), FlushCommand)
      BY <1>0, IssuedFlush, EmitType, AfterEmit
    <2> HIDE DEF e
    <2>3. StreamGood(Sent(e), sq, avail, final) /\ Sent(e).cur = <<>>
      BY <2>1, GoodSent DEF Sent
    <2>4. Flush(st) = f
      BY <1>2, <2>2 DEF Flush, FlushCsChunk, e
    <2>5. /\ StreamType(f) /\ f.out = Sent(e).out /\ f.cur = Sent(e).cur /\ f.busy = FALSE
      BY <2>3 DEF StreamGood, StreamType
    <2>6. After(f) = After(Sent(e))
      BY <2>5 DEF After
    <2>7. After(Sent(e)) = Append(After(st), FlushCommand)
      BY <2>2, AfterSent
    <2>8. EndsFlushed(After(f))
      <3>1. After(st) \in Seq(Issued)
        BY <1>0, AfterType
      <3> QED BY <2>6, <2>7, <3>1, IssuedFlush, AppendAt DEF EndsFlushed
    <2>9. Numbered(f, sq)
      BY <2>3, <2>5 DEF StreamGood, Numbered
    <2>10. StreamGood(f, sq, avail, final)
      BY <2>3, <2>5, <2>6, <2>8, <2>9 DEF StreamGood
    <2> QED BY <2>3, <2>4, <2>5, <2>10
  <1> QED BY <1>1, <1>2

\* ... and a flush by the time of the last one.
LEMMA GoodFlushImplicit ==
  ASSUME TypeOK, StreamInv, NEW st, NEW sq \in [Buffers -> Nat], NEW avail, NEW final,
         StreamGood(st, sq, avail, final), NEW f \in FlushImplicit(st)
  PROVE  /\ StreamGood(f, sq, avail, final)
         /\ st.cur = <<>> => f.cur = <<>>
         /\ \A b, s : Renamed(After(f), b, s) => Renamed(After(st), b, s)
  <1>0. StreamType(st) /\ After(st) \in Seq(Issued)
    BY AfterType DEF StreamGood
  <1>1. CASE f = st
    BY <1>1
  <1>2. CASE f = Flush(st)
    <2>1. \A b, s : Renamed(After(Flush(st)), b, s) => Renamed(After(st), b, s)
      <3>1. After(Flush(st)) \in {After(st), Append(After(st), FlushCommand)}
        <4>1. CASE ~(st.busy \/ st.cur # <<>>)
          BY <4>1 DEF Flush
        <4>2. CASE st.busy \/ st.cur # <<>>
          <5> DEFINE e == EmitCs(st, FlushCommand)
          <5>1. StreamType(e) /\ e.cur # <<>> /\ After(e) = Append(After(st), FlushCommand)
            BY <1>0, IssuedFlush, EmitType, AfterEmit
          <5> HIDE DEF e
          <5>2. Flush(st) = [Sent(e) EXCEPT !.busy = FALSE]
            BY <4>2, <5>1 DEF Flush, FlushCsChunk, e
          <5>3. Flush(st).out = Sent(e).out /\ Flush(st).cur = Sent(e).cur
            BY <5>1, <5>2 DEF Sent
          <5>4. After(Sent(e)) = After(e)
            BY <5>1, AfterSent
          <5> QED BY <5>1, <5>3, <5>4 DEF After
        <4> QED BY <4>1, <4>2
      <3>2. \A b, s : FlushCommand # Rename(b, s)
        BY DEF FlushCommand, Rename
      <3> QED BY <1>0, <3>1, <3>2, IssuedFlush, RenamedAppend
    <2> QED BY <1>2, <2>1, GoodFlush
  <1> QED BY <1>1, <1>2 DEF FlushImplicit

\* A commit that leaves the command lists and bindings alone.
LEMMA GoodCommit ==
  ASSUME TypeOK, StreamInv, NEW st, StreamGood(st, seqOf', free', mapped'), Commit(st),
         UNCHANGED <<listVars, phys, usage>>
  PROVE  /\ StreamInv'
         /\ CommandsOwn(Unexecuted, Lists, phys, free)'
         /\ Chained(Unexecuted, phys, mapped)'
         /\ FlushInv' /\ SeqInv'
  <1>1. StreamType(st)
    BY DEF StreamGood
  <1>2. /\ StreamInv'
        /\ Unexecuted' = After(st)
        /\ queued' = queued \o st.out /\ queued' \in Seq(Seq(Issued))
        /\ dispatched' = dispatched + Len(st.out) /\ csSeqNum' = csSeqNum + Len(st.out)
        /\ UNCHANGED <<executed, chunk, csPc, ran>>
        /\ csChunk' = st.cur /\ csIsBusy' = st.busy
    BY <1>1, AfterCommit
  <1>3. UNCHANGED <<recording, submitted, phys, usage, Lists>>
    BY DEF listVars, Lists
  <1>4. CommandsOwn(Unexecuted, Lists, phys, free)'
    BY <1>2, <1>3 DEF StreamGood, CommandsOwn, Reserved
  <1>5. Chained(Unexecuted, phys, mapped)'
    BY <1>2, <1>3 DEF StreamGood, Chained
  <1>6. FlushInv'
    BY <1>2, <1>3 DEF StreamGood, FlushInv, EndsFlushed
  <1>7. SeqInv'
    <2>1. Tracked' = Tracked
      BY <1>3 DEF Tracked
    <2>2. Numbered(st, seqOf')
      BY DEF StreamGood
    <2>3. SUFFICES ASSUME NEW b \in Tracked
          PROVE /\ UsesTracked(chunk, b) => seqOf'[b] > ran
                /\ \A i \in DOMAIN queued' :
                     UsesTracked(queued'[i], b)
                     => seqOf'[b] >= i + ran + (IF csPc = "execute" THEN 1 ELSE 0)
                /\ UsesTracked(st.cur, b) => seqOf'[b] > csSeqNum'
      BY <1>2, <2>1 DEF SeqInv, UsesTracked
    <2>4. /\ queued \in Seq(Seq(Issued)) /\ st.out \in Seq(Seq(Issued))
          /\ csSeqNum \in Nat /\ ran \in Nat /\ Len(queued) \in Nat /\ Len(st.out) \in Nat
          /\ csSeqNum = ran + Len(queued) + (IF csPc = "execute" THEN 1 ELSE 0)
      BY <1>1, NumberedType, DispatchedNumbers, BeforeType
    <2>5. ASSUME NEW i \in DOMAIN queued', UsesTracked(queued'[i], b)
          PROVE seqOf'[b] >= i + ran + (IF csPc = "execute" THEN 1 ELSE 0)
      <3>0. i \in 1..(Len(queued) + Len(st.out))
        BY <1>2, <2>4, <2>5
      <3>1. CASE i \in 1..Len(queued)
        <4>1. queued'[i] = queued[i] /\ i \in DOMAIN queued
          BY <1>2, <2>4, <3>1
        <4> QED BY <2>2, <2>5, <4>1 DEF Numbered
      <3>2. CASE i \notin 1..Len(queued)
        <4>1. /\ i - Len(queued) \in DOMAIN st.out
              /\ queued'[i] = st.out[i - Len(queued)]
          BY <1>2, <2>4, <3>0, <3>2
        <4>2. seqOf'[b] >= csSeqNum + (i - Len(queued))
          BY <2>2, <2>5, <4>1 DEF Numbered
        <4>3. csSeqNum + (i - Len(queued)) = i + ran + (IF csPc = "execute" THEN 1 ELSE 0)
          <5>1. CASE csPc = "execute"
            BY <2>4, <3>0, <5>1
          <5>2. CASE csPc # "execute"
            BY <2>4, <3>0, <5>2
          <5> QED BY <5>1, <5>2
        <4> QED BY <4>2, <4>3
      <3> QED BY <3>1, <3>2
    <2> QED BY <1>2, <2>2, <2>5 DEF Numbered
  <1> QED BY <1>2, <1>4, <1>5, <1>6, <1>7

-----------------------------------------------------------------------------
(* What a step that leaves a part alone needs not to prove again.          *)

\* Lists and bindings stay, slices are only taken.
LEMMA ListsKept ==
  ASSUME SliceInv, UNCHANGED <<listVars, phys>>,
         \A b \in Buffers : free'[b] \subseteq free[b]
  PROVE  ListsOwn(Lists, phys, free)' /\ Lists' = Lists
  <1>1. Lists' = Lists /\ phys' = phys
    BY DEF listVars, Lists
  <1>2. /\ \A b \in Buffers : phys[b] \notin free[b]
        /\ \A b \in Buffers, s \in Slices :
             Retired(Lists, b, s) => s # phys[b] /\ s \notin free[b]
        /\ RetiredOnce(Lists) /\ UsesCovered(Lists, phys)
    BY DEF SliceInv, ListsOwn
  <1> QED BY <1>1, <1>2 DEF ListsOwn

\* And what is renamed to was so before, or has just been taken.
LEMMA DeferredKept ==
  ASSUME SliceInv, UNCHANGED <<listVars, phys, deferred, usage>>,
         \A b \in Buffers : free'[b] \subseteq free[b],
         \A b \in Buffers, s \in Slices :
           Renamed(Unexecuted', b, s) => Renamed(Unexecuted, b, s) \/ s \in free[b]
  PROVE  DeferredOwns'
  <1>1. Lists' = Lists /\ phys' = phys /\ deferred' = deferred /\ usage' = usage
    BY DEF listVars, Lists
  <1>2. CASE deferred = <<>>
    BY <1>1, <1>2 DEF DeferredOwns
  <1>3. CASE \E b \in Buffers :
       /\ usage[b] = "staging"
       /\ deferred = DeferredList(Use(b, NoSlice, "R"), Use(b, NoSlice, "W"))
    BY <1>1, <1>3 DEF DeferredOwns
  <1>4. CASE \E b \in Buffers, s \in Slices :
       /\ usage[b] = "shared"
       /\ deferred = DeferredList(Rename(b, s), Use(b, s, "R"))
       /\ Reserved(Lists, phys, free, b, s)
       /\ ~Renamed(Unexecuted, b, s)
    <2>1. PICK b \in Buffers, s \in Slices :
       /\ usage[b] = "shared"
       /\ deferred = DeferredList(Rename(b, s), Use(b, s, "R"))
       /\ Reserved(Lists, phys, free, b, s)
       /\ ~Renamed(Unexecuted, b, s)
      BY <1>4
    <2>2. ~Renamed(Unexecuted', b, s)
      BY <2>1 DEF Reserved
    <2>3. Reserved(Lists', phys', free', b, s)
      BY <1>1, <2>1 DEF Reserved
    <2> QED BY <1>1, <2>1, <2>2, <2>3 DEF DeferredOwns
  <1> QED BY <1>2, <1>3, <1>4 DEF SliceInv, DeferredOwns

\* A thread that enters finds no other in a call.
LEMMA NobodyInside ==
  ASSUME CallInv, ctxLock = Free, ~closing
  PROVE  \A a \in Callers : app[a] = "ready" /\ sync[a] = "idle"
  BY ContextAssumption DEF CallInv

\* A call that does not block leaves as it entered.
LEMMA EnterAndLeave ==
  ASSUME CallInv, SyncInv, ctxLock = Free, ~closing,
         UNCHANGED <<callVars, closing, sync, csStopped>>
  PROVE  CallInv' /\ SyncInv'
  <1>1. \A a \in Callers : app[a] = "ready" /\ sync[a] = "idle"
    BY NobodyInside
  <1>2. ~csStopped
    BY DEF SyncInv
  <1>3. app' = app /\ ret' = ret /\ ctxLock' = ctxLock /\ closing' = closing
        /\ sync' = sync /\ csStopped' = csStopped
    BY DEF callVars
  <1>4. CallInv'
    BY <1>1, <1>3 DEF CallInv
  <1>5. SyncInv'
    BY <1>1, <1>2, <1>3 DEF SyncInv
  <1> QED BY <1>4, <1>5

\* A blocking call is alone inside.
LEMMA OneInside ==
  ASSUME CallInv, NEW a \in Callers, app[a] # "ready", ~closing
  PROVE  ctxLock = a /\ \A c \in Callers \ {a} : app[c] = "ready" /\ sync[c] = "idle"
  BY DEF CallInv

\* What a commit keeps, whatever becomes of the deferred list ...
LEMMA CommitKeeps ==
  ASSUME ContextInv, NEW st, StreamGood(st, seqOf', free', mapped'), Commit(st),
         UNCHANGED <<listVars, phys, usage>>, closing' \in BOOLEAN,
         seqOf' \in [Buffers -> Nat], mapped' \in [Buffers -> Slices],
         free' \in [Buffers -> SUBSET Slices],
         \A b \in Buffers : free'[b] \subseteq free[b],
         DeferredOwns', deferred' \in Seq(Seq(Command)),
         ctxLock' \in Callers \cup {Free},
         app' \in [Callers -> {"ready", "flushChunk", "synchronize", "decide", "poll",
                          "pollAgain", "wait", "stop", "join", "done"}],
         ret' \in [Callers -> {"ready", "decide", "pollAgain", "wait", "stop"}],
         map' \in [Callers -> [buf : Buffers, type : MapType, noWait : BOOLEAN]]
  PROVE  /\ TypeOK' /\ StreamInv' /\ SliceInv' /\ FlushInv' /\ SeqInv'
         /\ UNCHANGED <<executed, sync, seqArg, csStopped>>
         /\ csChunk' = st.cur /\ csIsBusy' = st.busy /\ dispatched' = dispatched + Len(st.out)
  <1>1. TypeOK /\ StreamInv /\ SliceInv /\ StreamType(st)
    BY DEF ContextInv, StreamGood
  <1>2. /\ StreamInv'
        /\ CommandsOwn(Unexecuted, Lists, phys, free)'
        /\ Chained(Unexecuted, phys, mapped)'
        /\ FlushInv' /\ SeqInv'
    BY <1>1, GoodCommit
  <1>3. /\ Unexecuted' = After(st) /\ queued' \in Seq(Seq(Issued))
        /\ UNCHANGED <<executed, sync, seqArg, csStopped>>
        /\ csChunk' = st.cur /\ csIsBusy' = st.busy /\ dispatched' = dispatched + Len(st.out)
    BY <1>1, AfterCommit
  <1>5. SliceInv'
    BY <1>1, <1>2, ListsKept DEF SliceInv
  <1>6. TypeOK'
    <2>1. CsTypeOK' /\ csSeqNum' = dispatched'
      BY <1>2 DEF StreamInv, CsInv
    <2>2. csSeqNum' \in Nat
      BY <2>1 DEF CsTypeOK
    <2>3. csChunk' \in Seq(Command)
      BY <1>2 DEF StreamInv, Issued
    <2>4. csIsBusy' \in BOOLEAN
      BY <1>1, <1>3 DEF StreamType
    <2>5. /\ phys' \in [Buffers -> Slices] /\ recording' \in ListType
          /\ submitted' \in Seq(ListType)
          /\ usage' \in [Buffers -> Usages]
      BY <1>1 DEF TypeOK, listVars
    <2> QED BY <1>3, <2>1, <2>2, <2>3, <2>4, <2>5 DEF TypeOK
  <1> QED BY <1>2, <1>3, <1>5, <1>6

\* ... and when it stays.
LEMMA EnterCommit ==
  ASSUME ContextInv, NEW st, StreamGood(st, seqOf', free', mapped'), Commit(st),
         UNCHANGED <<listVars, phys, usage, deferred>>, closing' \in BOOLEAN,
         seqOf' \in [Buffers -> Nat], mapped' \in [Buffers -> Slices],
         free' \in [Buffers -> SUBSET Slices],
         \A b \in Buffers : free'[b] \subseteq free[b],
         \A b \in Buffers, s \in Slices :
           Renamed(After(st), b, s) => Renamed(Unexecuted, b, s) \/ s \in free[b],
         ctxLock' \in Callers \cup {Free},
         app' \in [Callers -> {"ready", "flushChunk", "synchronize", "decide", "poll",
                          "pollAgain", "wait", "stop", "join", "done"}],
         ret' \in [Callers -> {"ready", "decide", "pollAgain", "wait", "stop"}],
         map' \in [Callers -> [buf : Buffers, type : MapType, noWait : BOOLEAN]]
  PROVE  /\ TypeOK' /\ StreamInv' /\ SliceInv' /\ FlushInv' /\ SeqInv'
         /\ UNCHANGED <<executed, sync, seqArg, csStopped>>
         /\ csChunk' = st.cur /\ csIsBusy' = st.busy /\ dispatched' = dispatched + Len(st.out)
  <1>1. TypeOK /\ StreamInv /\ SliceInv /\ StreamType(st)
    BY DEF ContextInv, StreamGood
  <1>2. Unexecuted' = After(st)
    BY <1>1, AfterCommit
  <1>3. DeferredOwns'
    BY <1>1, <1>2, DeferredKept
  <1>4. deferred' \in Seq(Seq(Command))
    BY <1>1 DEF TypeOK
  <1> QED BY <1>3, <1>4, CommitKeeps

-----------------------------------------------------------------------------
(* Calls that do not block.                                                *)

\* Dom of the functions the steps change.
LEMMA SliceTypes ==
  ASSUME TypeOK
  PROVE  /\ seqOf \in [Buffers -> Nat] /\ mapped \in [Buffers -> Slices]
         /\ phys \in [Buffers -> Slices] /\ free \in [Buffers -> SUBSET Slices]
         /\ usage \in [Buffers -> Usages]
  BY DEF TypeOK

\* The types of the variables of a call.
LEMMA CallTypes ==
  ASSUME TypeOK
  PROVE  /\ ctxLock \in Callers \cup {Free}
         /\ app \in [Callers -> {"ready", "flushChunk", "synchronize", "decide", "poll",
                          "pollAgain", "wait", "stop", "join", "done"}]
         /\ ret \in [Callers -> {"ready", "decide", "pollAgain", "wait", "stop"}]
         /\ map \in [Callers -> [buf : Buffers, type : MapType, noWait : BOOLEAN]]
         /\ closing \in BOOLEAN
  BY DEF TypeOK

\* A free slice is reserved by nobody.
LEMMA FreeIsUnreserved ==
  ASSUME ContextInv, NEW b \in Buffers, NEW s \in free[b]
  PROVE  /\ s \in Slices /\ s # phys[b] /\ ~Retired(Lists, b, s) /\ ~Renamed(Unexecuted, b, s)
  <1>1. s \in Slices
    BY SliceTypes DEF ContextInv
  <1> QED BY <1>1 DEF ContextInv, SliceInv, ListsOwn, CommandsOwn, Reserved

\* A draw or copy: the use is of the mapped slice, which is bound last.
LEMMA DrawKeeps ==
  ASSUME ContextInv, NEW a \in Callers, Draw(a)
  PROVE  ContextInv'
  <1>1. PICK b \in Buffers, acc \in Access :
          /\ Commit(EmitCs(Stream, Use(b, mapped[b], acc)))
          /\ seqOf' = IF b \in Tracked
                      THEN [seqOf EXCEPT ![b] = TrackedSeq(EmitCs(Stream, Use(b, mapped[b], acc)))]
                      ELSE seqOf
    BY DEF Draw
  <1> DEFINE c == Use(b, mapped[b], acc)
             st == EmitCs(Stream, c)
  <1>2. TypeOK /\ StreamInv /\ CallInv /\ SyncInv
    BY DEF ContextInv
  <1>3. mapped[b] \in Slices
    BY <1>2, SliceTypes
  <1>4. c \in Issued /\ c.op = "use" /\ c.buf = b /\ c.slice = mapped[b]
    BY <1>3, IssuedUse
  <1> HIDE DEF c
  <1>5. StreamType(Stream) /\ After(Stream) = Unexecuted
    BY <1>2, StreamStart
  <1>6. StreamType(st)
    BY <1>4, <1>5, EmitType
  <1>7. csSeqNum \in Nat /\ Len(st.out) \in Nat
    BY <1>2, <1>6, NumberedType, DispatchedNumbers
  <1>8. seqOf' \in [Buffers -> Nat]
    BY <1>1, <1>2, <1>7, SliceTypes DEF TrackedSeq, c
  <1>9. \A d \in Tracked :
           \/ seqOf'[d] > csSeqNum + Len(st.out)
           \/ seqOf'[d] = seqOf[d] /\ ~(c.op = "use" /\ c.buf = d)
    <2> SUFFICES ASSUME NEW d \in Tracked
                 PROVE  \/ seqOf'[d] > csSeqNum + Len(st.out)
                        \/ seqOf'[d] = seqOf[d] /\ ~(c.op = "use" /\ c.buf = d)
      OBVIOUS
    <2>0. d \in Buffers
      BY DEF Tracked
    <2>1. CASE d = b
      BY <1>1, <1>2, <1>7, <2>0, <2>1, SliceTypes DEF TrackedSeq, c
    <2>2. CASE d # b
      BY <1>1, <1>2, <1>4, <2>0, <2>2, SliceTypes
    <2> QED BY <2>1, <2>2
  <1>10. UNCHANGED <<callVars, sliceVars, listVars, deferred, closing, usage>>
         /\ ctxLock = Free /\ ~closing
    BY DEF Draw, Enters, MayEnter
  <1>11. mapped' = mapped /\ free' = free /\ phys' = phys
    BY <1>10 DEF sliceVars
  <1>12. StreamGood(st, seqOf', free', mapped')
    <2>1. StreamGood(Stream, seqOf, free, mapped)
      BY GoodStart
    <2>2. \A d \in Buffers : usage[d] # "shared" =>
            /\ c.op = "use" /\ c.buf = d => c.slice = mapped[d]
            /\ mapped'[d] = IF IsRename(c, d) THEN c.slice ELSE mapped[d]
      BY <1>4, <1>11 DEF IsRename
    <2>3. seqOf \in [Buffers -> Nat]
      BY <1>2, SliceTypes
    <2> QED BY <1>2, <1>4, <1>8, <1>9, <1>11, <2>1, <2>2, <2>3, GoodEmit
  <1>13. \A d \in Buffers, s \in Slices :
           Renamed(After(st), d, s) => Renamed(Unexecuted, d, s) \/ s \in free[d]
    <2>1. After(Stream) \in Seq(Issued)
      BY <1>2, <1>5, AfterType
    <2>2. After(st) = Append(Unexecuted, c)
      BY <1>2, <1>4, <1>5, AfterEmit
    <2> QED BY <1>4, <1>5, <2>1, <2>2, RenamedAppend, IssuedRename
  <1>14. Commit(st)
    BY <1>1 DEF c
  <1> HIDE DEF st
  <1>15. TypeOK' /\ StreamInv' /\ SliceInv' /\ FlushInv' /\ SeqInv' /\ UNCHANGED <<sync, csStopped>>
    BY <1>2, <1>8, <1>10, <1>11, <1>12, <1>13, <1>14, EnterCommit, SliceTypes, CallTypes DEF callVars
  <1>16. CallInv' /\ SyncInv'
    BY <1>2, <1>10, <1>15, EnterAndLeave
  <1> QED BY <1>15, <1>16 DEF ContextInv

\* Flushing only.
LEMMA FlushKeeps ==
  ASSUME ContextInv, NEW st \in FlushImplicit(Stream), Commit(st),
         UNCHANGED <<seqOf, sliceVars, listVars, deferred, usage>>, closing' \in BOOLEAN,
         ctxLock' \in Callers \cup {Free},
         app' \in [Callers -> {"ready", "flushChunk", "synchronize", "decide", "poll",
                          "pollAgain", "wait", "stop", "join", "done"}],
         ret' \in [Callers -> {"ready", "decide", "pollAgain", "wait", "stop"}],
         map' \in [Callers -> [buf : Buffers, type : MapType, noWait : BOOLEAN]]
  PROVE  /\ TypeOK' /\ StreamInv' /\ SliceInv' /\ FlushInv' /\ SeqInv'
         /\ UNCHANGED <<executed, sync, seqArg, csStopped>>
         /\ csChunk' = st.cur /\ csIsBusy' = st.busy /\ dispatched' = dispatched + Len(st.out)
  <1>1. TypeOK /\ StreamInv
    BY DEF ContextInv
  <1>2. seqOf' = seqOf /\ mapped' = mapped /\ free' = free /\ phys' = phys
    BY DEF sliceVars
  <1>3. /\ seqOf \in [Buffers -> Nat] /\ mapped \in [Buffers -> Slices]
        /\ free \in [Buffers -> SUBSET Slices]
    BY <1>1, SliceTypes
  <1>4. StreamGood(Stream, seqOf, free, mapped) /\ After(Stream) = Unexecuted
    BY <1>1, GoodStart, StreamStart
  <1>5. /\ StreamGood(st, seqOf, free, mapped)
        /\ \A b, s : Renamed(After(st), b, s) => Renamed(Unexecuted, b, s)
    BY <1>1, <1>3, <1>4, GoodFlushImplicit
  <1> QED BY <1>2, <1>3, <1>5, EnterCommit

\* Replacing the slice of a buffer by a free one.
LEMMA RenameKeeps ==
  ASSUME ContextInv, NEW st \in FlushImplicit(Stream), NEW b \in Buffers, NEW s \in Slices,
         AllocSlice(b, s), mapped' = DiscardSlice(b, s), Commit(EmitCs(st, Rename(b, s))),
         UNCHANGED <<seqOf, phys, listVars, deferred, closing, usage>>,
         ctxLock' \in Callers \cup {Free},
         app' \in [Callers -> {"ready", "flushChunk", "synchronize", "decide", "poll",
                          "pollAgain", "wait", "stop", "join", "done"}],
         ret' \in [Callers -> {"ready", "decide", "pollAgain", "wait", "stop"}],
         map' \in [Callers -> [buf : Buffers, type : MapType, noWait : BOOLEAN]]
  PROVE  /\ TypeOK' /\ StreamInv' /\ SliceInv' /\ FlushInv' /\ SeqInv'
         /\ UNCHANGED <<executed, sync, seqArg, csStopped>>
  <1> DEFINE c == Rename(b, s)
             after == EmitCs(st, c)
  <1>1. TypeOK /\ StreamInv
    BY DEF ContextInv
  <1>2. c \in Issued /\ c.op = "rename" /\ c.buf = b /\ c.slice = s
    BY IssuedRename
  <1>3. /\ seqOf \in [Buffers -> Nat] /\ mapped \in [Buffers -> Slices]
        /\ free \in [Buffers -> SUBSET Slices]
    BY <1>1, SliceTypes
  <1>4. s \in free[b] /\ free' = [free EXCEPT ![b] = @ \ {s}] /\ mapped' = [mapped EXCEPT ![b] = s]
    BY DEF AllocSlice, DiscardSlice
  <1>5. /\ free' \in [Buffers -> SUBSET Slices] /\ mapped' \in [Buffers -> Slices]
        /\ s \notin free'[b] /\ \A d \in Buffers : free'[d] \subseteq free[d]
    BY <1>3, <1>4
  <1>6. StreamGood(Stream, seqOf, free, mapped) /\ After(Stream) = Unexecuted
    BY <1>1, GoodStart, StreamStart
  <1>7. /\ StreamGood(st, seqOf, free, mapped)
        /\ \A d, t : Renamed(After(st), d, t) => Renamed(Unexecuted, d, t)
    BY <1>1, <1>3, <1>6, GoodFlushImplicit
  <1>8. s # phys[b] /\ ~Retired(Lists, b, s) /\ ~Renamed(Unexecuted, b, s)
    BY <1>4, FreeIsUnreserved
  <1> HIDE DEF c
  <1>9. StreamGood(after, seqOf, free', mapped')
    <2>1. Reserved(Lists, phys, free', c.buf, c.slice) /\ ~Renamed(After(st), c.buf, c.slice)
      BY <1>2, <1>5, <1>7, <1>8 DEF Reserved
    <2>2. \A d \in Buffers : usage[d] # "shared" =>
            /\ c.op = "use" /\ c.buf = d => c.slice = mapped[d]
            /\ mapped'[d] = IF IsRename(c, d) THEN c.slice ELSE mapped[d]
      BY <1>2, <1>3, <1>4 DEF IsRename
    <2>3. \A d \in Tracked :
           \/ seqOf[d] > csSeqNum + Len(EmitCs(st, c).out)
           \/ seqOf[d] = seqOf[d] /\ ~(c.op = "use" /\ c.buf = d)
      BY <1>2
    <2>4. StreamGood(st, seqOf, free, mapped) /\ \A d \in Buffers : free'[d] \subseteq free[d]
      BY <1>5, <1>7
    <2>5. seqOf \in [Buffers -> Nat] /\ c \in Issued
      BY <1>2, <1>3
    <2> QED BY ONLY <1>1, <2>1, <2>2, <2>3, <2>4, <2>5, GoodEmit
  <1>10. \A d \in Buffers, t \in Slices :
           Renamed(After(after), d, t) => Renamed(Unexecuted, d, t) \/ t \in free[d]
    <2>1. StreamType(st)
      BY <1>7 DEF StreamGood
    <2>2. After(st) \in Seq(Issued) /\ After(after) = Append(After(st), c)
      BY <1>1, <1>2, <2>1, AfterType, AfterEmit
    <2>3. \A d \in Buffers, t \in Slices : c = Rename(d, t) => t \in free[d]
      BY <1>2, <1>4, IssuedRename
    <2> QED BY <1>2, <1>7, <2>2, <2>3, RenamedAppend
  <1>11. Commit(after)
    BY DEF c
  <1> HIDE DEF after
  <1>12. seqOf' = seqOf
    OBVIOUS
  <1>13. closing' \in BOOLEAN
    BY <1>1, CallTypes
  <1> QED BY <1>3, <1>5, <1>9, <1>10, <1>11, <1>12, <1>13, EnterCommit

\* A discard: the new slice was free and is now bound last.
LEMMA MapDiscardKeeps ==
  ASSUME ContextInv, NEW a \in Callers, MapDiscard(a)
  PROVE  ContextInv'
  <1>1. PICK b \in Buffers \ Tracked, s \in Slices :
          AllocSlice(b, s) /\ mapped' = DiscardSlice(b, s) /\ Commit(EmitCs(Stream, Rename(b, s)))
    BY DEF MapDiscard
  <1>2. TypeOK /\ CallInv /\ SyncInv
    BY DEF ContextInv
  <1>3. UNCHANGED <<callVars, seqOf, phys, listVars, deferred, closing, usage>>
        /\ ctxLock = Free /\ ~closing
    BY DEF MapDiscard, Enters, MayEnter
  <1>4. Stream \in FlushImplicit(Stream)
    BY DEF FlushImplicit
  <1>5. ctxLock' = ctxLock /\ app' = app /\ ret' = ret /\ map' = map
    BY <1>3 DEF callVars
  <1>6. TypeOK' /\ StreamInv' /\ SliceInv' /\ FlushInv' /\ SeqInv' /\ UNCHANGED <<sync, csStopped>>
    BY <1>1, <1>2, <1>3, <1>4, <1>5, RenameKeeps, CallTypes
  <1>7. CallInv' /\ SyncInv'
    BY <1>2, <1>3, <1>6, EnterAndLeave
  <1> QED BY <1>6, <1>7 DEF ContextInv

\* A flush of the application.
LEMMA FlushContextKeeps ==
  ASSUME ContextInv, NEW a \in Callers, FlushContext(a)
  PROVE  ContextInv'
  <1>2. TypeOK /\ CallInv /\ SyncInv
    BY DEF ContextInv
  <1>3. UNCHANGED <<callVars, seqOf, sliceVars, listVars, deferred, closing, usage>>
        /\ ctxLock = Free /\ ~closing /\ Commit(Flush(Stream))
    BY DEF FlushContext, Enters, MayEnter
  <1>4. Flush(Stream) \in FlushImplicit(Stream)
    BY DEF FlushImplicit
  <1>5. ctxLock' = ctxLock /\ app' = app /\ ret' = ret /\ map' = map
    BY <1>3 DEF callVars
  <1>6. TypeOK' /\ StreamInv' /\ SliceInv' /\ FlushInv' /\ SeqInv' /\ UNCHANGED <<sync, csStopped>>
    BY <1>2, <1>3, <1>4, <1>5, FlushKeeps, CallTypes
  <1>7. CallInv' /\ SyncInv'
    BY <1>2, <1>3, <1>6, EnterAndLeave
  <1> QED BY <1>6, <1>7 DEF ContextInv

-----------------------------------------------------------------------------
(* Executing a deferred command list.                                      *)

StreamOf(T) == [out : Seq(Seq(T)), cur : Seq(T), busy : BOOLEAN]

\* The shape of what EmitCs returns, for commands of any kind.
LEMMA EmitAny ==
  ASSUME NEW T, NEW st, st \in StreamOf(T), NEW c, c \in T
  PROVE  /\ EmitCs(st, c) \in StreamOf(T)
         /\ Len(st.cur) < ChunkCapacity =>
              EmitCs(st, c).out = st.out /\ EmitCs(st, c).cur = Append(st.cur, c)
         /\ ~(Len(st.cur) < ChunkCapacity) =>
              EmitCs(st, c).out = Append(st.out, st.cur) /\ EmitCs(st, c).cur = Append(<<>>, c)
  <1>1. st.out \in Seq(Seq(T)) /\ st.cur \in Seq(T) /\ <<>> \in Seq(T)
    BY DEF StreamOf
  <1>2. Append(st.out, st.cur) \in Seq(Seq(T))
    BY <1>1
  <1>3. Sent(st) \in [out : Seq(Seq(T)), cur : Seq(T), busy : BOOLEAN]
    BY <1>1, <1>2 DEF Sent
  <1>4. ASSUME NEW r \in [out : Seq(Seq(T)), cur : Seq(T), busy : BOOLEAN]
        PROVE  /\ [r EXCEPT !.cur = Append(@, c)] \in [out : Seq(Seq(T)), cur : Seq(T), busy : BOOLEAN]
               /\ [r EXCEPT !.cur = Append(@, c)].out = r.out
               /\ [r EXCEPT !.cur = Append(@, c)].cur = Append(r.cur, c)
    <2>1. r.cur \in Seq(T)
      BY <1>4
    <2>2. Append(r.cur, c) \in Seq(T)
      BY <2>1
    <2> QED BY <1>4, <2>2
  <1>5. Sent(st).out = Append(st.out, st.cur) /\ Sent(st).cur = <<>>
    BY DEF Sent
  <1> QED BY <1>3, <1>4, <1>5 DEF EmitCs, StreamOf

\* Sequences of one and two elements.
LEMMA AppendPair ==
  ASSUME NEW x, NEW y
  PROVE  Append(<<x>>, y) = <<x, y>> /\ Append(<<>>, x) = <<x>>
  <1>1. <<x>> \in Seq({x, y}) /\ <<x, y>> \in Seq({x, y}) /\ y \in {x, y}
    OBVIOUS
  <1>2. /\ Append(<<x>>, y) \in Seq({x, y}) /\ Len(Append(<<x>>, y)) = 2
        /\ Append(<<x>>, y)[1] = x /\ Append(<<x>>, y)[2] = y
    BY <1>1
  <1>3. Len(Append(<<x>>, y)) = Len(<<x, y>>)
    BY <1>2
  <1>4. \A i \in 1..Len(Append(<<x>>, y)) : Append(<<x>>, y)[i] = <<x, y>>[i]
    BY <1>2
  <1>5. Append(<<x>>, y) = <<x, y>>
    BY ONLY <1>1, <1>2, <1>3, <1>4, SeqEqual
  <1>6. Append(<<>>, x) = <<x>>
    OBVIOUS
  <1> QED BY <1>5, <1>6

\* Two commands are one chunk or two.
LEMMA DeferredShape ==
  ASSUME NEW c1, NEW c2
  PROVE  DeferredList(c1, c2) = IF ChunkCapacity = 1 THEN << <<c1>>, <<c2>> >> ELSE << <<c1, c2>> >>
  <1> DEFINE T == {c1, c2}
             S == StreamOf(T)
             e0 == [out |-> <<>>, cur |-> <<>>, busy |-> FALSE]
             e1 == EmitCs(e0, c1)
             e2 == EmitCs(e1, c2)
  <1>0. /\ \A x : Append(<<>>, x) = <<x>> /\ Len(<<x>>) = 1 /\ <<x>> # <<>>
        /\ \A x, y : Append(<<x>>, y) = <<x, y>> /\ <<x, y>> # <<>>
    BY AppendPair
  <1>1. e0 \in S /\ e0.out = <<>> /\ e0.cur = <<>> /\ Len(e0.cur) < ChunkCapacity
    BY ContextAssumption DEF StreamOf
  <1> HIDE DEF T, e0
  <1>2. c1 \in T /\ c2 \in T
    BY DEF T
  <1>3. e1 \in S /\ e1.out = <<>> /\ e1.cur = <<c1>>
    BY <1>0, <1>1, <1>2, EmitAny
  <1> HIDE DEF e1
  <1>4. CASE ChunkCapacity = 1
    <2>1. ~(Len(e1.cur) < ChunkCapacity)
      BY <1>3, <1>4
    <2>2. e2 \in S /\ e2.out = Append(<<>>, <<c1>>) /\ e2.cur = Append(<<>>, c2)
      <3>1. e1 \in StreamOf(T)
        BY <1>3
      <3>2. e2 \in StreamOf(T) /\ e2.out = Append(e1.out, e1.cur) /\ e2.cur = Append(<<>>, c2)
        BY ONLY <1>2, <2>1, <3>1, EmitAny
      <3> QED BY <1>3, <3>2
    <2>3. e2.out = << <<c1>> >> /\ e2.cur = <<c2>>
      BY <1>0, <2>2
    <2> HIDE DEF e2
    <2>4. FlushCsChunk(e2) = Sent(e2)
      BY <1>0, <2>3 DEF FlushCsChunk
    <2>5. Sent(e2).out = Append(<< <<c1>> >>, <<c2>>)
      BY <2>3 DEF Sent
    <2>6. FlushCsChunk(e2).out = << <<c1>>, <<c2>> >>
      BY <1>0, <2>4, <2>5
    <2> QED BY <1>4, <2>6 DEF DeferredList, e0, e1, e2
  <1>5. CASE ChunkCapacity # 1
    <2>1. Len(e1.cur) < ChunkCapacity
      BY <1>3, <1>5, ContextAssumption
    <2>2. e2 \in S /\ e2.out = <<>> /\ e2.cur = Append(<<c1>>, c2)
      <3>1. e1 \in StreamOf(T)
        BY <1>3
      <3>2. e2 \in StreamOf(T) /\ e2.out = e1.out /\ e2.cur = Append(e1.cur, c2)
        BY ONLY <1>2, <2>1, <3>1, EmitAny
      <3> QED BY <1>3, <3>2
    <2>3. e2.out = <<>> /\ e2.cur = <<c1, c2>>
      BY <1>0, <2>2
    <2> HIDE DEF e2
    <2>4. FlushCsChunk(e2) = Sent(e2)
      BY <1>0, <2>3 DEF FlushCsChunk
    <2>5. Sent(e2).out = Append(<<>>, <<c1, c2>>)
      BY <2>3 DEF Sent
    <2>6. FlushCsChunk(e2).out = << <<c1, c2>> >>
      BY <1>0, <2>4, <2>5
    <2> QED BY <1>5, <2>6 DEF DeferredList, e0, e1, e2
  <1> QED BY <1>4, <1>5

\* Its commands, resolved, follow those that are unexecuted.
LEMMA ResolvedCommands ==
  ASSUME NEW c1, NEW c2, deferred = DeferredList(c1, c2),
         Resolved(c1) \in Issued, Resolved(c2) \in Issued
  PROVE  /\ ResolvedList \in Seq(Seq(Issued)) /\ Len(ResolvedList) > 0
         /\ \A u \in Seq(Issued) :
              u \o FlattenSeq(ResolvedList) = Append(Append(u, Resolved(c1)), Resolved(c2))
         /\ \A b : \A i \in DOMAIN ResolvedList :
              UsesTracked(ResolvedList[i], b)
              => \E c \in {Resolved(c1), Resolved(c2)} : c.op = "use" /\ c.buf = b
         /\ UsedByList = {c1.buf, c2.buf}
  <1> DEFINE d1 == Resolved(c1)
             d2 == Resolved(c2)
  <1> HIDE DEF d1, d2
  <1>0. d1 = Resolved(c1) /\ d2 = Resolved(c2) /\ d1 \in Issued /\ d2 \in Issued
    BY DEF d1, d2
  <1>1. CASE ChunkCapacity = 1
    <2>1. deferred = << <<c1>>, <<c2>> >>
      BY <1>1, DeferredShape
    <2>2. ResolvedList = << <<d1>>, <<d2>> >>
      BY <1>0, <2>1 DEF ResolvedList
    <2>3. <<d1>> \in Seq(Issued) /\ <<d2>> \in Seq(Issued)
      BY <1>0
    <2>4. FlattenSeq(ResolvedList) = <<d1>> \o <<d2>>
      <3>1. << <<d1>> >> \in Seq(Seq(Issued)) /\ <<>> \in Seq(Seq(Issued))
        BY <2>3
      <3>2. Append(<<>>, <<d1>>) = << <<d1>> >> /\ Append(<< <<d1>> >>, <<d2>>) = << <<d1>>, <<d2>> >>
        <4>1. \A x, y : Append(<<>>, x) = <<x>> /\ Append(<<x>>, y) = <<x, y>>
          BY AppendPair
        <4> QED BY <4>1, Zenon
      <3>3. FlattenSeq(<< <<d1>> >>) = <<>> \o <<d1>>
        BY <2>3, <3>1, <3>2, FlattenAppend, FlattenEmpty
      <3>4. <<>> \o <<d1>> = <<d1>>
        OBVIOUS
      <3>5. FlattenSeq(<< <<d1>>, <<d2>> >>) = FlattenSeq(<< <<d1>> >>) \o <<d2>>
        BY <2>3, <3>1, <3>2, FlattenAppend
      <3> QED BY <2>2, <3>3, <3>4, <3>5
    <2>5. \A u \in Seq(Issued) : u \o (<<d1>> \o <<d2>>) = Append(Append(u, d1), d2)
      BY <1>0
    <2>6. UNION {Pending(deferred[i]) : i \in DOMAIN deferred} = {c1, c2}
      BY <2>1 DEF Pending
    <2>7. UsedByList = {c1.buf, c2.buf}
      BY <2>6 DEF UsedByList
    <2>8. \A b : \A i \in DOMAIN ResolvedList :
              UsesTracked(ResolvedList[i], b)
              => \E c \in {d1, d2} : c.op = "use" /\ c.buf = b
      BY <2>2 DEF UsesTracked
    <2>9. ResolvedList \in Seq(Seq(Issued)) /\ Len(ResolvedList) > 0
      BY <2>2, <2>3
    <2> QED BY <1>0, <2>4, <2>5, <2>7, <2>8, <2>9
  <1>2. CASE ChunkCapacity # 1
    <2>1. deferred = << <<c1, c2>> >>
      BY <1>2, DeferredShape
    <2>2. ResolvedList = << <<d1, d2>> >>
      BY <1>0, <2>1 DEF ResolvedList
    <2>3. <<d1, d2>> \in Seq(Issued)
      BY <1>0
    <2>4. FlattenSeq(ResolvedList) = <<d1, d2>>
      <3>1. <<>> \in Seq(Seq(Issued)) /\ Append(<<>>, <<d1, d2>>) = << <<d1, d2>> >>
        OBVIOUS
      <3>2. FlattenSeq(<< <<d1, d2>> >>) = <<>> \o <<d1, d2>>
        BY <2>3, <3>1, FlattenAppend, FlattenEmpty
      <3>3. <<>> \o <<d1, d2>> = <<d1, d2>>
        OBVIOUS
      <3> QED BY <2>2, <3>2, <3>3
    <2>5. \A u \in Seq(Issued) : u \o <<d1, d2>> = Append(Append(u, d1), d2)
      BY <1>0
    <2>6. UNION {Pending(deferred[i]) : i \in DOMAIN deferred} = {c1, c2}
      BY <2>1 DEF Pending
    <2>7. UsedByList = {c1.buf, c2.buf}
      BY <2>6 DEF UsedByList
    <2>8. \A b : \A i \in DOMAIN ResolvedList :
              UsesTracked(ResolvedList[i], b)
              => \E c \in {d1, d2} : c.op = "use" /\ c.buf = b
      BY <2>2 DEF UsesTracked
    <2>9. ResolvedList \in Seq(Seq(Issued)) /\ Len(ResolvedList) > 0
      BY <2>2, <2>3
    <2> QED BY <1>0, <2>4, <2>5, <2>7, <2>8, <2>9
  <1> QED BY <1>1, <1>2

\* The chunks of a list come after the stream.
LEMMA AfterList ==
  ASSUME TypeOK, StreamInv, NEW st, StreamType(st), st.cur = <<>>,
         NEW lists, lists \in Seq(Seq(Issued)),
         NEW after, after = WithChunks(st, lists)
  PROVE  /\ StreamType(after) /\ after.out = st.out \o lists /\ after.cur = <<>>
         /\ after.busy = TRUE
         /\ After(after) = After(st) \o FlattenSeq(lists)
  <1>1. st.out \in Seq(Seq(Issued)) /\ FlattenSeq(st.out) \in Seq(Issued) /\ FlattenSeq(lists) \in Seq(Issued)
    BY FlattenType DEF StreamType
  <1>2. st.out \o lists \in Seq(Seq(Issued))
    BY <1>1
  <1>3. StreamType(after) /\ after.out = st.out \o lists /\ after.cur = <<>> /\ after.busy = TRUE
    BY <1>2 DEF StreamType, WithChunks
  <1>4. FlattenSeq(after.out) = FlattenSeq(st.out) \o FlattenSeq(lists)
    BY <1>1, <1>3, FlattenConcat
  <1>5. FlattenSeq(after.out) \o after.cur = FlattenSeq(st.out) \o FlattenSeq(lists)
    <2> DEFINE x == FlattenSeq(st.out) \o FlattenSeq(lists)
    <2>1. x \in Seq(Issued)
      BY <1>1
    <2> HIDE DEF x
    <2>2. x \o <<>> = x
      BY <2>1, ConcatEmptySeq
    <2>3. FlattenSeq(after.out) = x
      BY <1>4 DEF x
    <2>4. FlattenSeq(after.out) \o after.cur = x
      BY <1>3, <2>2, <2>3
    <2> QED BY <2>4 DEF x
  <1>6. FlattenSeq(st.out) \o st.cur = FlattenSeq(st.out)
    BY <1>1, ConcatEmptySeq
  <1>7. Before \o (FlattenSeq(st.out) \o FlattenSeq(lists)) = (Before \o FlattenSeq(st.out)) \o FlattenSeq(lists)
    <2>1. Before \in Seq(Issued)
      BY BeforeType
    <2> QED BY <1>1, <2>1, ConcatThree, Zenon
  <1> QED BY <1>3, <1>5, <1>6, <1>7 DEF After

\* A list is as good as its two commands one after the other.
LEMMA GoodList ==
  ASSUME TypeOK, StreamInv, NEW st, st.cur = <<>>,
         StreamGood(st, seqOf, free, mapped),
         NEW c1, NEW c2, deferred = DeferredList(c1, c2),
         Resolved(c1) \in Issued, Resolved(c2) \in Issued,
         CommandsOwn(Append(Append(After(st), Resolved(c1)), Resolved(c2)), Lists, phys, free),
         Chained(Append(Append(After(st), Resolved(c1)), Resolved(c2)), phys, mapped),
         \A c \in {c1, c2} : Resolved(c).op = "use" => Resolved(c).buf = c.buf,
         NEW after, after = WithChunks(st, ResolvedList),
         seqOf' = [b \in Buffers |->
                     IF b \in UsedByList \cap Tracked THEN csSeqNum + Len(after.out)
                     ELSE seqOf[b]]
  PROVE  StreamGood(after, seqOf', free, mapped) /\ seqOf' \in [Buffers -> Nat]
  <1>1. StreamType(st) /\ Numbered(st, seqOf) /\ After(st) \in Seq(Issued)
    BY AfterType DEF StreamGood
  <1>2. /\ ResolvedList \in Seq(Seq(Issued)) /\ Len(ResolvedList) > 0
        /\ \A u \in Seq(Issued) :
             u \o FlattenSeq(ResolvedList) = Append(Append(u, Resolved(c1)), Resolved(c2))
        /\ \A b : \A i \in DOMAIN ResolvedList :
             UsesTracked(ResolvedList[i], b)
             => \E c \in {Resolved(c1), Resolved(c2)} : c.op = "use" /\ c.buf = b
        /\ UsedByList = {c1.buf, c2.buf}
    BY ResolvedCommands
  <1>3. /\ StreamType(after) /\ after.out = st.out \o ResolvedList /\ after.cur = <<>>
        /\ after.busy = TRUE /\ After(after) = After(st) \o FlattenSeq(ResolvedList)
    <2>1. ResolvedList \in Seq(Seq(Issued))
      BY <1>2
    <2>2. TypeOK /\ StreamInv /\ st.cur = <<>> /\ after = WithChunks(st, ResolvedList)
      OBVIOUS
    <2> QED BY ONLY <1>1, <2>1, <2>2, AfterList
  <1>4. After(after) = Append(Append(After(st), Resolved(c1)), Resolved(c2))
    BY <1>1, <1>2, <1>3
  <1>5. /\ csSeqNum \in Nat /\ Len(st.out) \in Nat /\ Len(after.out) \in Nat
        /\ Len(after.out) = Len(st.out) + Len(ResolvedList) /\ Len(ResolvedList) \in Nat
        /\ DOMAIN st.out = 1..Len(st.out) /\ DOMAIN ResolvedList = 1..Len(ResolvedList)
        /\ DOMAIN after.out = 1..Len(after.out) /\ st.out \in Seq(Seq(Issued))
    <2>1. st.out \in Seq(Seq(Issued)) /\ csSeqNum \in Nat
      BY <1>1, NumberedType, DispatchedNumbers
    <2>2. ResolvedList \in Seq(Seq(Issued)) /\ after.out = st.out \o ResolvedList
      BY <1>2, <1>3
    <2> QED BY ONLY <2>1, <2>2
  <1>6. seqOf' \in [Buffers -> Nat]
    BY <1>5, SliceTypes
  <1>7. \A b \in Tracked : seqOf'[b] = seqOf[b] \/ seqOf'[b] > csSeqNum + Len(st.out)
    BY <1>2, <1>5 DEF Tracked
  <1>8. Numbered(st, seqOf')
    <2>1. seqOf \in [Buffers -> Nat]
      BY SliceTypes
    <2> QED BY <1>1, <1>6, <1>7, <2>1, NumberedRaised
  <1>9. Numbered(after, seqOf')
    <2>1. SUFFICES ASSUME NEW b \in Tracked
          PROVE /\ \A i \in DOMAIN after.out : UsesTracked(after.out[i], b) => seqOf'[b] >= csSeqNum + i
                /\ ~UsesTracked(after.cur, b)
      BY <1>8 DEF Numbered
    <2>2. ~UsesTracked(after.cur, b)
      BY <1>3 DEF UsesTracked
    <2>3. ASSUME NEW i \in DOMAIN after.out, UsesTracked(after.out[i], b)
          PROVE seqOf'[b] >= csSeqNum + i
      <3>1. CASE i \in 1..Len(st.out)
        <4>1. after.out[i] = st.out[i]
          BY <1>2, <1>3, <1>5, <3>1
        <4> QED BY <1>5, <1>8, <2>3, <3>1, <4>1 DEF Numbered
      <3>2. CASE i \notin 1..Len(st.out)
        <4>1. /\ i - Len(st.out) \in DOMAIN ResolvedList
              /\ after.out[i] = ResolvedList[i - Len(st.out)]
          BY <1>2, <1>3, <1>5, <3>2, SMTT(20)
        <4>2. PICK c \in {c1, c2} : Resolved(c).op = "use" /\ Resolved(c).buf = b
          BY <1>2, <2>3, <4>1
        <4>3. b \in UsedByList /\ b \in Buffers
          BY <1>2, <4>2 DEF Tracked
        <4>4. seqOf'[b] = csSeqNum + Len(after.out)
          BY <4>3
        <4> QED BY <1>5, <4>4
      <3> QED BY <3>1, <3>2
    <2> QED BY <2>2, <2>3
  <1> QED BY <1>3, <1>4, <1>6, <1>9 DEF StreamGood

\* Executing a deferred list: what it reserved is now a command.
LEMMA ExecuteCommandListKeeps ==
  ASSUME ContextInv, NEW a \in Callers, ExecuteCommandList(a)
  PROVE  ContextInv'
  <1>1. PICK st \in FlushImplicit(FlushCsChunk(Stream)) :
       LET after == WithChunks(st, ResolvedList)
       IN /\ Commit(after)
          /\ seqOf' = [b \in Buffers |->
                         IF b \in UsedByList \cap Tracked THEN csSeqNum + Len(after.out)
                         ELSE seqOf[b]]
    BY DEF ExecuteCommandList
  <1>2. PICK after :
       /\ after = WithChunks(st, ResolvedList)
       /\ Commit(after)
       /\ seqOf' = [b \in Buffers |->
                      IF b \in UsedByList \cap Tracked THEN csSeqNum + Len(after.out)
                      ELSE seqOf[b]]
    BY <1>1
  <1>3. TypeOK /\ StreamInv /\ SliceInv /\ CallInv /\ SyncInv
    BY DEF ContextInv
  <1>4. /\ seqOf \in [Buffers -> Nat] /\ mapped \in [Buffers -> Slices]
        /\ free \in [Buffers -> SUBSET Slices]
    BY <1>3, SliceTypes
  <1>5. /\ StreamGood(st, seqOf, free, mapped) /\ st.cur = <<>>
        /\ \A b, s : Renamed(After(st), b, s) => Renamed(Unexecuted, b, s)
    <2>1. StreamGood(Stream, seqOf, free, mapped) /\ After(Stream) = Unexecuted
      BY <1>3, GoodStart, StreamStart
    <2>2. StreamGood(FlushCsChunk(Stream), seqOf, free, mapped) /\ FlushCsChunk(Stream).cur = <<>>
      BY <1>3, <1>4, <2>1, GoodFlushCsChunk
    <2>3. After(FlushCsChunk(Stream)) = Unexecuted
      BY <1>3, <2>1, AfterSent DEF FlushCsChunk, StreamGood
    <2> QED BY <1>3, <1>4, <2>2, <2>3, GoodFlushImplicit
  <1>6. StreamType(st) /\ After(st) \in Seq(Issued)
        /\ CommandsOwn(After(st), Lists, phys, free) /\ Chained(After(st), phys, mapped)
    BY <1>3, <1>5, AfterType DEF StreamGood
  <1>7. StreamGood(after, seqOf', free, mapped) /\ seqOf' \in [Buffers -> Nat]
    <2>1. CASE \E b \in Buffers :
       /\ usage[b] = "staging"
       /\ deferred = DeferredList(Use(b, NoSlice, "R"), Use(b, NoSlice, "W"))
      <3>1. PICK b \in Buffers :
         /\ usage[b] = "staging"
         /\ deferred = DeferredList(Use(b, NoSlice, "R"), Use(b, NoSlice, "W"))
        BY <2>1
      <3> DEFINE c1 == Use(b, NoSlice, "R")
                 c2 == Use(b, NoSlice, "W")
                 d1 == Use(b, mapped[b], "R")
                 d2 == Use(b, mapped[b], "W")
      <3>2. Resolved(c1) = d1 /\ Resolved(c2) = d2 /\ c1.buf = b /\ c2.buf = b
        BY DEF Resolved, Use
      <3>3. /\ d1 \in Issued /\ d1.op = "use" /\ d1.buf = b /\ d1.slice = mapped[b]
            /\ d2 \in Issued /\ d2.op = "use" /\ d2.buf = b /\ d2.slice = mapped[b]
        <4>1. mapped[b] \in Slices /\ "R" \in Access /\ "W" \in Access
          BY <1>4 DEF Access
        <4> QED BY <4>1, IssuedUse
      <3>0. deferred = DeferredList(c1, c2)
        BY <3>1
      <3> HIDE DEF c1, c2, d1, d2
      <3>4. /\ Append(After(st), d1) \in Seq(Issued)
            /\ CommandsOwn(Append(After(st), d1), Lists, phys, free)
            /\ Chained(Append(After(st), d1), phys, mapped)
        BY ONLY <1>6, <3>3, CommandsOwnAppend, ChainedAppend, ConcatIssued DEF IsRename
      <3>5. /\ CommandsOwn(Append(Append(After(st), d1), d2), Lists, phys, free)
            /\ Chained(Append(Append(After(st), d1), d2), phys, mapped)
        BY ONLY <3>3, <3>4, CommandsOwnAppend, ChainedAppend DEF IsRename
      <3> QED BY ONLY <1>2, <1>3, <1>5, <3>0, <3>2, <3>3, <3>5, GoodList
    <2>2. CASE \E b \in Buffers, s \in Slices :
       /\ usage[b] = "shared"
       /\ deferred = DeferredList(Rename(b, s), Use(b, s, "R"))
       /\ Reserved(Lists, phys, free, b, s)
       /\ ~Renamed(Unexecuted, b, s)
      <3>1. PICK b \in Buffers, s \in Slices :
         /\ usage[b] = "shared"
         /\ deferred = DeferredList(Rename(b, s), Use(b, s, "R"))
         /\ Reserved(Lists, phys, free, b, s)
         /\ ~Renamed(Unexecuted, b, s)
        BY <2>2
      <3> DEFINE d1 == Rename(b, s)
                 d2 == Use(b, s, "R")
      <3>3. /\ d1 \in Issued /\ d1.op = "rename" /\ d1.buf = b /\ d1.slice = s
            /\ d2 \in Issued /\ d2.op = "use" /\ d2.buf = b /\ d2.slice = s
        <4>1. "R" \in Access
          BY DEF Access
        <4> QED BY <4>1, IssuedUse, IssuedRename
      <3>2. Resolved(d1) = d1 /\ Resolved(d2) = d2
        <4>1. s # NoSlice
          BY ContextAssumption
        <4> HIDE DEF d1, d2
        <4> QED BY <3>3, <4>1 DEF Resolved
      <3>0. deferred = DeferredList(d1, d2)
        BY <3>1
      <3>6. Reserved(Lists, phys, free, b, s) /\ ~Renamed(After(st), b, s)
        BY <1>5, <3>1
      <3>7. usage[b] = "shared"
        BY <3>1
      <3> HIDE DEF d1, d2
      <3>4. /\ Append(After(st), d1) \in Seq(Issued)
            /\ CommandsOwn(Append(After(st), d1), Lists, phys, free)
            /\ Chained(Append(After(st), d1), phys, mapped)
        BY ONLY <1>6, <3>3, <3>6, <3>7, CommandsOwnAppend, ChainedAppend, ConcatIssued DEF IsRename
      <3>5. /\ CommandsOwn(Append(Append(After(st), d1), d2), Lists, phys, free)
            /\ Chained(Append(Append(After(st), d1), d2), phys, mapped)
        BY ONLY <3>3, <3>4, <3>7, CommandsOwnAppend, ChainedAppend DEF IsRename
      <3> QED BY ONLY <1>2, <1>3, <1>5, <3>0, <3>2, <3>3, <3>5, GoodList
    <2> QED BY <1>3, <2>1, <2>2 DEF SliceInv, DeferredOwns, ExecuteCommandList
  <1>8. UNCHANGED <<callVars, sliceVars, listVars, closing, usage>> /\ deferred' = <<>>
        /\ ctxLock = Free /\ ~closing
    BY DEF ExecuteCommandList, Enters, MayEnter
  <1>9. /\ ctxLock' = ctxLock /\ app' = app /\ ret' = ret /\ map' = map
        /\ mapped' = mapped /\ phys' = phys /\ free' = free
    BY <1>8 DEF callVars, sliceVars
  <1>10. DeferredOwns' /\ deferred' \in Seq(Seq(Command))
    BY <1>8 DEF DeferredOwns
  <1>11. TypeOK' /\ StreamInv' /\ SliceInv' /\ FlushInv' /\ SeqInv' /\ UNCHANGED <<sync, csStopped>>
    BY <1>2, <1>3, <1>4, <1>7, <1>8, <1>9, <1>10, CommitKeeps, CallTypes
  <1>12. CallInv' /\ SyncInv'
    BY <1>3, <1>8, <1>11, EnterAndLeave
  <1> QED BY <1>11, <1>12 DEF ContextInv

-----------------------------------------------------------------------------
(* Calls that block.                                                       *)

CallTypeOK ==
  /\ ctxLock \in Callers \cup {Free}
  /\ app \in [Callers -> {"ready", "flushChunk", "synchronize", "decide", "poll",
                          "pollAgain", "wait", "stop", "join", "done"}]
  /\ ret \in [Callers -> {"ready", "decide", "pollAgain", "wait", "stop"}]
  /\ map \in [Callers -> [buf : Buffers, type : MapType, noWait : BOOLEAN]]
  /\ closing \in BOOLEAN

\* The steps that record nothing, execute nothing and free nothing.
LEMMA FrameKeeps ==
  ASSUME ContextInv, CsInv', CallTypeOK', csStopped => csStopped',
         UNCHANGED <<dispatched, executed, queued, chunk, csPc, ran, streamVars, seqOf,
                     sliceVars, listVars, deferred, usage>>
  PROVE  TypeOK' /\ StreamInv' /\ SliceInv' /\ FlushInv' /\ SeqInv'
  <1>1. /\ TypeOK /\ StreamInv /\ SliceInv /\ FlushInv /\ SeqInv
    BY DEF ContextInv
  <1>2. /\ csChunk' = csChunk /\ csSeqNum' = csSeqNum /\ csIsBusy' = csIsBusy
        /\ mapped' = mapped /\ phys' = phys /\ free' = free
        /\ recording' = recording /\ submitted' = submitted
        /\ dispatched' = dispatched /\ queued' = queued /\ chunk' = chunk /\ csPc' = csPc
        /\ ran' = ran /\ seqOf' = seqOf /\ deferred' = deferred /\ usage' = usage
        /\ Unexecuted' = Unexecuted /\ Lists' = Lists
    BY DEF streamVars, sliceVars, listVars, Unexecuted, Lists
  <1>3. StreamInv'
    BY <1>1, <1>2 DEF StreamInv
  <1>4. TypeOK'
    BY <1>1, <1>2 DEF TypeOK, CallTypeOK, CsInv
  <1>5. SliceInv'
    BY <1>1, <1>2 DEF SliceInv, ListsOwn, CommandsOwn, Reserved, DeferredOwns, Chained
  <1>6. FlushInv'
    BY <1>1, <1>2 DEF FlushInv, EndsFlushed
  <1>7. SeqInv'
    BY <1>1, <1>2 DEF SeqInv, Tracked, UsesTracked
  <1> QED BY <1>3, <1>4, <1>5, <1>6, <1>7

\* A thread that is alone inside and waits for nothing.
LEMMA InsideKeeps ==
  ASSUME TypeOK, NEW a \in Callers, ~closing, ~csStopped,
         \A c \in Callers \ {a} : app[c] = "ready" /\ sync[c] = "idle",
         sync[a] = "idle", NEW x \in {"flushChunk", "poll"},
         app' = [app EXCEPT ![a] = x], ctxLock' = a,
         x = "flushChunk" => ret'[a] \in {"decide", "pollAgain", "wait"},
         UNCHANGED <<closing, sync, csStopped>>
  PROVE  CallInv' /\ SyncInv'
  <1>1. \A c \in Callers : app'[c] = IF c = a THEN x ELSE "ready"
    BY CallTypes
  <1>2. \A c \in Callers : sync'[c] = "idle"
    OBVIOUS
  <1>3. CallInv'
    BY <1>1, <1>2 DEF CallInv
  <1>4. SyncInv'
    BY <1>1, <1>2 DEF SyncInv
  <1> QED BY <1>3, <1>4

\* A thread that leaves.
LEMMA LeaveKeeps ==
  ASSUME TypeOK, NEW a \in Callers, ~closing, ~csStopped,
         \A c \in Callers \ {a} : app[c] = "ready" /\ sync[c] = "idle",
         sync[a] = "idle", Leave(a),
         UNCHANGED <<closing, sync, csStopped>>
  PROVE  CallInv' /\ SyncInv'
  <1>1. (\A c \in Callers : app'[c] = "ready") /\ ctxLock' = Free
    BY CallTypes DEF Leave
  <1>2. \A c \in Callers : sync'[c] = "idle" /\ c # Free
    BY ContextAssumption
  <1>3. CallInv'
    BY <1>1, <1>2 DEF CallInv
  <1>4. SyncInv'
    BY <1>1, <1>2 DEF SyncInv
  <1> QED BY <1>3, <1>4

\* Types of what the calls change.
LEMMA CallChange ==
  ASSUME TypeOK, NEW a \in Callers
  PROVE  /\ \A x \in {"ready", "flushChunk", "synchronize", "decide", "poll",
                      "pollAgain", "wait", "stop", "join", "done"} :
              [app EXCEPT ![a] = x] \in
                [Callers -> {"ready", "flushChunk", "synchronize", "decide", "poll",
                             "pollAgain", "wait", "stop", "join", "done"}]
         /\ \A x \in {"ready", "decide", "pollAgain", "wait", "stop"} :
              [ret EXCEPT ![a] = x] \in
                [Callers -> {"ready", "decide", "pollAgain", "wait", "stop"}]
         /\ \A m \in [buf : Buffers, type : MapType, noWait : BOOLEAN] :
              [map EXCEPT ![a] = m] \in
                [Callers -> [buf : Buffers, type : MapType, noWait : BOOLEAN]]
         /\ NoMap \in [buf : Buffers, type : MapType, noWait : BOOLEAN]
  <1>1. NoMap \in [buf : Buffers, type : MapType, noWait : BOOLEAN]
    BY ContextAssumption DEF NoMap, MapType
  <1>2. /\ app \in [Callers -> {"ready", "flushChunk", "synchronize", "decide", "poll",
                          "pollAgain", "wait", "stop", "join", "done"}]
        /\ ret \in [Callers -> {"ready", "decide", "pollAgain", "wait", "stop"}]
        /\ map \in [Callers -> [buf : Buffers, type : MapType, noWait : BOOLEAN]]
    BY CallTypes
  <1>3. \A x \in {"ready", "flushChunk", "synchronize", "decide", "poll",
                      "pollAgain", "wait", "stop", "join", "done"} :
              [app EXCEPT ![a] = x] \in
                [Callers -> {"ready", "flushChunk", "synchronize", "decide", "poll",
                             "pollAgain", "wait", "stop", "join", "done"}]
    BY <1>2
  <1>4. \A x \in {"ready", "decide", "pollAgain", "wait", "stop"} :
              [ret EXCEPT ![a] = x] \in
                [Callers -> {"ready", "decide", "pollAgain", "wait", "stop"}]
    BY <1>2
  <1>5. \A m \in [buf : Buffers, type : MapType, noWait : BOOLEAN] :
              [map EXCEPT ![a] = m] \in
                [Callers -> [buf : Buffers, type : MapType, noWait : BOOLEAN]]
    BY <1>2
  <1> QED BY <1>1, <1>3, <1>4, <1>5

\* Leaving a call keeps the types.
LEMMA LeaveTypes ==
  ASSUME TypeOK, NEW a \in Callers, Leave(a), closing' = closing
  PROVE  CallTypeOK'
  <1>1. "ready" \in {"ready", "decide", "pollAgain", "wait", "stop"}
    OBVIOUS
  <1> QED BY <1>1, CallChange, CallTypes DEF Leave, CallTypeOK

\* A caller that is inside a call and has not closed the context is alone.
LEMMA Alone ==
  ASSUME ContextInv, NEW a \in Callers, app[a] \in {"decide", "poll", "pollAgain", "wait"}
  PROVE  /\ ~closing /\ ~csStopped /\ ctxLock = a
         /\ \A c \in Callers \ {a} : app[c] = "ready" /\ sync[c] = "idle"
  <1>1. ~closing
    BY DEF ContextInv, CallInv
  <1>2. app[a] # "ready"
    OBVIOUS
  <1> QED BY <1>1, <1>2, OneInside DEF ContextInv, SyncInv

\* Entering Map.
LEMMA MapKeeps ==
  ASSUME ContextInv, NEW a \in Callers, Map(a)
  PROVE  ContextInv'
  <1>0. TypeOK /\ StreamInv /\ CallInv /\ SyncInv
    BY DEF ContextInv
  <1>1. PICK b \in Buffers, type \in MapType, noWait \in BOOLEAN :
       /\ map' = [map EXCEPT ![a] = [buf |-> b, type |-> type, noWait |-> noWait]]
       /\ IF type = "WRITE" /\ ~noWait THEN CallSynchronize(a, "decide")
          ELSE app' = [app EXCEPT ![a] = "poll"] /\ UNCHANGED ret
    BY DEF Map
  <1>2. /\ ctxLock = Free /\ ~closing /\ ctxLock' = a
        /\ UNCHANGED <<csVars, streamVars, seqOf, sliceVars, listVars, deferred, closing, usage>>
    BY DEF Map, Enters, MayEnter
  <1>3. UNCHANGED <<dispatched, executed, queued, chunk, csPc, ran, csStopped, sync>>
    BY <1>2 DEF csVars
  <1>4. CsInv'
    BY <1>0, <1>2, CsInvFrame DEF StreamInv
  <1>5. PICK x \in {"flushChunk", "poll"} :
          /\ app' = [app EXCEPT ![a] = x]
          /\ x = "flushChunk" => ret' = [ret EXCEPT ![a] = "decide"]
          /\ x # "flushChunk" => ret' = ret
    BY <1>1 DEF CallSynchronize
  <1>6. ret \in [Callers -> {"ready", "decide", "pollAgain", "wait", "stop"}]
    BY <1>0, CallTypes
  <1>7. CallTypeOK'
    <2>1. map' \in [Callers -> [buf : Buffers, type : MapType, noWait : BOOLEAN]]
      BY <1>0, <1>1, CallChange
    <2>2. app' \in [Callers -> {"ready", "flushChunk", "synchronize", "decide", "poll",
                          "pollAgain", "wait", "stop", "join", "done"}]
      BY <1>0, <1>5, CallChange
    <2>3. ret' \in [Callers -> {"ready", "decide", "pollAgain", "wait", "stop"}]
      BY <1>5, <1>6
    <2> QED BY <1>0, <1>2, <2>1, <2>2, <2>3, CallTypes DEF CallTypeOK
  <1>8. TypeOK' /\ StreamInv' /\ SliceInv' /\ FlushInv' /\ SeqInv'
    BY <1>2, <1>3, <1>4, <1>7, FrameKeeps
  <1>9. (\A c \in Callers : app[c] = "ready" /\ sync[c] = "idle") /\ ~csStopped
    BY <1>0, <1>2, NobodyInside DEF SyncInv
  <1>10. CallInv' /\ SyncInv'
    BY <1>0, <1>2, <1>3, <1>5, <1>6, <1>9, InsideKeeps
  <1> QED BY <1>8, <1>10 DEF ContextInv

\* Renaming the buffer of a Map for writing.
LEMMA InvalidatePreserveKeeps ==
  ASSUME ContextInv, NEW a \in Callers, InvalidatePreserve(a)
  PROVE  ContextInv'
  <1>0. TypeOK /\ StreamInv /\ CallInv /\ SyncInv
    BY DEF ContextInv
  <1>1. PICK s \in Slices, st \in FlushImplicit(Stream) :
       /\ AllocSlice(map[a].buf, s)
       /\ mapped' = DiscardSlice(map[a].buf, s)
       /\ Commit(EmitCs(st, Rename(map[a].buf, s)))
    BY DEF InvalidatePreserve
  <1>2. /\ app[a] = "decide" /\ sync[a] = "idle" /\ Leave(a)
        /\ UNCHANGED <<seqOf, phys, listVars, deferred, closing, usage>>
    BY DEF InvalidatePreserve, Back
  <1>3. map[a].buf \in Buffers
    BY <1>0, CallTypes
  <1>4. CallTypeOK'
    BY <1>0, <1>2, LeaveTypes
  <1>5. TypeOK' /\ StreamInv' /\ SliceInv' /\ FlushInv' /\ SeqInv' /\ UNCHANGED <<sync, csStopped>>
    BY <1>1, <1>2, <1>3, <1>4, RenameKeeps DEF CallTypeOK
  <1>6. ~closing /\ ~csStopped /\ \A c \in Callers \ {a} : app[c] = "ready" /\ sync[c] = "idle"
    BY <1>2, Alone
  <1>7. CallInv' /\ SyncInv'
    BY <1>0, <1>2, <1>5, <1>6, LeaveKeeps
  <1> QED BY <1>5, <1>7 DEF ContextInv

\* Going on to the first poll.
LEMMA NoInvalidateKeeps ==
  ASSUME ContextInv, NEW a \in Callers, NoInvalidate(a)
  PROVE  ContextInv'
  <1>0. TypeOK /\ StreamInv /\ CallInv /\ SyncInv
    BY DEF ContextInv
  <1>1. /\ app[a] = "decide" /\ sync[a] = "idle" /\ app' = [app EXCEPT ![a] = "poll"]
        /\ UNCHANGED <<csVars, ctxLock, ret, map, streamVars, seqOf, sliceVars,
                       listVars, deferred, closing, usage>>
    BY DEF NoInvalidate, Back
  <1>2. UNCHANGED <<dispatched, executed, queued, chunk, csPc, ran, csStopped, sync>>
    BY <1>1 DEF csVars
  <1>3. CsInv'
    BY <1>0, <1>1, CsInvFrame DEF StreamInv
  <1>4. CallTypeOK'
    BY <1>0, <1>1, CallTypes, CallChange DEF CallTypeOK
  <1>5. TypeOK' /\ StreamInv' /\ SliceInv' /\ FlushInv' /\ SeqInv'
    BY <1>1, <1>2, <1>3, <1>4, FrameKeeps
  <1>6. ~closing /\ ~csStopped /\ ctxLock = a
        /\ \A c \in Callers \ {a} : app[c] = "ready" /\ sync[c] = "idle"
    BY <1>1, Alone
  <1>7. CallInv' /\ SyncInv'
    BY <1>0, <1>1, <1>2, <1>6, InsideKeeps
  <1> QED BY <1>5, <1>7 DEF ContextInv

\* Calling SynchronizeCsThread.
LEMMA PollIdleKeeps ==
  ASSUME ContextInv, NEW a \in Callers, PollIdle(a)
  PROVE  ContextInv'
  <1>0. TypeOK /\ StreamInv /\ CallInv /\ SyncInv
    BY DEF ContextInv
  <1>1. /\ app[a] = "poll" /\ sync[a] = "idle" /\ app' = [app EXCEPT ![a] = "flushChunk"]
        /\ ret' = [ret EXCEPT ![a] = "pollAgain"]
        /\ UNCHANGED <<csVars, ctxLock, map, streamVars, seqOf, sliceVars,
                       listVars, deferred, closing, usage>>
    BY DEF PollIdle, Back, CallSynchronize
  <1>2. UNCHANGED <<dispatched, executed, queued, chunk, csPc, ran, csStopped, sync>>
    BY <1>1 DEF csVars
  <1>3. CsInv'
    BY <1>0, <1>1, CsInvFrame DEF StreamInv
  <1>4. CallTypeOK'
    BY <1>0, <1>1, CallTypes, CallChange DEF CallTypeOK
  <1>5. TypeOK' /\ StreamInv' /\ SliceInv' /\ FlushInv' /\ SeqInv'
    BY <1>1, <1>2, <1>3, <1>4, FrameKeeps
  <1>6. ~closing /\ ~csStopped /\ ctxLock = a
        /\ \A c \in Callers \ {a} : app[c] = "ready" /\ sync[c] = "idle"
    BY <1>1, Alone
  <1>7. ret'[a] = "pollAgain"
    BY <1>0, <1>1, CallTypes
  <1>8. CallInv' /\ SyncInv'
    BY <1>0, <1>1, <1>2, <1>6, <1>7, InsideKeeps
  <1> QED BY <1>5, <1>8 DEF ContextInv

\* Returning from Map, after the second poll or the wait.
LEMMA ReturnKeeps ==
  ASSUME ContextInv, NEW a \in Callers, MapIdle(a) \/ WaitForResource(a)
  PROVE  ContextInv'
  <1>0. TypeOK /\ StreamInv /\ CallInv /\ SyncInv
    BY DEF ContextInv
  <1>1. /\ app[a] \in {"pollAgain", "wait"} /\ sync[a] = "idle" /\ Leave(a)
        /\ UNCHANGED <<csVars, streamVars, seqOf, sliceVars, listVars, deferred, closing, usage>>
    BY DEF MapIdle, WaitForResource, Back
  <1>2. UNCHANGED <<dispatched, executed, queued, chunk, csPc, ran, csStopped, sync>>
    BY <1>1 DEF csVars
  <1>3. CsInv'
    BY <1>0, <1>1, CsInvFrame DEF StreamInv
  <1>4. CallTypeOK'
    BY <1>0, <1>1, LeaveTypes
  <1>5. TypeOK' /\ StreamInv' /\ SliceInv' /\ FlushInv' /\ SeqInv'
    BY <1>1, <1>2, <1>3, <1>4, FrameKeeps
  <1>6. ~closing /\ ~csStopped /\ \A c \in Callers \ {a} : app[c] = "ready" /\ sync[c] = "idle"
    BY <1>1, Alone
  <1>7. CallInv' /\ SyncInv'
    BY <1>0, <1>1, <1>2, <1>6, LeaveKeeps
  <1> QED BY <1>5, <1>7 DEF ContextInv

\* Finding the buffer busy: giving up, or waiting for the lists in flight.
LEMMA PollBusyKeeps ==
  ASSUME ContextInv, NEW a \in Callers, PollBusy(a)
  PROVE  ContextInv'
  <1>0. TypeOK /\ StreamInv /\ CallInv /\ SyncInv
    BY DEF ContextInv
  <1>1. /\ app[a] \in {"poll", "pollAgain"} /\ sync[a] = "idle"
        /\ UNCHANGED <<seqOf, sliceVars, listVars, deferred, closing, usage>>
    BY DEF PollBusy, Back
  <1>2. ~closing /\ ~csStopped /\ ctxLock = a
        /\ \A c \in Callers \ {a} : app[c] = "ready" /\ sync[c] = "idle"
    BY <1>1, Alone
  <1>3. closing' \in BOOLEAN
    BY <1>0, <1>1, CallTypes
  <1>4. CASE map[a].noWait
    <2>1. Leave(a) /\ \E st \in FlushImplicit(Stream) : Commit(st)
      BY <1>4 DEF PollBusy
    <2>2. CallTypeOK'
      BY <1>0, <1>1, <2>1, LeaveTypes
    <2>3. TypeOK' /\ StreamInv' /\ SliceInv' /\ FlushInv' /\ SeqInv' /\ UNCHANGED <<sync, csStopped>>
      BY <1>1, <1>3, <2>1, <2>2, FlushKeeps DEF CallTypeOK
    <2>4. CallInv' /\ SyncInv'
      BY <1>0, <1>1, <1>2, <2>1, <2>3, LeaveKeeps
    <2> QED BY <2>3, <2>4 DEF ContextInv
  <1>5. CASE ~map[a].noWait
    <2>1. /\ Commit(Flush(Stream)) /\ UNCHANGED <<ctxLock, map>>
          /\ app' = [app EXCEPT ![a] = "flushChunk"] /\ ret' = [ret EXCEPT ![a] = "wait"]
      BY <1>5 DEF PollBusy, CallSynchronize
    <2>2. CallTypeOK'
      BY <1>0, <1>3, <2>1, CallTypes, CallChange DEF CallTypeOK
    <2>3. Flush(Stream) \in FlushImplicit(Stream)
      BY DEF FlushImplicit
    <2>4. TypeOK' /\ StreamInv' /\ SliceInv' /\ FlushInv' /\ SeqInv' /\ UNCHANGED <<sync, csStopped>>
      BY <1>1, <1>3, <2>1, <2>2, <2>3, FlushKeeps DEF CallTypeOK
    <2>5. ret'[a] = "wait"
      BY <1>0, <2>1, CallTypes
    <2>6. ctxLock' = a /\ closing' = closing
      BY <1>1, <1>2, <2>1
    <2>7. CallInv' /\ SyncInv'
      BY <1>0, <1>1, <1>2, <2>1, <2>4, <2>5, <2>6, InsideKeeps
    <2> QED BY <2>4, <2>7 DEF ContextInv
  <1> QED BY <1>4, <1>5

-----------------------------------------------------------------------------
(* SynchronizeCsThread.                                                    *)

\* What SynchronizeCsThread is asked to wait for.
LEMMA SyncTargetType ==
  ASSUME TypeOK, NEW a \in Callers
  PROVE  /\ map[a].buf \in Buffers /\ SyncTarget(a) \in Sequence
         /\ SyncTarget(a) # All => SyncTarget(a) \in Nat /\ SyncGoal(a) = SyncTarget(a)
         /\ SyncTarget(a) = All => SyncGoal(a) = dispatched
         /\ SyncGoal(a) \in Nat
  <1>1. map[a].buf \in Buffers /\ dispatched \in Nat
    BY CallTypes DEF TypeOK, CsTypeOK
  <1>2. SyncTarget(a) \in Sequence
    BY <1>1, SliceTypes DEF SyncTarget, GetSequenceNumber, Sequence
  <1> QED BY <1>1, <1>2, CsAssumption DEF SyncGoal, Sequence

\* SynchronizeCsThread sends the chunk if what it waits for may be in it.
LEMMA FlushForSyncKeeps ==
  ASSUME ContextInv, NEW a \in Callers, FlushForSync(a)
  PROVE  ContextInv'
  <1> DEFINE st == IF Beyond(SyncTarget(a), csSeqNum) THEN FlushCsChunk(Stream) ELSE Stream
  <1>0. TypeOK /\ StreamInv /\ CallInv /\ SyncInv
    BY DEF ContextInv
  <1>1. /\ app[a] = "flushChunk" /\ app' = [app EXCEPT ![a] = "synchronize"] /\ Commit(st)
        /\ UNCHANGED <<ctxLock, ret, map, seqOf, sliceVars, listVars, deferred, closing, usage>>
    BY DEF FlushForSync
  <1>2. seqOf' = seqOf /\ mapped' = mapped /\ free' = free /\ phys' = phys
    BY <1>1 DEF sliceVars
  <1>3. /\ seqOf \in [Buffers -> Nat] /\ mapped \in [Buffers -> Slices]
        /\ free \in [Buffers -> SUBSET Slices]
    BY <1>0, SliceTypes
  <1>4. StreamGood(Stream, seqOf, free, mapped) /\ After(Stream) = Unexecuted
    BY <1>0, GoodStart, StreamStart
  <1>5. /\ StreamGood(FlushCsChunk(Stream), seqOf, free, mapped) /\ FlushCsChunk(Stream).cur = <<>>
        /\ After(FlushCsChunk(Stream)) = Unexecuted
    BY <1>0, <1>3, <1>4, GoodFlushCsChunk, AfterSent DEF FlushCsChunk, StreamGood
  <1>6. StreamGood(st, seqOf, free, mapped) /\ After(st) = Unexecuted
    BY <1>4, <1>5
  <1>7. SyncTarget(a) = All => st.cur = <<>>
    BY <1>5 DEF Beyond
  <1>8. closing => st = Stream /\ st.cur = <<>> /\ st.out = <<>> /\ st.busy = FALSE
    BY <1>0 DEF CallInv, Stream, FlushCsChunk
  <1> HIDE DEF st
  <1>9. CallTypeOK'
    BY <1>0, <1>1, CallTypes, CallChange DEF CallTypeOK
  <1>10. /\ TypeOK' /\ StreamInv' /\ SliceInv' /\ FlushInv' /\ SeqInv'
         /\ UNCHANGED <<executed, sync, seqArg, csStopped>>
         /\ csChunk' = st.cur /\ csIsBusy' = st.busy /\ dispatched' = dispatched + Len(st.out)
    BY <1>1, <1>2, <1>3, <1>6, <1>9, EnterCommit DEF CallTypeOK
  <1>11. \A c \in Callers : app'[c] = IF c = a THEN "synchronize" ELSE app[c]
    BY <1>0, <1>1, CallTypes
  <1>12. closing => dispatched' = dispatched
    <2>1. dispatched \in Nat /\ Len(<<>>) = 0
      BY <1>0 DEF TypeOK, CsTypeOK
    <2> QED BY <1>8, <1>10, <2>1
  <1>13. ~closing => \A c \in Callers \ {a} : app[c] = "ready" /\ sync[c] = "idle"
    BY <1>0, <1>1, OneInside
  <1>14. CallInv'
    BY <1>0, <1>1, <1>8, <1>10, <1>11, <1>13 DEF CallInv
  <1>15. \A c \in Callers : SyncTarget(c)' = SyncTarget(c)
    BY <1>1 DEF SyncTarget, GetSequenceNumber, Tracked
  <1>16. SyncInv'
    <2>1. sync[a] = "idle"
      BY <1>0, <1>1 DEF CallInv
    <2>2. CASE closing
      <3>1. \A c \in Callers : SyncGoal(c)' = SyncGoal(c)
        BY <1>12, <1>15, <2>2 DEF SyncGoal
      <3>2. csChunk' = <<>>
        BY <1>8, <1>10, <2>2
      <3> QED BY <1>0, <1>1, <1>10, <1>11, <1>12, <1>15, <2>1, <2>2, <3>1, <3>2 DEF SyncInv
    <2>3. CASE ~closing
      <3>1. ~csStopped
        BY <1>0, <2>3 DEF SyncInv
      <3> QED BY <1>7, <1>10, <1>11, <1>13, <1>15, <2>1, <2>3, <3>1 DEF SyncInv
    <2> QED BY <2>2, <2>3
  <1> QED BY <1>10, <1>14, <1>16 DEF ContextInv

\* Calling synchronize: it returns at once only if the number is reached.
LEMMA SynchronizeCsThreadKeeps ==
  ASSUME ContextInv, NEW a \in Callers, SynchronizeCsThread(a)
  PROVE  ContextInv'
  <1>0. TypeOK /\ StreamInv /\ CallInv /\ SyncInv
    BY DEF ContextInv
  <1>1. /\ app[a] = "synchronize" /\ app' = [app EXCEPT ![a] = ret[a]]
        /\ BeginSync(a, SyncTarget(a))
        /\ UNCHANGED <<ctxLock, ret, map, streamVars, seqOf, sliceVars, listVars,
                       deferred, closing, usage>>
    BY DEF SynchronizeCsThread
  <1>2. UNCHANGED <<dispatched, executed, queued, chunk, csPc, ran, csStopped>>
    BY <1>1 DEF BeginSync
  <1>3. SyncTarget(a) \in Sequence
    BY <1>0, SyncTargetType
  <1>4. CsInv'
    BY <1>0, <1>1, <1>3, CsInvBeginSync DEF StreamInv
  <1>5. ret[a] \in {"ready", "decide", "pollAgain", "wait", "stop"}
    BY <1>0, CallTypes
  <1>6. CallTypeOK'
    BY <1>0, <1>1, <1>5, CallTypes, CallChange DEF CallTypeOK
  <1>7. TypeOK' /\ StreamInv' /\ SliceInv' /\ FlushInv' /\ SeqInv'
    BY <1>1, <1>2, <1>4, <1>6, FrameKeeps
  <1>8. \A c \in Callers : app'[c] = IF c = a THEN ret[a] ELSE app[c]
    BY <1>0, <1>1, CallTypes
  <1>9. sync \in [Callers -> {"idle", "lock", "wait"}] /\ seqArg \in [Callers -> Sequence]
    BY <1>0 DEF TypeOK, CsTypeOK
  <1>10. /\ sync[a] = "idle"
         /\ \A c \in Callers \ {a} : sync'[c] = sync[c] /\ seqArg'[c] = seqArg[c]
         /\ sync'[a] = "lock" => seqArg'[a] = SyncTarget(a)
         /\ sync'[a] \in {"idle", "lock"}
         /\ sync'[a] = "idle" => ~Beyond(SyncTarget(a), executed)
    BY <1>1, <1>9 DEF BeginSync
  <1>11. \A c \in Callers : SyncTarget(c)' = SyncTarget(c) /\ SyncGoal(c)' = SyncGoal(c)
    BY <1>1, <1>2 DEF SyncTarget, GetSequenceNumber, Tracked, SyncGoal
  <1>12. sync'[a] = "idle" => executed >= SyncGoal(a)
    <2>1. executed \in Nat
      BY <1>0 DEF TypeOK, CsTypeOK
    <2> QED BY <1>0, <1>10, <2>1, SyncTargetType DEF Beyond
  <1>13. /\ ~closing => ret[a] \in {"decide", "pollAgain", "wait"}
         /\ closing => ret[a] = "stop"
    BY <1>0, <1>1 DEF CallInv
  <1>14. closing' = closing /\ ctxLock' = ctxLock /\ csChunk' = csChunk /\ csIsBusy' = csIsBusy
         /\ ret' = ret
    BY <1>1 DEF streamVars
  <1>15. CallInv'
    BY <1>0, <1>1, <1>8, <1>10, <1>13, <1>14 DEF CallInv
  <1>16. SyncInv'
    <2>1. /\ executed' = executed /\ csStopped' = csStopped /\ dispatched' = dispatched
      BY <1>2
    <2>2. ASSUME NEW c \in Callers
          PROVE /\ app'[c] \in {"synchronize", "decide", "pollAgain", "wait", "stop"}
                     /\ SyncTarget(c) = All
                   => csChunk = <<>>
                /\ sync'[c] = "lock" => seqArg'[c] = SyncTarget(c)
                /\ sync'[c] = "wait" => seqArg'[c] = SyncGoal(c)
                /\ app'[c] \in {"decide", "pollAgain", "wait", "stop"} /\ sync'[c] = "idle"
                   => executed >= SyncGoal(c)
      <3>1. CASE c = a
        BY <1>0, <1>1, <1>8, <1>10, <1>12, <3>1 DEF SyncInv
      <3>2. CASE c # a
        BY <1>0, <1>8, <1>10, <3>2 DEF SyncInv
      <3> QED BY <3>1, <3>2
    <2> QED BY <1>0, <1>11, <1>14, <2>1, <2>2 DEF SyncInv
  <1> QED BY <1>7, <1>15, <1>16 DEF ContextInv

\* Waiting in synchronize.
LEMMA WaitForCsThreadKeeps ==
  ASSUME ContextInv, NEW a \in Callers, WaitForCsThread(a)
  PROVE  ContextInv'
  <1>0. TypeOK /\ StreamInv /\ CallInv /\ SyncInv
    BY DEF ContextInv
  <1>1. /\ SyncStep(a)
        /\ UNCHANGED <<callVars, streamVars, seqOf, sliceVars, listVars, deferred, closing, usage>>
    BY DEF WaitForCsThread
  <1>2. UNCHANGED <<dispatched, executed, queued, chunk, csPc, ran, csStopped>>
    BY <1>1 DEF SyncStep, LockSync, WaitSync, SleepSync
  <1>3. ctxLock' = ctxLock /\ app' = app /\ ret' = ret /\ map' = map
        /\ csChunk' = csChunk /\ csIsBusy' = csIsBusy
    BY <1>1 DEF callVars, streamVars
  <1>4. CsInv'
    BY <1>0, <1>1, CsInvSyncStep DEF StreamInv
  <1>6. CallTypeOK'
    BY <1>0, <1>1, <1>3, CallTypes DEF CallTypeOK
  <1>7. TypeOK' /\ StreamInv' /\ SliceInv' /\ FlushInv' /\ SeqInv'
    BY <1>1, <1>2, <1>4, <1>6, FrameKeeps
  <1>9. sync \in [Callers -> {"idle", "lock", "wait"}] /\ seqArg \in [Callers -> Sequence]
    BY <1>0 DEF TypeOK, CsTypeOK
  <1>10. /\ sync[a] # "idle"
         /\ \A c \in Callers \ {a} : sync'[c] = sync[c] /\ seqArg'[c] = seqArg[c]
         /\ \/ /\ sync[a] = "lock" /\ sync'[a] = "wait"
               /\ seqArg'[a] = IF seqArg[a] = All THEN dispatched ELSE seqArg[a]
            \/ sync[a] = "wait" /\ sync'[a] = "idle" /\ executed >= seqArg[a]
            \/ sync[a] = "wait" /\ sync'[a] = "wait" /\ seqArg'[a] = seqArg[a]
    BY <1>1, <1>9 DEF SyncStep, LockSync, WaitSync, SleepSync, Reached
  <1>11. \A c \in Callers : SyncTarget(c)' = SyncTarget(c) /\ SyncGoal(c)' = SyncGoal(c)
    BY <1>1, <1>2, <1>3 DEF SyncTarget, GetSequenceNumber, Tracked, SyncGoal
  <1>15. CallInv'
    BY <1>0, <1>1, <1>3, <1>10 DEF CallInv
  <1>16. SyncInv'
    <2>1. executed' = executed /\ csStopped' = csStopped /\ dispatched' = dispatched
      BY <1>2
    <2>2. ASSUME NEW c \in Callers
          PROVE /\ app[c] \in {"synchronize", "decide", "pollAgain", "wait", "stop"}
                     /\ SyncTarget(c) = All
                   => csChunk = <<>>
                /\ sync'[c] = "lock" => seqArg'[c] = SyncTarget(c)
                /\ sync'[c] = "wait" => seqArg'[c] = SyncGoal(c)
                /\ app[c] \in {"decide", "pollAgain", "wait", "stop"} /\ sync'[c] = "idle"
                   => executed >= SyncGoal(c)
      <3>1. CASE c = a
        BY <1>0, <1>10, <3>1 DEF SyncInv, SyncGoal
      <3>2. CASE c # a
        BY <1>0, <1>10, <3>2 DEF SyncInv
      <3> QED BY <3>1, <3>2
    <2> QED BY <1>0, <1>1, <1>3, <1>11, <2>1, <2>2 DEF SyncInv
  <1> QED BY <1>7, <1>15, <1>16 DEF ContextInv

-----------------------------------------------------------------------------
(* The end of the context.                                                 *)

\* The destructor flushes, and nothing is recorded afterwards.
LEMMA CloseKeeps ==
  ASSUME ContextInv, NEW a \in Callers, Close(a)
  PROVE  ContextInv'
  <1>0. TypeOK /\ StreamInv /\ CallInv /\ SyncInv
    BY DEF ContextInv
  <1>1. /\ app[a] = "ready" /\ \A c \in Callers : app[c] = "ready"
        /\ ~closing /\ closing' = TRUE /\ Commit(Flush(Stream))
        /\ app' = [app EXCEPT ![a] = "flushChunk"] /\ ret' = [ret EXCEPT ![a] = "stop"]
        /\ UNCHANGED <<ctxLock, map, seqOf, sliceVars, listVars, deferred, usage>>
    BY DEF Close, AfterClose
  <1>2. CallTypeOK'
    BY <1>0, <1>1, CallTypes, CallChange DEF CallTypeOK
  <1>3. Flush(Stream) \in FlushImplicit(Stream)
    BY DEF FlushImplicit
  <1>4. /\ TypeOK' /\ StreamInv' /\ SliceInv' /\ FlushInv' /\ SeqInv'
        /\ UNCHANGED <<executed, sync, seqArg, csStopped>>
        /\ csChunk' = Flush(Stream).cur /\ csIsBusy' = Flush(Stream).busy
    BY <1>1, <1>2, <1>3, FlushKeeps DEF CallTypeOK
  <1>5. csChunk' = <<>> /\ ~csIsBusy'
    <2>1. StreamGood(Stream, seqOf, free, mapped) /\ seqOf \in [Buffers -> Nat]
      BY <1>0, GoodStart, SliceTypes
    <2>2. Flush(Stream).cur = <<>> /\ Flush(Stream).busy = FALSE
      BY <1>0, <2>1, GoodFlush
    <2> QED BY <1>4, <2>2
  <1>6. /\ \A c \in Callers : app'[c] = IF c = a THEN "flushChunk" ELSE "ready"
        /\ ret'[a] = "stop"
    BY <1>0, <1>1, CallTypes
  <1>7. /\ \A c \in Callers : sync[c] = "idle"
        /\ ctxLock = Free /\ ~csStopped
    BY <1>0, <1>1, CallTypes DEF CallInv, SyncInv
  <1>8. CallInv'
    BY <1>1, <1>4, <1>5, <1>6, <1>7 DEF CallInv
  <1>9. SyncInv'
    BY <1>4, <1>5, <1>6, <1>7 DEF SyncInv
  <1> QED BY <1>4, <1>8, <1>9 DEF ContextInv

\* When it stops the thread, everything has been executed.
LEMMA StopKeeps ==
  ASSUME ContextInv, NEW a \in Callers, Stop(a)
  PROVE  ContextInv'
  <1>0. TypeOK /\ StreamInv /\ CallInv /\ SyncInv
    BY DEF ContextInv
  <1>1. /\ app[a] = "stop" /\ sync[a] = "idle" /\ StopThread
        /\ app' = [app EXCEPT ![a] = "join"]
        /\ UNCHANGED <<ctxLock, ret, map, streamVars, seqOf, sliceVars, listVars,
                       deferred, closing, usage>>
    BY DEF Stop, Back
  <1>2. /\ UNCHANGED <<dispatched, executed, queued, chunk, csPc, ran, sync, seqArg>>
        /\ csStopped' = TRUE
    BY <1>1 DEF StopThread
  <1>3. CsInv'
    BY <1>0, <1>1, CsInvStop DEF StreamInv
  <1>4. CallTypeOK'
    BY <1>0, <1>1, CallTypes, CallChange DEF CallTypeOK
  <1>5. TypeOK' /\ StreamInv' /\ SliceInv' /\ FlushInv' /\ SeqInv'
    BY <1>1, <1>2, <1>3, <1>4, FrameKeeps
  <1>6. closing /\ csChunk = <<>> /\ ~csIsBusy /\ ctxLock = Free
    BY <1>0, <1>1 DEF CallInv
  <1>7. executed = dispatched
    <2>1. SyncTarget(a) = All
      BY <1>6 DEF SyncTarget
    <2>2. executed >= dispatched
      BY <1>0, <1>1, <2>1 DEF SyncInv, SyncGoal
    <2>3. /\ csSeqNum \in Nat /\ ran \in Nat /\ executed \in Nat
          /\ executed <= ran /\ ran <= csSeqNum
      BY <1>0, DispatchedNumbers
    <2>4. csSeqNum = dispatched
      BY <1>0 DEF StreamInv
    <2> QED BY <2>2, <2>3, <2>4
  <1>8. \A c \in Callers : app'[c] = IF c = a THEN "join" ELSE app[c]
    BY <1>0, <1>1, CallTypes
  <1>9. closing' = closing /\ ctxLock' = ctxLock /\ csChunk' = csChunk /\ csIsBusy' = csIsBusy
        /\ ret' = ret
    BY <1>1 DEF streamVars
  <1>10. CallInv'
    BY <1>0, <1>1, <1>2, <1>6, <1>8, <1>9 DEF CallInv
  <1>11. \A c \in Callers : SyncTarget(c)' = SyncTarget(c) /\ SyncGoal(c)' = SyncGoal(c)
    BY <1>1, <1>2 DEF SyncTarget, GetSequenceNumber, Tracked, SyncGoal
  <1>12. SyncInv'
    BY <1>0, <1>2, <1>6, <1>7, <1>8, <1>9, <1>11 DEF SyncInv
  <1> QED BY <1>5, <1>10, <1>12 DEF ContextInv

\* Joining changes nothing but where the destructor is.
LEMMA JoinKeeps ==
  ASSUME ContextInv, NEW a \in Callers, Join(a)
  PROVE  ContextInv'
  <1>0. TypeOK /\ StreamInv /\ CallInv /\ SyncInv
    BY DEF ContextInv
  <1>1. /\ app[a] = "join" /\ app' = [app EXCEPT ![a] = "done"]
        /\ UNCHANGED <<csVars, ctxLock, ret, map, streamVars, seqOf, sliceVars,
                       listVars, deferred, closing, usage>>
    BY DEF Join
  <1>2. UNCHANGED <<dispatched, executed, queued, chunk, csPc, ran, csStopped, sync, seqArg>>
    BY <1>1 DEF csVars
  <1>3. CsInv'
    BY <1>0, <1>1, CsInvFrame DEF StreamInv
  <1>4. CallTypeOK'
    BY <1>0, <1>1, CallTypes, CallChange DEF CallTypeOK
  <1>5. TypeOK' /\ StreamInv' /\ SliceInv' /\ FlushInv' /\ SeqInv'
    BY <1>1, <1>2, <1>3, <1>4, FrameKeeps
  <1>6. closing
    BY <1>0, <1>1 DEF CallInv
  <1>8. \A c \in Callers : app'[c] = IF c = a THEN "done" ELSE app[c]
    BY <1>0, <1>1, CallTypes
  <1>9. closing' = closing /\ ctxLock' = ctxLock /\ csChunk' = csChunk /\ csIsBusy' = csIsBusy
        /\ ret' = ret
    BY <1>1 DEF streamVars
  <1>10. CallInv'
    BY <1>0, <1>1, <1>2, <1>6, <1>8, <1>9 DEF CallInv
  <1>11. \A c \in Callers : SyncTarget(c)' = SyncTarget(c) /\ SyncGoal(c)' = SyncGoal(c)
    BY <1>1, <1>2 DEF SyncTarget, GetSequenceNumber, Tracked, SyncGoal
  <1>12. SyncInv'
    BY <1>0, <1>2, <1>6, <1>8, <1>9, <1>11 DEF SyncInv
  <1> QED BY <1>5, <1>10, <1>12 DEF ContextInv

\* What a deferred list is made of is typed whatever the capacity of a chunk.
LEMMA DeferredType ==
  ASSUME NEW c1 \in Command, NEW c2 \in Command
  PROVE  DeferredList(c1, c2) \in Seq(Seq(Command))
  <1>1. << <<c1>>, <<c2>> >> \in Seq(Seq(Command)) /\ << <<c1, c2>> >> \in Seq(Seq(Command))
    OBVIOUS
  <1> QED BY <1>1, DeferredShape

\* Recording a deferred list: the slice it takes is its own.
LEMMA RecordDeferredKeeps ==
  ASSUME ContextInv, RecordDeferred
  PROVE  ContextInv'
  <1>0. TypeOK /\ StreamInv /\ SliceInv /\ FlushInv /\ SeqInv /\ CallInv /\ SyncInv
    BY DEF ContextInv
  <1>1. UNCHANGED <<csVars, callVars, streamVars, seqOf, mapped, phys, listVars, closing, usage>>
    BY DEF RecordDeferred
  <1>2. /\ csChunk' = csChunk /\ csSeqNum' = csSeqNum /\ csIsBusy' = csIsBusy
        /\ mapped' = mapped /\ phys' = phys /\ seqOf' = seqOf /\ usage' = usage
        /\ recording' = recording /\ submitted' = submitted
        /\ dispatched' = dispatched /\ executed' = executed /\ queued' = queued
        /\ chunk' = chunk /\ csPc' = csPc /\ ran' = ran /\ csStopped' = csStopped
        /\ ctxLock' = ctxLock /\ app' = app /\ ret' = ret /\ map' = map /\ closing' = closing
        /\ sync' = sync /\ seqArg' = seqArg
    BY <1>1 DEF csVars, callVars, streamVars, listVars
  <1>3. Unexecuted' = Unexecuted /\ Lists' = Lists
    BY <1>2 DEF Unexecuted, Lists
  <1>4. /\ DeferredOwns' /\ deferred' \in Seq(Seq(Command))
        /\ free' \in [Buffers -> SUBSET Slices]
        /\ \A b \in Buffers : free'[b] \subseteq free[b]
    <2>0. PICK b \in Buffers :
       \/ /\ b \in Tracked
          /\ deferred' = DeferredList(Use(b, NoSlice, "R"), Use(b, NoSlice, "W"))
          /\ UNCHANGED free
       \/ \E s \in Slices :
            /\ usage[b] = "shared"
            /\ AllocSlice(b, s)
            /\ deferred' = DeferredList(Rename(b, s), Use(b, s, "R"))
      BY DEF RecordDeferred
    <2>1. CASE /\ b \in Tracked
               /\ deferred' = DeferredList(Use(b, NoSlice, "R"), Use(b, NoSlice, "W"))
               /\ UNCHANGED free
      <3>1. usage[b] = "staging"
        BY <2>1 DEF Tracked
      <3>2. Use(b, NoSlice, "R") \in Command /\ Use(b, NoSlice, "W") \in Command
        BY DEF Command, Access
      <3>3. deferred' \in Seq(Seq(Command))
        BY <2>1, <3>2, DeferredType
      <3>4. DeferredOwns'
        BY <1>2, <2>1, <3>1 DEF DeferredOwns
      <3> QED BY <1>0, <2>1, <3>3, <3>4, SliceTypes
    <2>2. CASE \E s \in Slices :
            /\ usage[b] = "shared"
            /\ AllocSlice(b, s)
            /\ deferred' = DeferredList(Rename(b, s), Use(b, s, "R"))
      <3>1. PICK s \in Slices :
            /\ usage[b] = "shared"
            /\ s \in free[b] /\ free' = [free EXCEPT ![b] = @ \ {s}]
            /\ deferred' = DeferredList(Rename(b, s), Use(b, s, "R"))
        BY <2>2 DEF AllocSlice
      <3>2. Rename(b, s) \in Command /\ Use(b, s, "R") \in Command
        BY DEF Command, Access
      <3>3. deferred' \in Seq(Seq(Command))
        BY <3>1, <3>2, DeferredType
      <3>4. s # phys[b] /\ ~Retired(Lists, b, s) /\ ~Renamed(Unexecuted, b, s)
        BY <3>1, FreeIsUnreserved
      <3>5. free \in [Buffers -> SUBSET Slices]
        BY <1>0, SliceTypes
      <3>6. s \notin free'[b]
        BY <3>1, <3>5
      <3>7. Reserved(Lists', phys', free', b, s) /\ ~Renamed(Unexecuted', b, s)
        BY <1>2, <1>3, <3>4, <3>6 DEF Reserved
      <3>8. DeferredOwns'
        BY <1>2, <3>1, <3>7 DEF DeferredOwns
      <3> QED BY <3>1, <3>3, <3>5, <3>8
    <2> QED BY <2>0, <2>1, <2>2
  <1>5. CsInv'
    BY <1>0, <1>1, CsInvFrame DEF StreamInv
  <1>6. StreamInv'
    BY <1>0, <1>2, <1>5 DEF StreamInv
  <1>7. TypeOK'
    BY <1>0, <1>2, <1>4, <1>5 DEF TypeOK, CsInv
  <1>8. SliceInv'
    <2>1. ListsOwn(Lists, phys, free)'
      BY <1>0, <1>2, <1>4, ListsKept DEF listVars
    <2>2. CommandsOwn(Unexecuted, Lists, phys, free)'
      <3>1. \A b \in Buffers, s \in Slices :
              Renamed(Unexecuted, b, s) => Reserved(Lists, phys, free, b, s)
        BY <1>0 DEF SliceInv, CommandsOwn
      <3>2. \A b \in Buffers, s \in Slices :
              Reserved(Lists, phys, free, b, s) => Reserved(Lists', phys', free', b, s)
        BY <1>2, <1>3, <1>4 DEF Reserved
      <3> QED BY <1>0, <1>3, <3>1, <3>2 DEF SliceInv, CommandsOwn
    <2>3. Chained(Unexecuted, phys, mapped)'
      BY <1>0, <1>2, <1>3 DEF SliceInv, Chained
    <2> QED BY <1>4, <2>1, <2>2, <2>3 DEF SliceInv
  <1>9. FlushInv'
    BY <1>0, <1>2, <1>3 DEF FlushInv, EndsFlushed
  <1>10. SeqInv'
    BY <1>0, <1>2 DEF SeqInv, Tracked, UsesTracked
  <1>11. CallInv'
    BY <1>0, <1>2 DEF CallInv
  <1>12. SyncInv'
    BY <1>0, <1>2 DEF SyncInv, SyncGoal, SyncTarget, GetSequenceNumber, Tracked
  <1> QED BY <1>6, <1>7, <1>8, <1>9, <1>10, <1>11, <1>12 DEF ContextInv

-----------------------------------------------------------------------------
(* The CS thread.                                                          *)

\* When the thread idles, what a caller waits for stays reached.
LEMMA CallersKept ==
  ASSUME ContextInv, UNCHANGED <<callVars, seqOf, closing, usage, dispatched, csChunk, csIsBusy,
                                 sync, seqArg, csStopped>>,
         executed' \in Nat, executed' >= executed, dispatched >= executed'
  PROVE  CallInv' /\ SyncInv'
  <1>0. TypeOK /\ CallInv /\ SyncInv
    BY DEF ContextInv
  <1>1. ctxLock' = ctxLock /\ app' = app /\ ret' = ret /\ map' = map
    BY DEF callVars
  <1>2. CallInv'
    BY <1>0, <1>1 DEF CallInv
  <1>3. \A c \in Callers : SyncTarget(c)' = SyncTarget(c) /\ SyncGoal(c)' = SyncGoal(c)
    BY <1>1 DEF SyncTarget, GetSequenceNumber, Tracked, SyncGoal
  <1>4. executed \in Nat /\ dispatched \in Nat
    BY <1>0 DEF TypeOK, CsTypeOK
  <1>5. \A c \in Callers : executed >= SyncGoal(c) => executed' >= SyncGoal(c)
    BY <1>0, <1>4, SyncTargetType
  <1>6. csStopped => executed' = dispatched /\ closing
    BY <1>0, <1>4 DEF SyncInv
  <1>7. SyncInv'
    BY <1>0, <1>1, <1>3, <1>5, <1>6 DEF SyncInv
  <1> QED BY <1>2, <1>7

\* Which chunk a use is in, seen from the thread: the front of the queue becomes
\* the chunk it executes.
LEMMA TakeNextKeeps ==
  ASSUME ContextInv, csPc # "execute", TakeNext, ran' = ran
  PROVE  /\ chunk' \in Seq(Issued) /\ queued' \in Seq(Seq(Issued))
         /\ chunk' \o FlattenSeq(queued') = chunk \o FlattenSeq(queued)
         /\ chunk' # <<>> => csPc' = "execute"
         /\ csPc' # "exited"
         /\ \A b \in Tracked :
              /\ UsesTracked(chunk', b) => seqOf[b] > ran'
              /\ \A i \in DOMAIN queued' :
                   UsesTracked(queued'[i], b)
                   => seqOf[b] >= i + ran' + (IF csPc' = "execute" THEN 1 ELSE 0)
  <1>0. /\ TypeOK /\ StreamInv /\ SeqInv /\ chunk = <<>>
        /\ chunk \in Seq(Issued) /\ queued \in Seq(Seq(Issued)) /\ FlattenSeq(queued) \in Seq(Issued)
    BY BeforeType DEF ContextInv, StreamInv
  <1>1. \A b \in Tracked : \A i \in DOMAIN queued :
          UsesTracked(queued[i], b) => seqOf[b] >= i + ran + 0
    BY <1>0 DEF SeqInv
  <1>2. ran \in Nat /\ \A b \in Buffers : seqOf[b] \in Nat
    BY <1>0, SliceTypes, DispatchedNumbers
  <1>3. CASE queued # <<>> /\ TakeFront
    <2>1. /\ chunk' = Head(queued) /\ queued' = Tail(queued) /\ csPc' = "execute"
      BY <1>3 DEF TakeFront
    <2>2. /\ Tail(queued) \in Seq(Seq(Issued)) /\ Head(queued) \in Seq(Issued) /\ Head(queued) = queued[1]
          /\ Len(queued) \in Nat \ {0}
          /\ DOMAIN queued = 1..Len(queued) /\ DOMAIN Tail(queued) = 1..(Len(queued) - 1)
          /\ \A i \in 1..(Len(queued) - 1) : Tail(queued)[i] = queued[i + 1]
      BY <1>0, <1>3, TailAt
    <2>3. chunk' \o FlattenSeq(queued') = chunk \o FlattenSeq(queued)
      <3>1. FlattenSeq(queued) = Head(queued) \o FlattenSeq(Tail(queued))
        BY <1>0, <1>3, FlattenFront
      <3>2. chunk \o FlattenSeq(queued) = FlattenSeq(queued)
        BY <1>0
      <3> QED BY <2>1, <3>1, <3>2
    <2>4. ASSUME NEW b \in Tracked, UsesTracked(chunk', b)
          PROVE  seqOf[b] > ran'
      <3>0. 1 \in DOMAIN queued /\ UsesTracked(queued[1], b)
        BY <2>1, <2>2, <2>4
      <3>1. seqOf[b] >= 1 + ran + 0 /\ seqOf[b] \in Nat
        BY <1>1, <1>2, <3>0 DEF Tracked
      <3> QED BY <1>2, <3>1
    <2>5. ASSUME NEW b \in Tracked, NEW i \in DOMAIN queued', UsesTracked(queued'[i], b)
          PROVE  seqOf[b] >= i + ran' + 1
      <3>1. i \in 1..(Len(queued) - 1) /\ i + 1 \in DOMAIN queued /\ queued'[i] = queued[i + 1]
        BY <2>1, <2>2
      <3>2. seqOf[b] >= (i + 1) + ran + 0 /\ seqOf[b] \in Nat
        BY <1>1, <1>2, <2>5, <3>1 DEF Tracked
      <3> QED BY <1>2, <3>1, <3>2
    <2> QED BY <2>1, <2>2, <2>3, <2>4, <2>5
  <1>4. CASE /\ queued = <<>>
             /\ csPc' = (IF HasWork THEN "loop" ELSE "wait")
             /\ UNCHANGED <<chunk, queued>>
    <2>1. csPc' \in {"loop", "wait"} /\ chunk' = chunk /\ queued' = queued
      BY <1>4
    <2>2. ASSUME NEW b \in Tracked
          PROVE  ~UsesTracked(chunk', b) /\ DOMAIN queued' = {}
      BY <1>0, <1>4, <2>1 DEF UsesTracked
    <2> QED BY <1>0, <2>1, <2>2
  <1> QED BY <1>3, <1>4 DEF TakeNext

\* No command is executed: the thread takes a chunk, counts one, or sleeps.
LEMMA IdlesKeeps ==
  ASSUME ContextInv, Idles
  PROVE  ContextInv'
  <1>0. TypeOK /\ StreamInv /\ SliceInv /\ FlushInv /\ SeqInv /\ CallInv /\ SyncInv
    BY DEF ContextInv
  <1>1. /\ Loop \/ Acknowledge \/ Wake \/ Finish
        /\ UNCHANGED <<callVars, streamVars, seqOf, sliceVars, listVars, deferred, closing, usage>>
    BY DEF Idles
  <1>2. /\ csChunk' = csChunk /\ csSeqNum' = csSeqNum /\ csIsBusy' = csIsBusy
        /\ mapped' = mapped /\ phys' = phys /\ free' = free /\ seqOf' = seqOf /\ usage' = usage
        /\ recording' = recording /\ submitted' = submitted /\ deferred' = deferred
        /\ ctxLock' = ctxLock /\ app' = app /\ ret' = ret /\ map' = map /\ closing' = closing
        /\ UNCHANGED <<dispatched, sync, seqArg, csStopped>>
    BY <1>1 DEF callVars, streamVars, sliceVars, listVars, Loop, Acknowledge, Wake, Finish
  <1>3. CsInv'
    BY <1>0, <1>1, CsInvWorker DEF StreamInv, WorkerStep
  <1>4. ran \in Nat /\ executed \in Nat /\ executed <= ran /\ ran <= dispatched
    BY <1>0, DispatchedNumbers DEF StreamInv
  <1>5. /\ chunk' \in Seq(Issued) /\ queued' \in Seq(Seq(Issued))
        /\ chunk' \o FlattenSeq(queued') = chunk \o FlattenSeq(queued)
        /\ chunk' # <<>> => csPc' = "execute"
        /\ csPc' = "exited" => csStopped
        /\ \A b \in Tracked :
              /\ UsesTracked(chunk', b) => seqOf[b] > ran'
              /\ \A i \in DOMAIN queued' :
                   UsesTracked(queued'[i], b)
                   => seqOf[b] >= i + ran' + (IF csPc' = "execute" THEN 1 ELSE 0)
    <2>1. CASE Acknowledge \/ Wake
      <3>1. csPc # "execute" /\ TakeNext /\ ran' = ran
        BY <2>1 DEF Acknowledge, Wake
      <3> QED BY <3>1, TakeNextKeeps
    <2>2. CASE Loop
      <3>1. /\ csPc = "loop" /\ csPc' = IF csStopped THEN "exited" ELSE "lock"
            /\ chunk' = chunk /\ queued' = queued /\ ran' = ran
        BY <2>2 DEF Loop
      <3>2. chunk = <<>>
        BY <1>0, <3>1 DEF StreamInv
      <3> QED BY <1>0, <3>1, <3>2, BeforeType DEF SeqInv
    <2>3. CASE Finish
      <3>1. /\ csPc = "execute" /\ chunk = <<>> /\ csPc' = "loop" /\ ran' = ran + 1
            /\ chunk' = chunk /\ queued' = queued
        BY <2>3 DEF Finish
      <3>2. ASSUME NEW b \in Tracked, NEW i \in DOMAIN queued, UsesTracked(queued[i], b)
            PROVE  seqOf[b] >= i + ran' + 0
        <4>1. seqOf[b] >= i + ran + 1
          BY <1>0, <3>1, <3>2 DEF SeqInv
        <4>2. i \in Nat
          BY <1>0, <3>2, DispatchedNumbers
        <4> QED BY <1>4, <3>1, <4>1, <4>2
      <3>3. ASSUME NEW b PROVE ~UsesTracked(chunk', b)
        BY <3>1 DEF UsesTracked
      <3>4. chunk \in Seq(Issued) /\ queued \in Seq(Seq(Issued))
        BY <1>0, BeforeType
      <3> QED BY <3>1, <3>2, <3>3, <3>4
    <2> QED BY <1>1, <2>1, <2>2, <2>3
  <1>6. executed' \in Nat /\ executed' >= executed /\ dispatched >= executed'
    <2>1. CASE Acknowledge
      <3>1. executed' = ran
        BY <1>0, <2>1 DEF Acknowledge, Counted, StreamInv, CsInv
      <3> QED BY <1>4, <3>1
    <2>2. CASE ~Acknowledge
      <3>1. executed' = executed
        BY <1>1, <2>2 DEF Loop, Wake, Finish
      <3>2. dispatched \in Nat
        BY <1>0 DEF TypeOK, CsTypeOK
      <3> QED BY <1>4, <3>1, <3>2
    <2> QED BY <2>1, <2>2
  <1>7. Unexecuted' = Unexecuted /\ Lists' = Lists
    BY <1>2, <1>5 DEF Unexecuted, Lists
  <1>8. StreamInv'
    BY <1>0, <1>2, <1>3, <1>5 DEF StreamInv
  <1>9. TypeOK'
    BY <1>0, <1>2, <1>3, <1>5 DEF TypeOK, CsInv
  <1>10. SliceInv'
    BY <1>0, <1>2, <1>7 DEF SliceInv, ListsOwn, CommandsOwn, Reserved, DeferredOwns, Chained
  <1>11. FlushInv'
    BY <1>0, <1>2, <1>7 DEF FlushInv, EndsFlushed
  <1>12. SeqInv'
    <2>1. Tracked' = Tracked
      BY <1>2 DEF Tracked
    <2>2. \A b \in Tracked : UsesTracked(csChunk, b) => seqOf[b] > csSeqNum
      BY <1>0 DEF SeqInv
    <2> QED BY <1>2, <1>5, <2>1, <2>2 DEF SeqInv
  <1>13. CallInv' /\ SyncInv'
    BY <1>2, <1>6, CallersKept DEF callVars
  <1> QED BY <1>8, <1>9, <1>10, <1>11, <1>12, <1>13 DEF ContextInv

-----------------------------------------------------------------------------
(* Command lists in flight: what executing a command does to what they own. *)

\* Work that is added to the last list is on the slice that is bound, and work
\* that is finished is only forgotten.
LEMMA OwnUses ==
  ASSUME NEW lists, NEW after, NEW bound, NEW avail,
         ListsOwn(lists, bound, avail), DOMAIN after = DOMAIN lists,
         \A k \in DOMAIN lists : after[k].retired = lists[k].retired,
         \A k \in DOMAIN lists : \A u \in after[k].uses :
           u \in lists[k].uses \/ u.slice = bound[u.buf]
  PROVE  /\ ListsOwn(after, bound, avail)
         /\ \A b, s : Retired(after, b, s) <=> Retired(lists, b, s)
  <1>1. \A b, s : Retired(after, b, s) <=> Retired(lists, b, s)
    BY DEF Retired
  <1>2. RetiredOnce(after)
    BY DEF ListsOwn, RetiredOnce
  <1>3. UsesCovered(after, bound)
    <2> SUFFICES ASSUME NEW k \in DOMAIN lists, NEW u \in after[k].uses, u.slice # bound[u.buf]
                 PROVE  \E m \in DOMAIN lists :
                          m >= k /\ [buf |-> u.buf, slice |-> u.slice] \in after[m].retired
      BY DEF UsesCovered
    <2>1. u \in lists[k].uses
      OBVIOUS
    <2>2. PICK m \in DOMAIN lists :
            m >= k /\ [buf |-> u.buf, slice |-> u.slice] \in lists[m].retired
      BY <2>1 DEF ListsOwn, UsesCovered
    <2> QED BY <2>2
  <1> QED BY <1>1, <1>2, <1>3 DEF ListsOwn

\* The slice that is replaced is retired by the last list.
LEMMA OwnRename ==
  ASSUME NEW lists, NEW after, NEW bound \in [Buffers -> Slices], NEW avail,
         NEW n \in Nat, NEW b \in Buffers, NEW s \in Slices,
         ListsOwn(lists, bound, avail), Reserved(lists, bound, avail, b, s),
         DOMAIN lists = 1..n, DOMAIN after = 1..n, n > 0,
         \A k \in 1..n : after[k].uses = lists[k].uses,
         \A k \in 1..n : \A u \in lists[k].uses : u.buf \in Buffers,
         \A k \in 1..(n - 1) : after[k].retired = lists[k].retired,
         after[n].retired = lists[n].retired \cup {[buf |-> b, slice |-> bound[b]]}
  PROVE  /\ ListsOwn(after, [bound EXCEPT ![b] = s], avail)
         /\ \A c \in Buffers, t \in Slices :
              Reserved(lists, bound, avail, c, t) /\ ~(c = b /\ t = s)
              => Reserved(after, [bound EXCEPT ![b] = s], avail, c, t)
  <1> DEFINE bound2 == [bound EXCEPT ![b] = s]
  <1>0. \A c \in Buffers : bound2[c] = IF c = b THEN s ELSE bound[c]
    OBVIOUS
  <1> HIDE DEF bound2
  <1>1. \A c, t : Retired(after, c, t) <=> Retired(lists, c, t) \/ (c = b /\ t = bound[b])
    <2> SUFFICES ASSUME NEW c, NEW t
                 PROVE Retired(after, c, t) <=> Retired(lists, c, t) \/ (c = b /\ t = bound[b])
      OBVIOUS
    <2>1. ASSUME Retired(after, c, t) PROVE Retired(lists, c, t) \/ (c = b /\ t = bound[b])
      <3>1. PICK k \in 1..n : [buf |-> c, slice |-> t] \in after[k].retired
        BY <2>1 DEF Retired
      <3>2. CASE k = n
        BY <3>1, <3>2 DEF Retired
      <3>3. CASE k # n
        BY <3>1, <3>3 DEF Retired
      <3> QED BY <3>2, <3>3
    <2>2. ASSUME Retired(lists, c, t) PROVE Retired(after, c, t)
      <3>1. PICK k \in 1..n : [buf |-> c, slice |-> t] \in lists[k].retired
        BY <2>2 DEF Retired
      <3>2. CASE k = n
        BY <3>1, <3>2 DEF Retired
      <3>3. CASE k # n
        BY <3>1, <3>3 DEF Retired
      <3> QED BY <3>2, <3>3
    <2>3. ASSUME c = b, t = bound[b] PROVE Retired(after, c, t)
      BY <2>3 DEF Retired
    <2> QED BY <2>1, <2>2, <2>3
  <1>2. s # bound[b] /\ s \notin avail[b] /\ ~Retired(lists, b, s)
    BY DEF Reserved
  <1>3. /\ \A c \in Buffers : bound[c] \notin avail[c]
        /\ \A c \in Buffers, t \in Slices :
             Retired(lists, c, t) => t # bound[c] /\ t \notin avail[c]
    BY DEF ListsOwn
  <1>4. \A c \in Buffers : bound2[c] \notin avail[c]
    BY <1>0, <1>2, <1>3
  <1>5. \A c \in Buffers, t \in Slices :
             Retired(after, c, t) => t # bound2[c] /\ t \notin avail[c]
    BY <1>0, <1>1, <1>2, <1>3
  <1>6. RetiredOnce(after)
    <2>1. ~Retired(lists, b, bound[b])
      BY <1>3
    <2>2. \A k \in 1..n : [buf |-> b, slice |-> bound[b]] \notin lists[k].retired
      BY <2>1 DEF Retired
    <2> SUFFICES ASSUME NEW k \in 1..n, NEW m \in 1..n,
                        after[k].retired \cap after[m].retired # {}
                 PROVE  k = m
      BY DEF RetiredOnce
    <2>3. PICK r : r \in after[k].retired /\ r \in after[m].retired
      OBVIOUS
    <2>4. CASE r = [buf |-> b, slice |-> bound[b]]
      <3>1. k = n /\ m = n
        BY <2>2, <2>3, <2>4
      <3> QED BY <3>1
    <2>5. CASE r # [buf |-> b, slice |-> bound[b]]
      <3>1. r \in lists[k].retired
        BY <2>3, <2>5
      <3>2. r \in lists[m].retired
        BY <2>3, <2>5
      <3> QED BY <3>1, <3>2 DEF ListsOwn, RetiredOnce
    <2> QED BY <2>4, <2>5
  <1>7. UsesCovered(after, bound2)
    <2> SUFFICES ASSUME NEW k \in 1..n, NEW u \in after[k].uses, u.slice # bound2[u.buf]
                 PROVE  \E m \in 1..n :
                          m >= k /\ [buf |-> u.buf, slice |-> u.slice] \in after[m].retired
      BY DEF UsesCovered
    <2>1. u \in lists[k].uses /\ u.buf \in Buffers
      OBVIOUS
    <2>2. CASE u.slice = bound[u.buf]
      <3>1. u.buf = b
        BY <1>0, <2>1, <2>2
      <3>2. n >= k /\ n \in 1..n /\ [buf |-> u.buf, slice |-> u.slice] \in after[n].retired
        BY <2>2, <3>1
      <3> QED BY <3>2
    <2>3. CASE u.slice # bound[u.buf]
      <3>1. PICK m \in 1..n :
            m >= k /\ [buf |-> u.buf, slice |-> u.slice] \in lists[m].retired
        BY <2>1, <2>3 DEF ListsOwn, UsesCovered
      <3>2. lists[m].retired \subseteq after[m].retired
        <4>1. CASE m = n
          BY <4>1
        <4>2. CASE m # n
          BY <4>2
        <4> QED BY <4>1, <4>2
      <3> QED BY <3>1, <3>2
    <2> QED BY <2>2, <2>3
  <1>8. ListsOwn(after, bound2, avail)
    BY <1>4, <1>5, <1>6, <1>7 DEF ListsOwn
  <1>9. \A c \in Buffers, t \in Slices :
              Reserved(lists, bound, avail, c, t) /\ ~(c = b /\ t = s)
              => Reserved(after, bound2, avail, c, t)
    BY <1>0, <1>1 DEF Reserved
  <1> QED BY <1>8, <1>9 DEF bound2

\* A new list owns nothing.
LEMMA OwnNewList ==
  ASSUME NEW lists, NEW after, NEW bound, NEW avail, NEW n \in Nat,
         ListsOwn(lists, bound, avail), DOMAIN lists = 1..n, DOMAIN after = 1..(n + 1),
         \A k \in 1..n : after[k] = lists[k],
         after[n + 1].uses = {}, after[n + 1].retired = {}
  PROVE  /\ ListsOwn(after, bound, avail)
         /\ \A b, s : Retired(after, b, s) <=> Retired(lists, b, s)
  <1>1. \A b, s : Retired(after, b, s) <=> Retired(lists, b, s)
    BY DEF Retired
  <1>2. RetiredOnce(after)
    <2> SUFFICES ASSUME NEW k \in 1..(n + 1), NEW m \in 1..(n + 1),
                        after[k].retired \cap after[m].retired # {}
                 PROVE  k = m
      BY DEF RetiredOnce
    <2>1. k \in 1..n /\ m \in 1..n
      OBVIOUS
    <2> QED BY <2>1 DEF ListsOwn, RetiredOnce
  <1>3. UsesCovered(after, bound)
    <2> SUFFICES ASSUME NEW k \in 1..(n + 1), NEW u \in after[k].uses, u.slice # bound[u.buf]
                 PROVE  \E m \in 1..(n + 1) :
                          m >= k /\ [buf |-> u.buf, slice |-> u.slice] \in after[m].retired
      BY DEF UsesCovered
    <2>1. k \in 1..n /\ u \in lists[k].uses
      OBVIOUS
    <2>2. PICK m \in 1..n :
            m >= k /\ [buf |-> u.buf, slice |-> u.slice] \in lists[m].retired
      BY <2>1 DEF ListsOwn, UsesCovered
    <2> QED BY <2>2
  <1> QED BY <1>1, <1>2, <1>3 DEF ListsOwn

\* The lists in flight, with the one that is recorded last.
LEMMA ListsShape ==
  ASSUME TypeOK
  PROVE  /\ Len(submitted) \in Nat /\ DOMAIN submitted = 1..Len(submitted)
         /\ DOMAIN Lists = 1..(Len(submitted) + 1)
         /\ Lists[Len(submitted) + 1] = recording
         /\ \A k \in 1..Len(submitted) : Lists[k] = submitted[k] /\ submitted[k] \in ListType
         /\ recording \in ListType /\ Lists \in Seq(ListType)
  <1>1. submitted \in Seq(ListType) /\ recording \in ListType
    BY DEF TypeOK
  <1> QED BY <1>1, AppendAt DEF Lists

\* A list of the right type.
LEMMA ListFields ==
  ASSUME NEW l \in ListType
  PROVE  /\ l.uses \subseteq [buf : Buffers, slice : Slices, access : Access]
         /\ l.retired \subseteq [buf : Buffers, slice : Slices]
         /\ \A u \in l.uses : u.buf \in Buffers /\ u.slice \in Slices
  BY DEF ListType

\* The command at the front.
LEMMA FrontCommand ==
  ASSUME ContextInv, Execute, csChunk' = csChunk
  PROVE  /\ Unexecuted \in Seq(Issued) /\ Unexecuted # <<>>
         /\ Head(Unexecuted) = Head(chunk) /\ Head(chunk) \in Issued
         /\ Unexecuted' = Tail(Unexecuted) /\ chunk' \in Seq(Issued)
  <1>1. /\ chunk \in Seq(Issued) /\ csChunk \in Seq(Issued) /\ FlattenSeq(queued) \in Seq(Issued)
        /\ chunk # <<>> /\ chunk' = Tail(chunk) /\ queued' = queued
    BY BeforeType DEF ContextInv, StreamInv, Execute
  <1> DEFINE q == FlattenSeq(queued)
  <1>2. Unexecuted = (chunk \o q) \o csChunk /\ Unexecuted' = (Tail(chunk) \o q) \o csChunk
    BY <1>1 DEF Unexecuted
  <1>3. q \in Seq(Issued)
    BY <1>1
  <1> HIDE DEF q
  <1>4. ASSUME NEW x \in Seq(Issued), x # <<>>, NEW y \in Seq(Issued)
        PROVE  /\ x \o y \in Seq(Issued) /\ x \o y # <<>> /\ Head(x) \in Issued
               /\ Tail(x) \in Seq(Issued)
               /\ Head(x \o y) = Head(x) /\ Tail(x \o y) = Tail(x) \o y
    BY <1>4
  <1>5. /\ chunk \o q \in Seq(Issued) /\ chunk \o q # <<>> /\ Head(chunk) \in Issued
        /\ Head(chunk \o q) = Head(chunk) /\ Tail(chunk \o q) = Tail(chunk) \o q
        /\ Tail(chunk) \in Seq(Issued)
    BY <1>1, <1>3, <1>4
  <1>6. /\ (chunk \o q) \o csChunk \in Seq(Issued) /\ (chunk \o q) \o csChunk # <<>>
        /\ Head((chunk \o q) \o csChunk) = Head(chunk \o q)
        /\ Tail((chunk \o q) \o csChunk) = Tail(chunk \o q) \o csChunk
    BY <1>1, <1>4, <1>5
  <1> QED BY <1>1, <1>2, <1>5, <1>6

\* What the command c does to the slices, whatever it is.
Executed(c) ==
  /\ ListsOwn(Lists, phys, free)'
  /\ \A b \in Buffers, s \in Slices :
       Reserved(Lists, phys, free, b, s) /\ c # Rename(b, s)
       => Reserved(Lists, phys, free, b, s)'
  /\ \A b \in Buffers : phys'[b] = IF IsRename(c, b) THEN c.slice ELSE phys[b]
  /\ recording' \in ListType /\ submitted' \in Seq(ListType)
  /\ phys' \in [Buffers -> Slices] /\ free' = free
  /\ c = FlushCommand => recording' = NewList

\* A use is tracked by the list that is recorded.
LEMMA ExecutedUse ==
  ASSUME ContextInv, NEW c \in Issued, ExecuteUse(c)
  PROVE  Executed(c)
  <1>0. TypeOK /\ ListsOwn(Lists, phys, free)
    BY DEF ContextInv, SliceInv
  <1> DEFINE w == [buf |-> c.buf, slice |-> phys[c.buf], access |-> c.access]
             n == Len(submitted) + 1
  <1>1. /\ c.op = "use" /\ recording' = [recording EXCEPT !.uses = @ \cup {w}]
        /\ phys' = phys /\ free' = free /\ submitted' = submitted
    BY DEF ExecuteUse
  <1>2. phys \in [Buffers -> Slices]
    BY <1>0, SliceTypes
  <1>3. w \in [buf : Buffers, slice : Slices, access : Access] /\ w.slice = phys[w.buf]
    BY <1>1, <1>2, IssuedFields
  <1> HIDE DEF w
  <1>4. recording \in ListType
    BY <1>0, ListsShape
  <1>5. /\ recording' \in ListType /\ recording'.retired = recording.retired
        /\ recording'.uses = recording.uses \cup {w}
    BY <1>1, <1>3, <1>4 DEF ListType
  <1>6. Lists' = Append(submitted, recording') /\ submitted \in Seq(ListType)
    BY <1>0, <1>1 DEF Lists, TypeOK
  <1>7. /\ Len(submitted) \in Nat
        /\ DOMAIN Lists' = 1..n /\ Lists'[n] = recording'
        /\ \A k \in 1..Len(submitted) : Lists'[k] = submitted[k]
    BY <1>5, <1>6, AppendAt
  <1>8. /\ DOMAIN Lists = 1..n /\ Lists[n] = recording
        /\ \A k \in 1..Len(submitted) : Lists[k] = submitted[k]
    BY <1>0, ListsShape
  <1>9. \A k \in 1..n : k = n \/ k \in 1..Len(submitted)
    BY <1>7
  <1>10. \A k \in 1..n : Lists'[k].retired = Lists[k].retired
    BY <1>5, <1>7, <1>8, <1>9
  <1>11. \A k \in 1..n : \A u \in Lists'[k].uses : u \in Lists[k].uses \/ u.slice = phys[u.buf]
    BY <1>3, <1>5, <1>7, <1>8, <1>9
  <1> HIDE DEF n
  <1>12. /\ ListsOwn(Lists', phys, free)
         /\ \A b, s : Retired(Lists', b, s) <=> Retired(Lists, b, s)
    <2>1. /\ DOMAIN Lists' = DOMAIN Lists
          /\ \A k \in DOMAIN Lists : Lists'[k].retired = Lists[k].retired
          /\ \A k \in DOMAIN Lists : \A u \in Lists'[k].uses :
               u \in Lists[k].uses \/ u.slice = phys[u.buf]
      BY <1>7, <1>8, <1>10, <1>11
    <2> QED BY ONLY <1>0, <2>1, OwnUses
  <1>13. \A b \in Buffers : ~IsRename(c, b)
    BY <1>1 DEF IsRename
  <1>14. c # FlushCommand
    BY <1>1 DEF FlushCommand
  <1>15. submitted' \in Seq(ListType)
    BY <1>1, <1>6
  <1>16. \A b \in Buffers, s \in Slices :
           Reserved(Lists, phys, free, b, s) => Reserved(Lists', phys, free, b, s)
    BY <1>12 DEF Reserved
  <1> QED BY <1>1, <1>2, <1>5, <1>12, <1>13, <1>14, <1>15, <1>16 DEF Executed

\* A rename retires the slice that was bound.
LEMMA ExecutedRename ==
  ASSUME ContextInv, NEW c \in Issued, ExecuteRename(c), Renamed(Unexecuted, c.buf, c.slice)
  PROVE  Executed(c)
  <1>0. TypeOK /\ ListsOwn(Lists, phys, free)
    BY DEF ContextInv, SliceInv
  <1> DEFINE b == c.buf
             s == c.slice
             r == [buf |-> b, slice |-> phys[b]]
             n == Len(submitted) + 1
  <1>1. /\ c.op = "rename" /\ recording' = [recording EXCEPT !.retired = @ \cup {r}]
        /\ phys' = [phys EXCEPT ![b] = s] /\ free' = free /\ submitted' = submitted
    BY DEF ExecuteRename, RenamedTo, FreedBy
  <1>2. phys \in [Buffers -> Slices]
    BY <1>0, SliceTypes
  <1>3. b \in Buffers /\ s \in Slices /\ c = Rename(b, s)
    BY <1>1, IssuedFields
  <1>4. Reserved(Lists, phys, free, b, s)
    BY <1>3 DEF ContextInv, SliceInv, CommandsOwn
  <1>5. r \in [buf : Buffers, slice : Slices]
    BY <1>2, <1>3
  <1>6. recording \in ListType
    BY <1>0, ListsShape
  <1>7. /\ recording' \in ListType /\ recording'.uses = recording.uses
        /\ recording'.retired = recording.retired \cup {r}
    BY <1>1, <1>5, <1>6 DEF ListType
  <1>8. Lists' = Append(submitted, recording') /\ submitted \in Seq(ListType)
    BY <1>0, <1>1 DEF Lists, TypeOK
  <1>9. /\ Len(submitted) \in Nat
        /\ DOMAIN Lists' = 1..n /\ Lists'[n] = recording'
        /\ \A k \in 1..Len(submitted) : Lists'[k] = submitted[k]
    BY <1>7, <1>8, AppendAt
  <1>10. /\ DOMAIN Lists = 1..n /\ Lists[n] = recording /\ n \in Nat /\ n > 0
         /\ \A k \in 1..Len(submitted) : Lists[k] = submitted[k] /\ submitted[k] \in ListType
    BY <1>0, ListsShape
  <1>11. \A k \in 1..n : k = n \/ k \in 1..Len(submitted)
    BY <1>9
  <1>12. \A k \in 1..n : Lists'[k].uses = Lists[k].uses /\ Lists[k] \in ListType
    BY <1>6, <1>7, <1>9, <1>10, <1>11
  <1>13. \A k \in 1..n : \A u \in Lists[k].uses : u.buf \in Buffers
    BY <1>12, ListFields
  <1>14. \A k \in 1..(n - 1) : Lists'[k].retired = Lists[k].retired
    BY <1>9, <1>10
  <1>15. Lists'[n].retired = Lists[n].retired \cup {[buf |-> b, slice |-> phys[b]]}
    BY <1>7, <1>9, <1>10
  <1>16. c # FlushCommand
    BY <1>1 DEF FlushCommand
  <1> HIDE DEF n, b, s, r
  <1>17. /\ ListsOwn(Lists', [phys EXCEPT ![b] = s], free)
         /\ \A d \in Buffers, t \in Slices :
              Reserved(Lists, phys, free, d, t) /\ ~(d = b /\ t = s)
              => Reserved(Lists', [phys EXCEPT ![b] = s], free, d, t)
    BY ONLY <1>0, <1>2, <1>3, <1>4, <1>9, <1>10, <1>12, <1>13, <1>14, <1>15, OwnRename
  <1>18. \A d \in Buffers : phys'[d] = IF IsRename(c, d) THEN c.slice ELSE phys[d]
    BY <1>1, <1>2, <1>3 DEF IsRename, b, s
  <1>19. \A d \in Buffers, t \in Slices :
           Reserved(Lists, phys, free, d, t) /\ c # Rename(d, t)
           => Reserved(Lists', phys', free', d, t)
    BY <1>1, <1>3, <1>17
  <1>20. /\ submitted' \in Seq(ListType) /\ phys' \in [Buffers -> Slices]
         /\ ListsOwn(Lists', phys', free')
    BY <1>1, <1>2, <1>3, <1>8, <1>17
  <1> QED BY <1>1, <1>7, <1>16, <1>18, <1>19, <1>20 DEF Executed

\* A flush submits the list and begins another.
LEMMA ExecutedFlush ==
  ASSUME ContextInv, NEW c \in Issued, ExecuteFlush(c)
  PROVE  Executed(c)
  <1>0. TypeOK /\ ListsOwn(Lists, phys, free)
    BY DEF ContextInv, SliceInv
  <1> DEFINE n == Len(submitted) + 1
  <1>1. /\ c.op = "flush" /\ submitted' = Append(submitted, recording) /\ recording' = NewList
        /\ phys' = phys /\ free' = free
    BY DEF ExecuteFlush
  <1>2. NewList \in ListType /\ NewList.uses = {} /\ NewList.retired = {}
    BY DEF NewList, ListType
  <1>3. /\ Lists \in Seq(ListType) /\ Lists' = Append(Lists, NewList) /\ submitted' = Lists
    BY <1>0, <1>1, ListsShape DEF Lists
  <1>4. /\ DOMAIN Lists = 1..n /\ n \in Nat /\ Len(Lists) = n
    BY <1>0, <1>3, ListsShape
  <1>5. /\ DOMAIN Lists' = 1..(n + 1) /\ Lists'[n + 1] = NewList
        /\ \A k \in 1..n : Lists'[k] = Lists[k]
    BY <1>2, <1>3, <1>4, AppendAt
  <1> HIDE DEF n
  <1>6. /\ ListsOwn(Lists', phys, free)
        /\ \A b, s : Retired(Lists', b, s) <=> Retired(Lists, b, s)
    BY <1>0, <1>2, <1>4, <1>5, OwnNewList
  <1>7. \A b \in Buffers : ~IsRename(c, b)
    BY <1>1 DEF IsRename
  <1>8. \A b \in Buffers, s \in Slices :
           Reserved(Lists, phys, free, b, s) => Reserved(Lists', phys, free, b, s)
    BY <1>6 DEF Reserved
  <1>9. phys \in [Buffers -> Slices]
    BY <1>0, SliceTypes
  <1> QED BY <1>1, <1>2, <1>3, <1>6, <1>7, <1>8, <1>9 DEF Executed

-----------------------------------------------------------------------------
(* Executing a command.                                                    *)

\* What is bound follows the commands that are left.
LEMMA ChainedTail ==
  ASSUME NEW u \in Seq(Issued), u # <<>>, NEW bound, NEW now, NEW final,
         Chained(u, bound, final),
         \A b \in Buffers : now[b] = IF IsRename(Head(u), b) THEN Head(u).slice ELSE bound[b]
  PROVE  Chained(Tail(u), now, final)
  <1> DEFINE v == Tail(u)
  <1>1. /\ Len(u) \in Nat \ {0} /\ Len(v) = Len(u) - 1
        /\ DOMAIN u = 1..Len(u) /\ DOMAIN v = 1..(Len(u) - 1)
        /\ \A i \in 1..(Len(u) - 1) : v[i] = u[i + 1]
    BY TailAt
  <1> SUFFICES ASSUME NEW b \in Buffers, usage[b] # "shared"
               PROVE  /\ \A p \in DOMAIN v :
                           v[p].op = "use" /\ v[p].buf = b => BoundAt(v, now[b], b, p, v[p].slice)
                      /\ BoundAt(v, now[b], b, Len(v) + 1, final[b])
    BY DEF Chained
  <1> DEFINE first == bound[b]
             next  == IF IsRename(Head(u), b) THEN Head(u).slice ELSE first
  <1>2. now[b] = next
    OBVIOUS
  <1>3. /\ \A p \in DOMAIN u :
             u[p].op = "use" /\ u[p].buf = b => BoundAt(u, first, b, p, u[p].slice)
        /\ BoundAt(u, first, b, Len(u) + 1, final[b])
    BY DEF Chained
  <1>4. ASSUME NEW p \in 1..Len(u), NEW s, BoundAt(u, first, b, p + 1, s)
        PROVE  BoundAt(v, next, b, p, s)
    BY <1>4, BoundAtTail
  <1> HIDE DEF first, next, v
  <1>5. ASSUME NEW p \in DOMAIN v, v[p].op = "use", v[p].buf = b
        PROVE  BoundAt(v, next, b, p, v[p].slice)
    <2>1. p \in 1..Len(u) /\ p + 1 \in DOMAIN u /\ v[p] = u[p + 1]
      BY <1>1, <1>5
    <2>2. BoundAt(u, first, b, p + 1, v[p].slice)
      BY <1>3, <1>5, <2>1
    <2> QED BY <1>4, <2>1, <2>2
  <1>6. BoundAt(v, next, b, Len(v) + 1, final[b])
    <2>1. Len(v) + 1 = Len(u) /\ Len(u) \in 1..Len(u)
      BY <1>1
    <2>2. BoundAt(v, next, b, Len(u), final[b])
      BY <1>3, <1>4, <2>1
    <2> QED BY <2>1, <2>2
  <1> QED BY <1>2, <1>5, <1>6

\* One rename less to come, and the slice it binds is no longer reserved.
LEMMA CommandsOwnTail ==
  ASSUME NEW u \in Seq(Issued), u # <<>>, NEW lists, NEW bound, NEW avail,
         NEW lists2, NEW bound2, NEW avail2,
         CommandsOwn(u, lists, bound, avail),
         \A b \in Buffers, s \in Slices :
           Reserved(lists, bound, avail, b, s) /\ Head(u) # Rename(b, s)
           => Reserved(lists2, bound2, avail2, b, s)
  PROVE  CommandsOwn(Tail(u), lists2, bound2, avail2)
  <1>1. /\ RenamedOnce(Tail(u))
        /\ Head(u).op = "rename" => ~Renamed(Tail(u), Head(u).buf, Head(u).slice)
    BY RenamedOnceTail DEF CommandsOwn
  <1>2. ASSUME NEW b \in Buffers, NEW s \in Slices, Renamed(Tail(u), b, s)
        PROVE  Reserved(lists2, bound2, avail2, b, s)
    <2>1. Renamed(u, b, s)
      BY <1>2, RenamedTail
    <2>2. Reserved(lists, bound, avail, b, s)
      BY <2>1 DEF CommandsOwn
    <2>3. Head(u) # Rename(b, s)
      <3>1. SUFFICES ASSUME Head(u) = Rename(b, s) PROVE FALSE
        OBVIOUS
      <3>2. Head(u).op = "rename" /\ Head(u).buf = b /\ Head(u).slice = s
        BY <3>1, IssuedRename
      <3> QED BY <1>1, <1>2, <3>2
    <2> QED BY <2>2, <2>3
  <1> QED BY <1>1, <1>2 DEF CommandsOwn

\* What a deferred list reserves, no other command binds.
LEMMA DeferredExecuted ==
  ASSUME DeferredOwns, UNCHANGED <<deferred, usage>>, NEW c \in Issued,
         \A b \in Buffers, s \in Slices :
           Reserved(Lists, phys, free, b, s) /\ c # Rename(b, s)
           => Reserved(Lists, phys, free, b, s)',
         \A b \in Buffers, s \in Slices :
           ~Renamed(Unexecuted, b, s) => ~Renamed(Unexecuted', b, s) /\ c # Rename(b, s)
  PROVE  DeferredOwns'
  <1>2. CASE deferred = <<>>
    BY <1>2 DEF DeferredOwns
  <1>3. CASE \E b \in Buffers :
       /\ usage[b] = "staging"
       /\ deferred = DeferredList(Use(b, NoSlice, "R"), Use(b, NoSlice, "W"))
    BY <1>3 DEF DeferredOwns
  <1>4. CASE \E b \in Buffers, s \in Slices :
       /\ usage[b] = "shared"
       /\ deferred = DeferredList(Rename(b, s), Use(b, s, "R"))
       /\ Reserved(Lists, phys, free, b, s)
       /\ ~Renamed(Unexecuted, b, s)
    <2>1. PICK b \in Buffers, s \in Slices :
       /\ usage[b] = "shared"
       /\ deferred = DeferredList(Rename(b, s), Use(b, s, "R"))
       /\ Reserved(Lists, phys, free, b, s)
       /\ ~Renamed(Unexecuted, b, s)
      BY <1>4
    <2>2. ~Renamed(Unexecuted', b, s) /\ c # Rename(b, s)
      BY <2>1
    <2>3. Reserved(Lists', phys', free', b, s)
      BY <2>1, <2>2
    <2> QED BY <2>1, <2>2, <2>3 DEF DeferredOwns
  <1> QED BY <1>2, <1>3, <1>4 DEF DeferredOwns

\* Executing the command at the front.
LEMMA ExecuteCommandKeeps ==
  ASSUME ContextInv, ExecuteCommand
  PROVE  ContextInv'
  <1> DEFINE u == Unexecuted
             c == Head(chunk)
  <1>0. TypeOK /\ StreamInv /\ SliceInv /\ FlushInv /\ SeqInv /\ CallInv /\ SyncInv
    BY DEF ContextInv
  <1>1. /\ Execute
        /\ ExecuteUse(c) \/ ExecuteRename(c) \/ ExecuteFlush(c)
        /\ UNCHANGED <<callVars, streamVars, seqOf, mapped, deferred, closing, usage>>
    BY DEF ExecuteCommand
  <1>2. /\ csChunk' = csChunk /\ csSeqNum' = csSeqNum /\ csIsBusy' = csIsBusy
        /\ mapped' = mapped /\ seqOf' = seqOf /\ usage' = usage /\ deferred' = deferred
        /\ ctxLock' = ctxLock /\ app' = app /\ ret' = ret /\ map' = map /\ closing' = closing
        /\ UNCHANGED <<dispatched, executed, queued, csPc, ran, sync, seqArg, csStopped>>
    BY <1>1 DEF callVars, streamVars, Execute
  <1>3. /\ u \in Seq(Issued) /\ u # <<>> /\ Head(u) = c /\ c \in Issued
        /\ Unexecuted' = Tail(u) /\ chunk' \in Seq(Issued)
    BY <1>1, <1>2, FrontCommand
  <1>4. Executed(c)
    <2>1. CASE ExecuteUse(c)
      BY <1>3, <2>1, ExecutedUse
    <2>2. CASE ExecuteRename(c)
      <3>1. c = Rename(c.buf, c.slice)
        BY <1>3, <2>2, IssuedFields DEF ExecuteRename
      <3>2. Renamed(Unexecuted, c.buf, c.slice)
        BY <1>3, <3>1, RenamedTail
      <3> QED BY <1>3, <2>2, <3>2, ExecutedRename
    <2>3. CASE ExecuteFlush(c)
      BY <1>3, <2>3, ExecutedFlush
    <2> QED BY <1>1, <2>1, <2>2, <2>3
  <1>5. CsInv'
    BY <1>0, <1>1, CsInvWorker DEF StreamInv, WorkerStep
  <1>6. StreamInv'
    <2>1. csPc = "execute"
      BY <1>1 DEF Execute
    <2> QED BY <1>0, <1>2, <1>3, <1>5, <2>1 DEF StreamInv
  <1>7. TypeOK'
    BY <1>0, <1>2, <1>4, <1>5 DEF TypeOK, CsInv, Executed
  <1> HIDE DEF u, c
  <1>8. SliceInv'
    <2>1. ListsOwn(Lists, phys, free)'
      BY <1>4 DEF Executed
    <2>2. \A b \in Buffers, s \in Slices :
            Reserved(Lists, phys, free, b, s) /\ c # Rename(b, s)
            => Reserved(Lists', phys', free', b, s)
      BY <1>4 DEF Executed
    <2>3. CommandsOwn(u, Lists, phys, free) /\ Chained(u, phys, mapped) /\ DeferredOwns
      BY <1>0 DEF SliceInv, u
    <2>4. CommandsOwn(Tail(u), Lists', phys', free')
      BY ONLY <1>3, <2>2, <2>3, CommandsOwnTail
    <2>5. \A b \in Buffers : phys'[b] = IF IsRename(Head(u), b) THEN Head(u).slice ELSE phys[b]
      BY <1>3, <1>4 DEF Executed
    <2>6. Chained(Tail(u), phys', mapped)
      BY ONLY <1>3, <2>3, <2>5, ChainedTail
    <2>7. Chained(Unexecuted, phys, mapped)'
      BY <1>2, <1>3, <2>6 DEF Chained
    <2>8. \A b \in Buffers, s \in Slices :
           ~Renamed(Unexecuted, b, s) => ~Renamed(Unexecuted', b, s) /\ c # Rename(b, s)
      BY <1>3, RenamedTail DEF u
    <2>9. DeferredOwns'
      BY <1>2, <1>3, <2>2, <2>3, <2>8, DeferredExecuted
    <2> QED BY <1>3, <2>1, <2>4, <2>7, <2>9 DEF SliceInv
  <1>9. FlushInv'
    <2> DEFINE v == Tail(u)
    <2>1. v = Unexecuted'
      BY <1>3
    <2>2. /\ Head(u) = u[1] /\ Len(u) \in Nat \ {0} /\ Len(v) = Len(u) - 1
          /\ \A i \in 1..(Len(u) - 1) : v[i] = u[i + 1]
          /\ v \in Seq(Issued)
      BY <1>3, TailAt
    <2> HIDE DEF v
    <2>7. (v = <<>> => Len(v) = 0) /\ (v # <<>> => Len(v) > 0)
      BY ONLY <2>2
    <2>3. SUFFICES ASSUME csChunk = <<>>, ~csIsBusy
                   PROVE  IF v = <<>> THEN recording' = NewList ELSE v[Len(v)] = FlushCommand
      BY <1>2, <2>1 DEF FlushInv, EndsFlushed
    <2>4. u[Len(u)] = FlushCommand
      BY <1>0, <1>3, <2>3 DEF FlushInv, EndsFlushed, u
    <2>5. CASE v = <<>>
      <3>1. Len(u) = 1
        BY <2>2, <2>5, <2>7
      <3> QED BY <1>3, <1>4, <2>2, <2>4, <2>5, <3>1 DEF Executed
    <2>6. CASE v # <<>>
      <3>1. Len(v) \in 1..(Len(u) - 1) /\ Len(v) + 1 = Len(u)
        BY <2>2, <2>6, <2>7
      <3>2. v[Len(v)] = u[Len(v) + 1]
        BY <2>2, <3>1
      <3> QED BY <2>4, <2>6, <3>1, <3>2
    <2> QED BY <2>5, <2>6
  <1>10. SeqInv'
    <2>1. Tracked' = Tracked
      BY <1>2 DEF Tracked
    <2>2. chunk \in Seq(Issued) /\ chunk # <<>> /\ chunk' = Tail(chunk)
      BY <1>0, <1>1 DEF StreamInv, Execute
    <2>3. \A b : UsesTracked(chunk', b) => UsesTracked(chunk, b)
      <3>1. /\ Len(chunk) \in Nat \ {0} /\ DOMAIN chunk = 1..Len(chunk)
            /\ DOMAIN Tail(chunk) = 1..(Len(chunk) - 1)
            /\ \A i \in 1..(Len(chunk) - 1) : Tail(chunk)[i] = chunk[i + 1]
        BY <2>2, TailAt
      <3> QED BY <2>2, <3>1 DEF UsesTracked
    <2> QED BY <1>0, <1>2, <2>1, <2>3 DEF SeqInv
  <1>11. CallInv' /\ SyncInv'
    <2>1. executed \in Nat /\ dispatched >= executed
      <3>1. ran \in Nat /\ csSeqNum \in Nat /\ executed \in Nat
            /\ executed <= ran /\ ran <= csSeqNum /\ csSeqNum = dispatched
        BY <1>0, DispatchedNumbers DEF StreamInv
      <3> QED BY <3>1
    <2>2. executed' = executed
      BY <1>2
    <2>3. executed' >= executed
      BY <2>1, <2>2
    <2> QED BY <1>2, <2>1, <2>2, <2>3, CallersKept DEF callVars
  <1> QED BY <1>6, <1>7, <1>8, <1>9, <1>10, <1>11 DEF ContextInv

-----------------------------------------------------------------------------
(* The finish worker.                                                      *)

\* The oldest list is reset: what it retired is free.
LEMMA OwnReset ==
  ASSUME NEW lists, NEW after, NEW bound, NEW avail, NEW left, NEW n \in Nat,
         ListsOwn(lists, bound, avail), DOMAIN lists = 1..(n + 1), DOMAIN after = 1..n,
         \A k \in 1..n : after[k] = lists[k + 1],
         \A b \in Buffers, t \in Slices :
           t \in left[b] => t \in avail[b] \/ [buf |-> b, slice |-> t] \in lists[1].retired,
         \A b \in Buffers : bound[b] \in Slices
  PROVE  /\ ListsOwn(after, bound, left)
         /\ \A b \in Buffers, t \in Slices :
              Reserved(lists, bound, avail, b, t) => Reserved(after, bound, left, b, t)
  <1>1. \A b, t : Retired(after, b, t) => Retired(lists, b, t)
    <2> SUFFICES ASSUME NEW b, NEW t, NEW k \in 1..n,
                        [buf |-> b, slice |-> t] \in after[k].retired
                 PROVE  Retired(lists, b, t)
      BY DEF Retired
    <2>1. k + 1 \in 1..(n + 1) /\ [buf |-> b, slice |-> t] \in lists[k + 1].retired
      OBVIOUS
    <2> QED BY <2>1 DEF Retired
  <1>2. \A b \in Buffers, t \in Slices : t \in left[b] => t \in avail[b] \/ Retired(lists, b, t)
    BY DEF Retired
  <1>3. /\ \A b \in Buffers : bound[b] \notin avail[b]
        /\ \A b \in Buffers, t \in Slices :
             Retired(lists, b, t) => t # bound[b] /\ t \notin avail[b]
    BY DEF ListsOwn
  <1>4. \A b \in Buffers : bound[b] \notin left[b]
    BY <1>2, <1>3
  <1>5. \A b \in Buffers, t \in Slices : Retired(after, b, t) => t # bound[b] /\ t \notin left[b]
    <2> SUFFICES ASSUME NEW b \in Buffers, NEW t \in Slices, Retired(after, b, t), t \in left[b]
                 PROVE  FALSE
      BY <1>1, <1>3
    <2>1. [buf |-> b, slice |-> t] \in lists[1].retired
      BY <1>1, <1>3
    <2>2. PICK k \in 1..n : [buf |-> b, slice |-> t] \in lists[k + 1].retired
      BY DEF Retired
    <2>3. 1 \in 1..(n + 1) /\ k + 1 \in 1..(n + 1) /\ k + 1 # 1
      OBVIOUS
    <2> QED BY <2>1, <2>2, <2>3 DEF ListsOwn, RetiredOnce
  <1>6. RetiredOnce(after)
    <2> SUFFICES ASSUME NEW k \in 1..n, NEW m \in 1..n,
                        after[k].retired \cap after[m].retired # {}
                 PROVE  k = m
      BY DEF RetiredOnce
    <2>1. /\ k + 1 \in 1..(n + 1) /\ m + 1 \in 1..(n + 1)
          /\ lists[k + 1].retired \cap lists[m + 1].retired # {}
      OBVIOUS
    <2>2. k + 1 = m + 1
      BY <2>1 DEF ListsOwn, RetiredOnce
    <2> QED BY <2>2
  <1>7. UsesCovered(after, bound)
    <2> SUFFICES ASSUME NEW k \in 1..n, NEW u \in after[k].uses, u.slice # bound[u.buf]
                 PROVE  \E m \in 1..n :
                          m >= k /\ [buf |-> u.buf, slice |-> u.slice] \in after[m].retired
      BY DEF UsesCovered
    <2>1. k + 1 \in 1..(n + 1) /\ u \in lists[k + 1].uses
      OBVIOUS
    <2>2. PICK m \in 1..(n + 1) :
            m >= k + 1 /\ [buf |-> u.buf, slice |-> u.slice] \in lists[m].retired
      BY <2>1 DEF ListsOwn, UsesCovered
    <2>3. m - 1 \in 1..n /\ m - 1 >= k /\ after[m - 1] = lists[m]
      BY <2>2
    <2> QED BY <2>2, <2>3
  <1>8. \A b \in Buffers, t \in Slices :
          Reserved(lists, bound, avail, b, t) => Reserved(after, bound, left, b, t)
    BY <1>1, <1>2 DEF Reserved
  <1> QED BY <1>4, <1>5, <1>6, <1>7, <1>8 DEF ListsOwn

\* The steps that change nothing but the lists submitted and the free slices.
LEMMA GpuFrame ==
  ASSUME ContextInv, ListsOwn(Lists, phys, free)',
         \A b \in Buffers, s \in Slices :
           Reserved(Lists, phys, free, b, s) => Reserved(Lists, phys, free, b, s)',
         submitted' \in Seq(ListType), free' \in [Buffers -> SUBSET Slices],
         UNCHANGED <<csVars, callVars, streamVars, seqOf, mapped, phys, recording, deferred,
                     closing, usage>>
  PROVE  ContextInv'
  <1>0. TypeOK /\ StreamInv /\ SliceInv /\ FlushInv /\ SeqInv /\ CallInv /\ SyncInv
    BY DEF ContextInv
  <1>2. /\ csChunk' = csChunk /\ csSeqNum' = csSeqNum /\ csIsBusy' = csIsBusy
        /\ mapped' = mapped /\ phys' = phys /\ seqOf' = seqOf /\ usage' = usage
        /\ recording' = recording /\ deferred' = deferred
        /\ dispatched' = dispatched /\ executed' = executed /\ queued' = queued
        /\ chunk' = chunk /\ csPc' = csPc /\ ran' = ran /\ csStopped' = csStopped
        /\ ctxLock' = ctxLock /\ app' = app /\ ret' = ret /\ map' = map /\ closing' = closing
        /\ sync' = sync /\ seqArg' = seqArg
    BY DEF csVars, callVars, streamVars
  <1>3. Unexecuted' = Unexecuted
    BY <1>2 DEF Unexecuted
  <1>5. CsInv'
    BY <1>0, CsInvFrame DEF StreamInv
  <1>6. StreamInv'
    BY <1>0, <1>2, <1>5 DEF StreamInv
  <1>7. TypeOK'
    BY <1>0, <1>2, <1>5 DEF TypeOK, CsInv
  <1>8. SliceInv'
    <2>1. \A b \in Buffers, s \in Slices :
            Reserved(Lists, phys, free, b, s) => Reserved(Lists', phys', free', b, s)
      OBVIOUS
    <2>2. CommandsOwn(Unexecuted, Lists, phys, free)'
      BY <1>0, <1>3, <2>1 DEF SliceInv, CommandsOwn
    <2>3. Chained(Unexecuted, phys, mapped)'
      BY <1>0, <1>2, <1>3 DEF SliceInv, Chained
    <2>4. DeferredOwns'
      <3>1. DeferredOwns
        BY <1>0 DEF SliceInv
      <3> QED BY <1>2, <1>3, <2>1, <3>1 DEF DeferredOwns
    <2> QED BY <2>2, <2>3, <2>4 DEF SliceInv
  <1>9. FlushInv'
    BY <1>0, <1>2, <1>3 DEF FlushInv, EndsFlushed
  <1>10. SeqInv'
    BY <1>0, <1>2 DEF SeqInv, Tracked, UsesTracked
  <1>11. CallInv'
    BY <1>0, <1>2 DEF CallInv
  <1>12. SyncInv'
    BY <1>0, <1>2 DEF SyncInv, SyncGoal, SyncTarget, GetSequenceNumber, Tracked
  <1> QED BY <1>6, <1>7, <1>8, <1>9, <1>10, <1>11, <1>12 DEF ContextInv

\* The use counts of the oldest list are released.
LEMMA NotifyObjectsKeeps ==
  ASSUME ContextInv, NotifyObjects
  PROVE  ContextInv'
  <1>0. TypeOK /\ ListsOwn(Lists, phys, free)
    BY DEF ContextInv, SliceInv
  <1>1. /\ submitted # <<>> /\ submitted' = [submitted EXCEPT ![1] = Released(@)]
        /\ UNCHANGED <<csVars, callVars, streamVars, seqOf, sliceVars, recording, deferred,
                       closing, usage>>
    BY DEF NotifyObjects
  <1>2. phys' = phys /\ free' = free /\ mapped' = mapped /\ recording' = recording
    BY <1>1 DEF sliceVars
  <1>3. /\ submitted \in Seq(ListType) /\ recording \in ListType
        /\ Len(submitted) \in Nat \ {0} /\ submitted[1] \in ListType
    BY <1>0, <1>1 DEF TypeOK
  <1>4. /\ Released(submitted[1]) \in ListType /\ Released(submitted[1]).uses = {}
        /\ Released(submitted[1]).retired = submitted[1].retired
    BY <1>3 DEF Released, ListType
  <1>5. /\ submitted' \in Seq(ListType) /\ Len(submitted') = Len(submitted)
        /\ submitted'[1] = Released(submitted[1])
        /\ \A k \in 2..Len(submitted) : submitted'[k] = submitted[k]
    BY <1>1, <1>3, <1>4
  <1>6. /\ DOMAIN Lists' = 1..(Len(submitted) + 1) /\ Lists'[Len(submitted) + 1] = recording
        /\ \A k \in 1..Len(submitted) : Lists'[k] = submitted'[k]
    BY <1>2, <1>3, <1>5, AppendAt DEF Lists
  <1>7. /\ DOMAIN Lists = 1..(Len(submitted) + 1) /\ Lists[Len(submitted) + 1] = recording
        /\ \A k \in 1..Len(submitted) : Lists[k] = submitted[k]
    BY <1>0, ListsShape
  <1>8. /\ DOMAIN Lists' = DOMAIN Lists
        /\ \A k \in DOMAIN Lists : Lists'[k].retired = Lists[k].retired
        /\ \A k \in DOMAIN Lists : \A u \in Lists'[k].uses :
             u \in Lists[k].uses \/ u.slice = phys[u.buf]
    <2>1. ASSUME NEW k \in 1..(Len(submitted) + 1)
          PROVE  /\ Lists'[k].retired = Lists[k].retired
                 /\ Lists'[k].uses = {} \/ Lists'[k].uses = Lists[k].uses
      <3>1. CASE k = 1
        BY <1>3, <1>4, <1>5, <1>6, <1>7, <3>1
      <3>2. CASE k \in 2..Len(submitted)
        BY <1>3, <1>5, <1>6, <1>7, <3>2
      <3>3. CASE k = Len(submitted) + 1
        BY <1>6, <1>7, <3>3
      <3> QED BY <1>3, <3>1, <3>2, <3>3
    <2> QED BY <1>6, <1>7, <2>1
  <1>9. /\ ListsOwn(Lists', phys, free)
        /\ \A b, s : Retired(Lists', b, s) <=> Retired(Lists, b, s)
    BY ONLY <1>0, <1>8, OwnUses
  <1>10. \A b \in Buffers, s \in Slices :
           Reserved(Lists, phys, free, b, s) => Reserved(Lists', phys', free', b, s)
    BY <1>2, <1>9 DEF Reserved
  <1>11. free \in [Buffers -> SUBSET Slices]
    BY <1>0, SliceTypes
  <1> QED BY <1>1, <1>2, <1>5, <1>9, <1>10, <1>11, GpuFrame

\* The oldest list is reset.
LEMMA ResetListKeeps ==
  ASSUME ContextInv, ResetList
  PROVE  ContextInv'
  <1>0. TypeOK /\ ListsOwn(Lists, phys, free)
    BY DEF ContextInv, SliceInv
  <1> DEFINE n == Len(submitted)
  <1>1. /\ submitted # <<>> /\ submitted' = Tail(submitted)
        /\ free' = [b \in Buffers |->
                free[b] \cup {r.slice : r \in {x \in Head(submitted).retired : x.buf = b}}]
        /\ UNCHANGED <<csVars, callVars, streamVars, seqOf, mapped, phys, recording,
                       deferred, closing, usage>>
    BY DEF ResetList
  <1>2. /\ submitted \in Seq(ListType) /\ recording \in ListType
        /\ phys \in [Buffers -> Slices] /\ free \in [Buffers -> SUBSET Slices]
    BY <1>0, SliceTypes DEF TypeOK
  <1>3. /\ Tail(submitted) \in Seq(ListType) /\ Head(submitted) \in ListType
        /\ Head(submitted) = submitted[1] /\ n \in Nat \ {0} /\ Len(Tail(submitted)) = n - 1
        /\ \A i \in 1..(n - 1) : Tail(submitted)[i] = submitted[i + 1]
    BY <1>1, <1>2, TailAt
  <1>4. Lists' = Append(Tail(submitted), recording)
    BY <1>1 DEF Lists
  <1>5. /\ DOMAIN Lists' = 1..n /\ Lists'[n] = recording
        /\ \A i \in 1..(n - 1) : Lists'[i] = submitted[i + 1]
    <2>1. /\ DOMAIN Lists' = 1..((n - 1) + 1) /\ Lists'[(n - 1) + 1] = recording
          /\ \A i \in 1..(n - 1) : Lists'[i] = Tail(submitted)[i]
      BY <1>2, <1>3, <1>4, AppendAt
    <2> QED BY <1>3, <2>1
  <1>6. /\ DOMAIN Lists = 1..(n + 1) /\ Lists[n + 1] = recording
        /\ \A k \in 1..n : Lists[k] = submitted[k]
    BY <1>0, ListsShape
  <1>7. \A k \in 1..n : Lists'[k] = Lists[k + 1]
    <2> SUFFICES ASSUME NEW k \in 1..n PROVE Lists'[k] = Lists[k + 1]
      OBVIOUS
    <2>1. CASE k = n
      BY <1>5, <1>6, <2>1
    <2>2. CASE k # n
      <3>0. n \in Nat
        BY <1>3
      <3> HIDE DEF n
      <3>1. k \in 1..(n - 1) /\ k + 1 \in 1..n
        BY <2>2, <3>0
      <3> QED BY <1>5, <1>6, <3>1
    <2> QED BY <2>1, <2>2
  <1>8. /\ free' \in [Buffers -> SUBSET Slices]
        /\ \A b \in Buffers, t \in Slices :
             t \in free'[b] => t \in free[b] \/ [buf |-> b, slice |-> t] \in Lists[1].retired
    <2>1. \A r \in Head(submitted).retired :
            r.slice \in Slices /\ r = [buf |-> r.buf, slice |-> r.slice]
      BY <1>3 DEF ListType
    <2>2. Lists[1] = Head(submitted)
      BY <1>3, <1>6
    <2>3. \A b \in Buffers : free'[b] =
            free[b] \cup {r.slice : r \in {x \in Head(submitted).retired : x.buf = b}}
      BY <1>1
    <2>4. \A b \in Buffers : free'[b] \subseteq Slices
      BY <1>2, <2>1, <2>3
    <2>5. ASSUME NEW b \in Buffers, NEW t \in Slices, t \in free'[b], t \notin free[b]
          PROVE  [buf |-> b, slice |-> t] \in Lists[1].retired
      <3>1. PICK r \in Head(submitted).retired : r.buf = b /\ r.slice = t
        BY <2>3, <2>5
      <3> QED BY <2>1, <2>2, <3>1
    <2>6. free' \in [Buffers -> SUBSET Slices]
      BY <1>1, <2>3, <2>4
    <2> QED BY <2>5, <2>6
  <1>9. n \in Nat /\ \A b \in Buffers : phys[b] \in Slices
    BY <1>2, <1>3
  <1> HIDE DEF n
  <1>10. /\ ListsOwn(Lists', phys, free')
         /\ \A b \in Buffers, t \in Slices :
              Reserved(Lists, phys, free, b, t) => Reserved(Lists', phys, free', b, t)
    BY ONLY <1>0, <1>5, <1>6, <1>7, <1>8, <1>9, OwnReset
  <1>11. submitted' \in Seq(ListType) /\ phys' = phys
    BY <1>1, <1>3
  <1> QED BY <1>1, <1>8, <1>10, <1>11, GpuFrame

\* Nothing happens.
LEMMA StutterKeeps ==
  ASSUME ContextInv, UNCHANGED vars
  PROVE  ContextInv'
  <1>1. /\ UNCHANGED <<csVars, callVars, streamVars, seqOf, mapped, phys, recording, deferred,
                       closing, usage>>
        /\ submitted' = submitted /\ free' = free /\ phys' = phys /\ recording' = recording
    BY DEF vars, sliceVars, listVars
  <1>2. /\ submitted \in Seq(ListType) /\ free \in [Buffers -> SUBSET Slices]
        /\ ListsOwn(Lists, phys, free)
    BY SliceTypes DEF ContextInv, TypeOK, SliceInv
  <1>3. Lists' = Lists
    BY <1>1 DEF Lists
  <1>4. ListsOwn(Lists', phys', free')
    BY <1>1, <1>2, <1>3
  <1>5. \A b \in Buffers, s \in Slices :
          Reserved(Lists, phys, free, b, s) => Reserved(Lists', phys', free', b, s)
    BY <1>1, <1>3
  <1> QED BY <1>1, <1>2, <1>4, <1>5, GpuFrame

-----------------------------------------------------------------------------
(* The invariant.                                                          *)

\* It holds of a new context, of which all is empty.
LEMMA ContextInvInit == Init => ContextInv
  <1> SUFFICES ASSUME Init PROVE ContextInv
    OBVIOUS
  <1>1. CsInv
    BY CsInvInit DEF Init
  <1>2. PICK s \in Slices :
       /\ mapped = [b \in Buffers |-> s]
       /\ phys = mapped
       /\ free = [b \in Buffers |-> Slices \ {s}]
    BY DEF Init
  <1>3. /\ dispatched = 0 /\ executed = 0 /\ queued = <<>> /\ chunk = <<>> /\ csStopped = FALSE
        /\ csPc = "loop" /\ \A c \in Callers : sync[c] = "idle"
        /\ ctxLock = Free /\ closing = FALSE /\ csIsBusy = FALSE /\ csSeqNum = 0
        /\ csChunk = <<>> /\ recording = NewList /\ submitted = <<>> /\ deferred = <<>>
        /\ app = [a \in Callers |-> "ready"] /\ usage \in [Buffers -> Usages]
        /\ ret = [a \in Callers |-> "ready"] /\ map = [a \in Callers |-> NoMap]
        /\ seqOf = [b \in Buffers |-> 0]
    BY DEF Init, CsInit
  <1>4. /\ <<>> \in Seq(Seq(Issued)) /\ <<>> \in Seq(Issued) /\ <<>> \in Seq(Command)
        /\ <<>> \in Seq(Seq(Command)) /\ <<>> \in Seq(ListType) /\ NewList \in ListType
    BY DEF NewList, ListType
  <1>5. Unexecuted = <<>>
    <2>1. FlattenSeq(queued) = <<>>
      BY <1>3, FlattenEmpty
    <2> QED BY <1>3, <2>1 DEF Unexecuted
  <1>6. /\ DOMAIN Lists = 1..1 /\ Lists[1] = NewList
    <2>1. Lists = <<NewList>>
      BY <1>3, AppendPair DEF Lists
    <2> QED BY <2>1
  <1>7. NewList.uses = {} /\ NewList.retired = {}
    BY DEF NewList
  <1>8. TypeOK
    <2>1. NoMap \in [buf : Buffers, type : MapType, noWait : BOOLEAN]
      BY ContextAssumption DEF NoMap, MapType
    <2> QED BY <1>1, <1>2, <1>3, <1>4, <2>1 DEF TypeOK, CsInv
  <1>9. StreamInv
    BY <1>1, <1>3, <1>4 DEF StreamInv
  <1>10. SliceInv
    <2>1. ListsOwn(Lists, phys, free)
      <3>1. \A k \in DOMAIN Lists : k = 1 /\ Lists[k].uses = {} /\ Lists[k].retired = {}
        BY <1>6, <1>7
      <3>2. \A b \in Buffers : phys[b] = s /\ phys[b] \notin free[b]
        BY <1>2
      <3>3. \A b, t : ~Retired(Lists, b, t)
        BY <3>1 DEF Retired
      <3>4. RetiredOnce(Lists) /\ UsesCovered(Lists, phys)
        BY <3>1 DEF RetiredOnce, UsesCovered
      <3> QED BY <3>2, <3>3, <3>4 DEF ListsOwn
    <2>2. CommandsOwn(<<>>, Lists, phys, free)
      BY DEF CommandsOwn, Renamed, RenamedOnce
    <2>3. Chained(<<>>, phys, mapped)
      <3>1. DOMAIN <<>> = {} /\ Len(<<>>) + 1 = 1
        OBVIOUS
      <3>2. \A b \in Buffers : BoundAt(<<>>, phys[b], b, 1, mapped[b])
        BY <1>2, BoundAtFirst
      <3> QED BY <3>1, <3>2 DEF Chained
    <2> QED BY <1>3, <1>5, <2>1, <2>2, <2>3 DEF SliceInv, DeferredOwns
  <1>11. FlushInv
    BY <1>3, <1>5 DEF FlushInv, EndsFlushed
  <1>12. SeqInv
    BY <1>3 DEF SeqInv, UsesTracked
  <1>13. CallInv
    BY <1>3, ContextAssumption DEF CallInv
  <1>14. SyncInv
    BY <1>3 DEF SyncInv
  <1> QED BY <1>8, <1>9, <1>10, <1>11, <1>12, <1>13, <1>14 DEF ContextInv

\* Every step keeps it.
LEMMA ContextInvStep == ContextInv /\ [Next]_vars => ContextInv'
  <1> SUFFICES ASSUME ContextInv, [Next]_vars PROVE ContextInv'
    OBVIOUS
  <1>1. ASSUME NEW a \in Callers,
               \/ Draw(a) \/ MapDiscard(a) \/ FlushContext(a) \/ ExecuteCommandList(a)
               \/ Map(a) \/ Close(a)
        PROVE  ContextInv'
    BY <1>1, DrawKeeps, MapDiscardKeeps, FlushContextKeeps, ExecuteCommandListKeeps,
       MapKeeps, CloseKeeps
  <1>2. ASSUME NEW a \in Callers, CallStep(a)
        PROVE  ContextInv'
    BY <1>2, FlushForSyncKeeps, SynchronizeCsThreadKeeps, WaitForCsThreadKeeps,
       InvalidatePreserveKeeps, NoInvalidateKeeps, PollIdleKeeps, ReturnKeeps, PollBusyKeeps,
       StopKeeps, JoinKeeps DEF CallStep
  <1>3. CASE RecordDeferred
    BY <1>3, RecordDeferredKeeps
  <1>4. CASE CsStep
    BY <1>4, IdlesKeeps, ExecuteCommandKeeps DEF CsStep
  <1>5. CASE GpuStep
    BY <1>5, NotifyObjectsKeeps, ResetListKeeps DEF GpuStep
  <1>6. CASE Done \/ UNCHANGED vars
    BY <1>6, StutterKeeps DEF Done
  <1> QED BY <1>1, <1>2, <1>3, <1>4, <1>5, <1>6 DEF Next

\* The commands, the slices, the sequence numbers and the callers agree at all
\* times: the invariant the other theorems rest on.
THEOREM ContextInvariant == Spec => []ContextInv
  BY ContextInvInit, ContextInvStep, PTL DEF Spec

-----------------------------------------------------------------------------
(* What the invariant says.                                                *)

\* Every variable keeps its type, and what is dispatched means a slice.
THEOREM ContextTypes == Spec => []TypeOK
  <1>1. ContextInv => TypeOK
    BY DEF ContextInv
  <1> QED BY <1>1, ContextInvariant, PTL

\* A use of a list in flight, and the list it is in.
LEMMA UseInList ==
  ASSUME TypeOK, NEW u \in UsesOfLists
  PROVE  /\ u.buf \in Buffers /\ u.slice \in Slices /\ u.access \in Access
         /\ \E k \in DOMAIN Lists : u \in Lists[k].uses
  <1>1. /\ Len(submitted) \in Nat /\ DOMAIN submitted = 1..Len(submitted)
        /\ DOMAIN Lists = 1..(Len(submitted) + 1) /\ Lists[Len(submitted) + 1] = recording
        /\ \A k \in 1..Len(submitted) : Lists[k] = submitted[k] /\ submitted[k] \in ListType
        /\ recording \in ListType
    BY ListsShape
  <1>2. CASE u \in recording.uses
    <2>1. Len(submitted) + 1 \in DOMAIN Lists
      BY <1>1
    <2>2. u \in [buf : Buffers, slice : Slices, access : Access]
      BY <1>1, <1>2, ListFields
    <2> QED BY <1>1, <1>2, <2>1, <2>2
  <1>3. CASE u \in UNION {l.uses : l \in Pending(submitted)}
    <2>1. PICK k \in 1..Len(submitted) : u \in submitted[k].uses
      BY <1>1, <1>3 DEF Pending
    <2>2. k \in DOMAIN Lists /\ Lists[k] = submitted[k]
      BY <1>1
    <2>3. u \in [buf : Buffers, slice : Slices, access : Access]
      BY <1>1, <2>1, ListFields
    <2> QED BY <2>1, <2>2, <2>3
  <1> QED BY <1>2, <1>3 DEF UsesOfLists

\* No slice in flight can be allocated.
LEMMA InFlight == ContextInv => InFlightIsTaken
  <1> SUFFICES ASSUME ContextInv PROVE InFlightIsTaken
    OBVIOUS
  <1>0. TypeOK /\ ListsOwn(Lists, phys, free) /\ phys \in [Buffers -> Slices]
    BY SliceTypes DEF ContextInv, SliceInv
  <1>1. ASSUME NEW u \in UsesOfLists PROVE u.slice \notin free[u.buf]
    <2>1. /\ u.buf \in Buffers /\ u.slice \in Slices
          /\ \E k \in DOMAIN Lists : u \in Lists[k].uses
      BY <1>0, UseInList
    <2>2. u.slice = phys[u.buf] \/ Retired(Lists, u.buf, u.slice)
      BY <1>0, <2>1 DEF ListsOwn, UsesCovered, Retired
    <2> QED BY <1>0, <2>1, <2>2 DEF ListsOwn
  <1>2. ASSUME NEW l \in {recording} \cup Pending(submitted), NEW r \in l.retired
        PROVE  r.buf \in Buffers => r.slice \notin free[r.buf]
    <2>1. /\ Len(submitted) \in Nat /\ DOMAIN submitted = 1..Len(submitted)
          /\ DOMAIN Lists = 1..(Len(submitted) + 1) /\ Lists[Len(submitted) + 1] = recording
          /\ \A k \in 1..Len(submitted) : Lists[k] = submitted[k] /\ submitted[k] \in ListType
          /\ recording \in ListType
      BY <1>0, ListsShape
    <2>2. PICK k \in DOMAIN Lists : Lists[k] = l /\ l \in ListType
      <3>1. CASE l = recording
        BY <2>1, <3>1
      <3>2. CASE l \in Pending(submitted)
        <4>1. PICK k \in 1..Len(submitted) : l = submitted[k]
          BY <2>1, <3>2 DEF Pending
        <4>2. k \in DOMAIN Lists /\ Lists[k] = l /\ l \in ListType
          BY <2>1, <4>1
        <4> QED BY <4>2
      <3> QED BY <3>1, <3>2
    <2>3. r.buf \in Buffers /\ r.slice \in Slices /\ r = [buf |-> r.buf, slice |-> r.slice]
      BY <2>2 DEF ListType
    <2>4. Retired(Lists, r.buf, r.slice)
      BY <2>2, <2>3 DEF Retired
    <2> QED BY <1>0, <2>3, <2>4 DEF ListsOwn
  <1>3. \A b \in Buffers : phys[b] \notin free[b]
    BY <1>0 DEF ListsOwn
  <1> QED BY <1>1, <1>2, <1>3 DEF InFlightIsTaken

\* A slice that can be allocated is bound by no buffer and used by no command
\* list, whatever deferred contexts do.
THEOREM SlicesAreTaken == Spec => []InFlightIsTaken
  BY InFlight, ContextInvariant, PTL

\* The commands that are left.
LEMMA UnexecutedType ==
  ASSUME ContextInv
  PROVE  /\ Unexecuted \in Seq(Issued)
         /\ Len(Unexecuted) \in Nat /\ DOMAIN Unexecuted = 1..Len(Unexecuted)
         /\ chunk # <<>> => Unexecuted # <<>> /\ Unexecuted[1] = Head(chunk)
  <1>1. /\ chunk \in Seq(Issued) /\ csChunk \in Seq(Issued) /\ FlattenSeq(queued) \in Seq(Issued)
    BY BeforeType DEF ContextInv, StreamInv
  <1> DEFINE q == FlattenSeq(queued)
             v == (chunk \o q) \o csChunk
  <1>2. Unexecuted = v /\ q \in Seq(Issued)
    BY <1>1 DEF Unexecuted
  <1> HIDE DEF q
  <1>3. v \in Seq(Issued)
    BY <1>1, <1>2
  <1>4. ASSUME NEW x \in Seq(Issued), x # <<>>, NEW y \in Seq(Issued)
        PROVE  /\ x \o y \in Seq(Issued) /\ x \o y # <<>> /\ (x \o y)[1] = x[1] /\ Head(x) = x[1]
    BY <1>4
  <1>5. ASSUME chunk # <<>> PROVE v # <<>> /\ v[1] = Head(chunk)
    <2>1. /\ chunk \o q \in Seq(Issued) /\ chunk \o q # <<>> /\ (chunk \o q)[1] = chunk[1]
          /\ Head(chunk) = chunk[1]
      BY <1>1, <1>2, <1>4, <1>5
    <2>2. v # <<>> /\ v[1] = (chunk \o q)[1]
      BY <1>1, <1>4, <2>1
    <2> QED BY <2>1, <2>2
  <1> HIDE DEF v
  <1> QED BY <1>2, <1>3, <1>5

\* A command works on the slice that was mapped when it was issued, not on one
\* of a later discard.
THEOREM UsesAreOrdered == Spec => []UsesIssuedSlice
  <1>1. ContextInv => UsesIssuedSlice
    <2> SUFFICES ASSUME ContextInv, chunk # <<>>, Head(chunk).op = "use",
                        usage[Head(chunk).buf] # "shared"
                 PROVE  phys[Head(chunk).buf] = Head(chunk).slice
      BY DEF UsesIssuedSlice
    <2> DEFINE u == Unexecuted
    <2>1. u \in Seq(Issued) /\ Len(u) \in Nat /\ DOMAIN u = 1..Len(u) /\ u # <<>>
          /\ u[1] = Head(chunk) /\ Chained(u, phys, mapped)
      BY UnexecutedType DEF ContextInv, SliceInv
    <2> HIDE DEF u
    <2>2. 1 \in DOMAIN u /\ u[1] \in Issued
      BY <2>1
    <2>3. u[1].op = "use" /\ u[1].buf \in Buffers /\ usage[u[1].buf] # "shared"
      BY <2>1, <2>2, IssuedFields
    <2>4. BoundAt(u, phys[u[1].buf], u[1].buf, 1, u[1].slice)
      BY <2>1, <2>2, <2>3 DEF Chained
    <2>5. u[1].slice = phys[u[1].buf]
      BY <2>4, BoundAtFirst
    <2> QED BY <2>1, <2>5
  <1> QED BY <1>1, ContextInvariant, PTL

\* No free slice is named by a command.
LEMMA FreeSlices == ContextInv => FreeSlicesAreIdle
  <1> DEFINE u == Unexecuted
  <1> SUFFICES ASSUME ContextInv, NEW c \in Pending(u), c.op \in {"use", "rename"},
                      usage[c.buf] # "shared"
               PROVE  c.slice \notin free[c.buf]
    BY DEF FreeSlicesAreIdle
  <1>1. u \in Seq(Issued) /\ Len(u) \in Nat /\ DOMAIN u = 1..Len(u)
        /\ Chained(u, phys, mapped) /\ CommandsOwn(u, Lists, phys, free)
        /\ ListsOwn(Lists, phys, free)
    BY UnexecutedType DEF ContextInv, SliceInv
  <1> HIDE DEF u
  <1>2. PICK p \in 1..Len(u) : c = u[p]
    BY <1>1 DEF Pending
  <1>3. c \in Issued
    BY <1>1, <1>2
  <1>4. c.buf \in Buffers /\ c.slice \in Slices
    BY <1>3, IssuedFields
  <1>5. \A s \in Slices : Renamed(u, c.buf, s) => s \notin free[c.buf]
    BY <1>1, <1>4 DEF CommandsOwn, Reserved
  <1>6. CASE c.op = "rename"
    <2>1. Renamed(u, c.buf, c.slice)
      BY <1>1, <1>2, <1>3, <1>6, IssuedFields DEF Renamed
    <2> QED BY <1>4, <1>5, <2>1
  <1>7. CASE c.op = "use"
    <2>1. BoundAt(u, phys[c.buf], c.buf, p, c.slice)
      BY <1>1, <1>2, <1>4, <1>7 DEF Chained
    <2>2. p \in 1..(Len(u) + 1)
      BY <1>1
    <2>3. c.slice = phys[c.buf] \/ Renamed(u, c.buf, c.slice)
      BY ONLY <1>1, <2>1, <2>2, BoundIsRenamed
    <2> QED BY <1>1, <1>4, <1>5, <2>3 DEF ListsOwn
  <1> QED BY <1>6, <1>7

\* No command that is recorded and not executed names a slice a discard may take.
THEOREM FreeSlicesUnnamed == Spec => []FreeSlicesAreIdle
  BY FreeSlices, ContextInvariant, PTL

\* The application sees the slice commands will use, when all that is recorded
\* has been executed.
THEOREM MappedAgrees == Spec => []MappedIsFinal
  <1>1. ContextInv => MappedIsFinal
    <2> SUFFICES ASSUME ContextInv, NEW b \in Buffers, usage[b] # "shared"
                 PROVE  mapped[b] = FinalSlice(b)
      BY DEF MappedIsFinal
    <2> DEFINE u == Unexecuted
               renames == {i \in DOMAIN u : u[i].op = "rename" /\ u[i].buf = b}
    <2>1. u \in Seq(Issued) /\ Len(u) \in Nat /\ DOMAIN u = 1..Len(u) /\ Chained(u, phys, mapped)
      BY UnexecutedType DEF ContextInv, SliceInv
    <2>2. FinalSlice(b) = IF renames = {} THEN phys[b]
                          ELSE u[CHOOSE i \in renames : \A j \in renames : j <= i].slice
      BY DEF FinalSlice
    <2> HIDE DEF u
    <2>3. BoundAt(u, phys[b], b, Len(u) + 1, mapped[b])
      BY <2>1 DEF Chained
    <2>4. \A i \in 1..Len(u) : i \in renames <=> IsRename(u[i], b)
      BY <2>1 DEF IsRename
    <2>5. renames \subseteq 1..Len(u)
      BY <2>1
    <2> HIDE DEF renames
    <2>6. CASE mapped[b] = phys[b] /\ \A i \in 1..((Len(u) + 1) - 1) : ~IsRename(u[i], b)
      <3>1. renames = {}
        BY <2>1, <2>4, <2>5, <2>6
      <3> QED BY <2>2, <2>6, <3>1
    <2>7. CASE \E i \in 1..((Len(u) + 1) - 1) :
       /\ IsRename(u[i], b) /\ u[i].slice = mapped[b]
       /\ \A j \in (i + 1)..((Len(u) + 1) - 1) : ~IsRename(u[j], b)
      <3>1. PICK i \in 1..Len(u) : /\ IsRename(u[i], b) /\ u[i].slice = mapped[b]
                                   /\ \A j \in (i + 1)..Len(u) : ~IsRename(u[j], b)
        BY <2>1, <2>7
      <3>2. i \in renames /\ \A j \in renames : j <= i
        BY <2>1, <2>4, <2>5, <3>1
      <3>3. \A k \in renames : (\A j \in renames : j <= k) => k = i
        BY <2>1, <2>5, <3>2
      <3>4. (CHOOSE k \in renames : \A j \in renames : j <= k) = i
        BY <3>2, <3>3
      <3> QED BY <2>2, <3>1, <3>2, <3>4
    <2> QED BY <2>3, <2>6, <2>7 DEF BoundAt
  <1> QED BY <1>1, ContextInvariant, PTL

\* Everything dispatched is counted, so nothing is left.
LEMMA AllExecuted ==
  ASSUME ContextInv, executed >= dispatched, csChunk = <<>>
  PROVE  Unexecuted = <<>>
  <1>0. TypeOK /\ StreamInv
    BY DEF ContextInv
  <1>1. /\ csSeqNum \in Nat /\ ran \in Nat /\ executed \in Nat /\ Len(queued) \in Nat
        /\ executed <= ran /\ ran <= csSeqNum
        /\ csSeqNum = ran + Len(queued) + (IF csPc = "execute" THEN 1 ELSE 0)
    BY <1>0, DispatchedNumbers
  <1>2. csSeqNum = dispatched
    BY <1>0 DEF StreamInv
  <1>3. Len(queued) = 0 /\ csPc # "execute"
    BY <1>1, <1>2
  <1>4. queued = <<>> /\ chunk = <<>>
    BY <1>0, <1>3, BeforeType DEF StreamInv
  <1> QED BY <1>4, FlattenEmpty DEF Unexecuted

\* When the thread has exited nothing that was recorded is left behind.
THEOREM NothingIsDropped == Spec => []NothingDropped
  <1>1. ContextInv => NothingDropped
    <2> SUFFICES ASSUME ContextInv, csPc = "exited"
                 PROVE  Unexecuted = <<>> /\ recording = NewList
      BY DEF NothingDropped
    <2>1. TypeOK /\ StreamInv /\ FlushInv /\ CallInv /\ SyncInv
      BY DEF ContextInv
    <2>2. csStopped
      BY <2>1 DEF StreamInv
    <2>3. closing /\ executed = dispatched /\ csChunk = <<>> /\ ~csIsBusy
      BY <2>1, <2>2 DEF SyncInv, CallInv
    <2>4. executed >= dispatched
      BY <2>1, <2>3 DEF TypeOK, CsTypeOK
    <2>5. Unexecuted = <<>>
      BY <2>3, <2>4, AllExecuted
    <2> QED BY <2>1, <2>3, <2>5 DEF FlushInv, EndsFlushed
  <1> QED BY <1>1, ContextInvariant, PTL

\* A command that is left is in a chunk.
LEMMA InSomeChunk ==
  ASSUME ContextInv, NEW c \in Pending(Unexecuted)
  PROVE  \/ \E j \in DOMAIN chunk : c = chunk[j]
         \/ \E i \in DOMAIN queued : \E j \in DOMAIN queued[i] : c = queued[i][j]
         \/ \E j \in DOMAIN csChunk : c = csChunk[j]
  <1>1. /\ chunk \in Seq(Issued) /\ csChunk \in Seq(Issued) /\ queued \in Seq(Seq(Issued))
        /\ FlattenSeq(queued) \in Seq(Issued)
    BY BeforeType DEF ContextInv, StreamInv
  <1> DEFINE q == FlattenSeq(queued)
  <1>2. /\ q \in Seq(Issued) /\ Unexecuted = (chunk \o q) \o csChunk
        /\ \A x \in Entries(q) : \E i \in DOMAIN queued : x \in Entries(queued[i])
    BY <1>1, FlattenEntries DEF Unexecuted
  <1> HIDE DEF q
  <1>3. chunk \o q \in Seq(Issued) /\ Entries(chunk \o q) = Entries(chunk) \cup Entries(q)
    BY <1>1, <1>2, EntriesConcat
  <1>4. Entries((chunk \o q) \o csChunk) = Entries(chunk \o q) \cup Entries(csChunk)
    <2>1. ASSUME NEW x \in Seq(Issued)
          PROVE  Entries(x \o csChunk) = Entries(x) \cup Entries(csChunk)
      BY <1>1, <2>1, EntriesConcat
    <2> QED BY <1>3, <2>1
  <1>5. c \in Entries((chunk \o q) \o csChunk)
    BY <1>2 DEF Pending, Entries
  <1>6. \/ c \in Entries(chunk) \/ c \in Entries(csChunk)
        \/ \E i \in DOMAIN queued : c \in Entries(queued[i])
    BY <1>2, <1>3, <1>4, <1>5
  <1> QED BY <1>6 DEF Entries

\* When the number of a tracked buffer is reached, no command uses the buffer.
LEMMA TrackedExecuted ==
  ASSUME ContextInv, NEW b \in Tracked, executed >= seqOf[b]
  PROVE  \A c \in Pending(Unexecuted) : ~(c.op = "use" /\ c.buf = b)
  <1>0. TypeOK /\ StreamInv /\ SeqInv
    BY DEF ContextInv
  <1>1. /\ csSeqNum \in Nat /\ ran \in Nat /\ executed \in Nat
        /\ executed <= ran /\ ran <= csSeqNum
        /\ \A i \in DOMAIN queued : i \in Nat
    BY <1>0, DispatchedNumbers
  <1>2. seqOf[b] \in Nat
    BY <1>0, SliceTypes DEF Tracked
  <1>3. ~UsesTracked(chunk, b)
    BY <1>0, <1>1, <1>2 DEF SeqInv
  <1>4. ~UsesTracked(csChunk, b)
    BY <1>0, <1>1, <1>2 DEF SeqInv
  <1>5. ASSUME NEW i \in DOMAIN queued PROVE ~UsesTracked(queued[i], b)
    <2>1. DOMAIN queued = 1..Len(queued) /\ Len(queued) \in Nat
      BY <1>0, BeforeType
    <2>2. i \in Nat /\ i >= 1
      BY <2>1
    <2>3. UsesTracked(queued[i], b) => seqOf[b] >= i + ran + (IF csPc = "execute" THEN 1 ELSE 0)
      BY <1>0 DEF SeqInv
    <2> QED BY <1>1, <1>2, <2>2, <2>3
  <1>6. ASSUME NEW c \in Pending(Unexecuted), c.op = "use", c.buf = b
        PROVE  FALSE
    BY <1>3, <1>4, <1>5, <1>6, InSomeChunk DEF UsesTracked
  <1> QED BY <1>6

\* What a returning Map has waited for.
LEMMA ReturnIsIdle ==
  ASSUME ContextInv, NEW a \in Callers, MapIdle(a) \/ WaitForResource(a),
         NEW u \in PendingUses, u.buf = map[a].buf
  PROVE  map[a].type = "READ" /\ u.access = "R"
  <1>0. TypeOK /\ CallInv /\ SyncInv
    BY DEF ContextInv
  <1>1. /\ app[a] \in {"pollAgain", "wait"} /\ sync[a] = "idle"
        /\ ~IsInUse(map[a].buf, WaitAccess(a))
    BY DEF MapIdle, WaitForResource, Back
  <1>2. map[a].buf \in Buffers /\ map[a].type \in MapType
    BY <1>0, CallTypes
  <1>3. ~closing
    BY <1>1, Alone
  <1>4. executed >= SyncGoal(a)
    BY <1>0, <1>1 DEF SyncInv
  <1>5. \A c \in Pending(Unexecuted) : ~(c.op = "use" /\ c.buf = map[a].buf)
    <2>1. CASE map[a].buf \in Tracked
      <3>1. SyncTarget(a) = seqOf[map[a].buf] /\ seqOf[map[a].buf] \in Nat
        BY <1>0, <1>2, <1>3, <2>1, SliceTypes DEF SyncTarget, GetSequenceNumber
      <3>2. executed >= seqOf[map[a].buf]
        BY <1>4, <3>1, CsAssumption DEF SyncGoal
      <3> QED BY <2>1, <3>2, TrackedExecuted
    <2>2. CASE map[a].buf \notin Tracked
      <3>1. SyncTarget(a) = All
        BY <1>3, <2>2 DEF SyncTarget, GetSequenceNumber
      <3>2. executed >= dispatched
        BY <1>4, <3>1 DEF SyncGoal
      <3>3. csChunk = <<>>
        BY <1>0, <1>1, <3>1 DEF SyncInv
      <3>4. Unexecuted = <<>>
        BY <3>2, <3>3, AllExecuted
      <3> QED BY <3>4 DEF Pending
    <2> QED BY <2>1, <2>2
  <1>6. u \in UsesOfLists
    BY <1>5 DEF PendingUses
  <1>7. u.access \in Access
    BY <1>0, <1>6, UseInList
  <1>8. ~(WaitAccess(a) = "R" \/ u.access = "W")
    BY <1>1, <1>6 DEF IsInUse
  <1> QED BY <1>2, <1>7, <1>8 DEF WaitAccess, MapType, Access

\* What a discard gives out was free.
LEMMA DiscardTakesFree ==
  ASSUME ContextInv, [Next]_vars, NEW b \in Buffers, mapped'[b] # mapped[b]
  PROVE  mapped'[b] \in free[b]
  <1>0. TypeOK /\ mapped \in [Buffers -> Slices]
    BY SliceTypes DEF ContextInv
  <1>1. ASSUME NEW d \in Buffers, NEW s \in Slices, AllocSlice(d, s), mapped' = DiscardSlice(d, s)
        PROVE  mapped'[b] \in free[b]
    <2>1. mapped' = [mapped EXCEPT ![d] = s] /\ s \in free[d]
      BY <1>1 DEF DiscardSlice, AllocSlice
    <2> QED BY <1>0, <2>1
  <1>2. \/ mapped' = mapped
        \/ \E a \in Callers : MapDiscard(a) \/ InvalidatePreserve(a)
    BY DEF Next, Draw, FlushContext, ExecuteCommandList, Map, Close, CallStep, FlushForSync,
           SynchronizeCsThread, WaitForCsThread, NoInvalidate, PollIdle, MapIdle, PollBusy,
           WaitForResource, Stop, Join, RecordDeferred, CsStep, Idles, ExecuteCommand,
           GpuStep, NotifyObjects, ResetList, Done, vars, sliceVars
  <1>3. ASSUME NEW a \in Callers, MapDiscard(a) PROVE mapped'[b] \in free[b]
    BY <1>1, <1>3 DEF MapDiscard
  <1>4. ASSUME NEW a \in Callers, InvalidatePreserve(a) PROVE mapped'[b] \in free[b]
    <2>1. map[a].buf \in Buffers
      BY <1>0, CallTypes
    <2> QED BY <1>1, <1>4, <2>1 DEF InvalidatePreserve
  <1> QED BY <1>2, <1>3, <1>4

\* And what is free, no work that is pending is on.
LEMMA FreeIsIdle ==
  ASSUME ContextInv, NEW b \in Buffers, usage[b] # "shared", NEW u \in PendingUses, u.buf = b
  PROVE  u.slice \notin free[b]
  <1>1. InFlightIsTaken /\ FreeSlicesAreIdle
    BY InFlight, FreeSlices
  <1>2. CASE u \in UsesOfLists
    BY <1>1, <1>2 DEF InFlightIsTaken
  <1>3. CASE u \in {[buf |-> c.buf, slice |-> c.slice, access |-> c.access] :
                      c \in {x \in Pending(Unexecuted) : x.op = "use"}}
    <2>1. PICK c \in Pending(Unexecuted) : c.op = "use" /\ u.buf = c.buf /\ u.slice = c.slice
      BY <1>3
    <2> QED BY <1>1, <2>1 DEF FreeSlicesAreIdle
  <1> QED BY <1>2, <1>3 DEF PendingUses

\* Map returns a slice that conflicting work has left, and a discard gives out
\* one that no work is on.
THEOREM MapIsIdle == Spec => MapReturnsIdle
  <1>1. ContextInv /\ [Next]_vars =>
     [/\ \A a \in Callers :
          MapIdle(a) \/ WaitForResource(a)
          => \A u \in PendingUses :
               u.buf = map[a].buf /\ u.slice = mapped[u.buf] /\ usage[u.buf] # "shared"
               => map[a].type = "READ" /\ u.access = "R"
      /\ \A b \in Buffers :
          mapped'[b] # mapped[b] /\ usage[b] # "shared"
          => \A u \in PendingUses : ~(u.buf = b /\ u.slice = mapped'[b])]_vars
    BY ReturnIsIdle, DiscardTakesFree, FreeIsIdle
  <1> QED BY <1>1, ContextInvariant, PTL DEF Spec, MapReturnsIdle
=============================================================================
