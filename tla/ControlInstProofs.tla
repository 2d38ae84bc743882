-------------------------- MODULE ControlInstProofs --------------------------
(***************************************************************************)
(* Proofs about ControlInst, for any set of tasks and any number of pieces:*)
(* which answer is for which command, which pieces are of which result,    *)
(* and what scamper still owes the program.                                *)
(***************************************************************************)
EXTENDS ControlInst, ListLemmas

-----------------------------------------------------------------------------
(* Along the lines of q something changes from u to v, at each line from   *)
(* one value to the next by a step of R.                                   *)
Flow(q, R, u, v) ==
  \E f : /\ f[0] = u /\ f[Len(q)] = v
         /\ \A i \in 1 .. Len(q) : <<f[i - 1], q[i], f[i]>> \in R

(* Along no lines nothing changes.                                         *)
LEMMA FlowEmpty ==
  \A R, u, v : Flow(<<>>, R, u, v) <=> u = v
<1>1. ASSUME NEW R, NEW u PROVE Flow(<<>>, R, u, u)
  <2>1. PICK f : f = [i \in 0 .. 0 |-> u]
    OBVIOUS
  <2>2. f[0] = u
    BY <2>1
  <2> QED
    BY <2>2 DEF Flow
<1>2. ASSUME NEW R, NEW u, NEW v, Flow(<<>>, R, u, v) PROVE u = v
  BY <1>2 DEF Flow
<1> QED
  BY <1>1, <1>2

(* One line is one step.                                                   *)
LEMMA FlowOne ==
  ASSUME NEW c, NEW R, NEW u, NEW v, <<u, c, v>> \in R
  PROVE  Flow(<<c>>, R, u, v)
<1>1. PICK f : f = [i \in 0 .. 1 |-> IF i = 0 THEN u ELSE v]
  OBVIOUS
<1>2. f[0] = u /\ f[1] = v /\ Len(<<c>>) = 1 /\ <<c>>[1] = c
  BY <1>1
<1>3. \A i \in 1 .. 1 : i = 1 /\ i - 1 = 0
  OBVIOUS
<1> QED
  BY <1>2, <1>3 DEF Flow

(* One list after another.                                                 *)
LEMMA FlowConcat ==
  ASSUME NEW S, NEW a \in Seq(S), NEW b \in Seq(S), NEW R, NEW u, NEW v, NEW w,
         Flow(a, R, u, v), Flow(b, R, v, w)
  PROVE  Flow(a \o b, R, u, w)
<1>1. /\ Len(a) \in Nat /\ Len(b) \in Nat /\ Len(a \o b) = Len(a) + Len(b)
      /\ \A i \in 1 .. Len(a) + Len(b) :
           (a \o b)[i] = IF i <= Len(a) THEN a[i] ELSE b[i - Len(a)]
  BY LenProperties, ConcatProperties
<1>2. PICK f : /\ f[0] = u /\ f[Len(a)] = v
               /\ \A i \in 1 .. Len(a) : <<f[i - 1], a[i], f[i]>> \in R
  BY DEF Flow
<1>3. PICK g : /\ g[0] = v /\ g[Len(b)] = w
               /\ \A i \in 1 .. Len(b) : <<g[i - 1], b[i], g[i]>> \in R
  BY DEF Flow
<1> DEFINE h == [i \in 0 .. Len(a) + Len(b) |-> IF i <= Len(a) THEN f[i] ELSE g[i - Len(a)]]
           c == a \o b
<1>4. \A i \in 0 .. Len(a) : h[i] = f[i]
  BY <1>1
<1>5. \A i \in 0 .. Len(b) : h[Len(a) + i] = g[i]
  <2> SUFFICES ASSUME NEW i \in 0 .. Len(b) PROVE h[Len(a) + i] = g[i]
    OBVIOUS
  <2>1. CASE i = 0
    <3>1. Len(a) + i = Len(a) /\ Len(a) \in 0 .. Len(a)
      BY <1>1, <2>1
    <3> HIDE DEF h
    <3> QED
      BY <1>2, <1>3, <1>4, <2>1, <3>1
  <2>2. CASE i # 0
    <3>1. Len(a) + i \in 0 .. Len(a) + Len(b) /\ ~(Len(a) + i <= Len(a)) /\ (Len(a) + i) - Len(a) = i
      BY <1>1, <2>2
    <3> QED
      BY <3>1
  <2> QED
    BY <2>1, <2>2
<1> HIDE DEF h, c
<1>6. ASSUME NEW i \in 1 .. Len(a) + Len(b)
      PROVE  <<h[i - 1], c[i], h[i]>> \in R
  <2>1. CASE i <= Len(a)
    <3>1. i \in 1 .. Len(a) /\ i - 1 \in 0 .. Len(a) /\ i \in 0 .. Len(a)
      BY <1>1, <2>1
    <3>2. c[i] = a[i]
      BY <1>1, <2>1 DEF c
    <3>3. h[i - 1] = f[i - 1] /\ h[i] = f[i]
      BY <1>4, <3>1
    <3> QED
      BY <1>2, <3>1, <3>2, <3>3
  <2>2. CASE ~(i <= Len(a))
    <3>1. PICK j \in 1 .. Len(b) : i = Len(a) + j
      <4>1. i - Len(a) \in 1 .. Len(b) /\ i = Len(a) + (i - Len(a))
        BY <1>1, <2>2
      <4> QED
        BY <4>1
    <3>2. j \in 0 .. Len(b) /\ j - 1 \in 0 .. Len(b) /\ i - 1 = Len(a) + (j - 1) /\ i - Len(a) = j
      BY <1>1, <3>1
    <3>3. h[i - 1] = g[j - 1] /\ h[i] = g[j]
      BY <1>5, <3>1, <3>2
    <3>4. c[i] = b[j]
      BY <1>1, <2>2, <3>2 DEF c
    <3> QED
      BY <1>3, <3>3, <3>4
  <2> QED
    BY <2>1, <2>2
<1>7. h[0] = u /\ h[Len(a) + Len(b)] = w
  <2>1. 0 \in 0 .. Len(a) /\ Len(b) \in 0 .. Len(b)
    BY <1>1
  <2> QED
    BY <1>2, <1>3, <1>4, <1>5, <2>1
<1>8. Len(c) = Len(a) + Len(b)
  BY <1>1 DEF c
<1>9. Flow(c, R, u, w)
  BY <1>6, <1>7, <1>8 DEF Flow
<1> QED
  BY <1>9 DEF c

(* A list in two.                                                          *)
LEMMA FlowSplit ==
  ASSUME NEW S, NEW q \in Seq(S), NEW n \in 0 .. Len(q), NEW R, NEW u, NEW w, Flow(q, R, u, w)
  PROVE  \E v : Flow(SubSeq(q, 1, n), R, u, v) /\ Flow(SubSeq(q, n + 1, Len(q)), R, v, w)
<1>1. Len(q) \in Nat /\ n \in Nat /\ n <= Len(q) /\ \A i \in 1 .. Len(q) : q[i] \in S
  BY LenProperties, ElementOfSeq
<1> DEFINE a == SubSeq(q, 1, n)
           b == SubSeq(q, n + 1, Len(q))
<1>2. Len(a) = n /\ \A i \in 1 .. n : a[i] = q[i]
  <2>1. \A i \in 1 .. n : q[i] \in S
    BY <1>1
  <2>2. /\ Len(a) = (IF 1 <= n THEN n - 1 + 1 ELSE 0)
        /\ \A i \in 1 .. n - 1 + 1 : a[i] = q[1 + i - 1]
    BY <1>1, <2>1, SubSeqProperties
  <2> HIDE DEF a
  <2>3. \A i \in 1 .. n : i \in 1 .. n - 1 + 1 /\ 1 + i - 1 = i
    BY <1>1
  <2>4. Len(a) = n
    BY <1>1, <2>2
  <2> QED
    BY <2>2, <2>3, <2>4
<1>3. Len(b) = Len(q) - n /\ \A i \in 1 .. Len(q) - n : b[i] = q[n + i]
  <2>1. \A i \in n + 1 .. Len(q) : q[i] \in S
    BY <1>1
  <2>2. /\ Len(b) = (IF n + 1 <= Len(q) THEN Len(q) - (n + 1) + 1 ELSE 0)
        /\ \A i \in 1 .. Len(q) - (n + 1) + 1 : b[i] = q[(n + 1) + i - 1]
    BY <1>1, <2>1, SubSeqProperties
  <2> HIDE DEF b
  <2>3. Len(q) - (n + 1) + 1 = Len(q) - n /\ \A i \in 1 .. Len(q) - n : (n + 1) + i - 1 = n + i
    BY <1>1
  <2>4. Len(b) = Len(q) - n
    BY <1>1, <2>2
  <2> QED
    BY <2>2, <2>3, <2>4
<1> HIDE DEF a, b
<1>4. PICK f : /\ f[0] = u /\ f[Len(q)] = w
               /\ \A i \in 1 .. Len(q) : <<f[i - 1], q[i], f[i]>> \in R
  BY DEF Flow
<1>5. Flow(a, R, u, f[n])
  <2>1. \A i \in 1 .. n : i \in 1 .. Len(q)
    BY <1>1
  <2> QED
    BY <1>2, <1>4, <2>1 DEF Flow
<1>6. Flow(b, R, f[n], w)
  <2>1. PICK g : g = [i \in 0 .. Len(q) - n |-> f[n + i]]
    OBVIOUS
  <2>2. \A i \in 1 .. Len(q) - n : /\ n + i \in 1 .. Len(q) /\ (n + i) - 1 = n + (i - 1)
                                   /\ i \in 0 .. Len(q) - n /\ i - 1 \in 0 .. Len(q) - n
    BY <1>1
  <2>3. \A i \in 1 .. Len(q) - n : <<g[i - 1], b[i], g[i]>> \in R
    BY <1>3, <1>4, <2>1, <2>2
  <2>4. 0 \in 0 .. Len(q) - n /\ Len(q) - n \in 0 .. Len(q) - n /\ n + 0 = n /\ n + (Len(q) - n) = Len(q)
    BY <1>1
  <2>5. g[0] = f[n] /\ g[Len(q) - n] = w
    BY <1>4, <2>1, <2>4
  <2> QED
    BY <1>3, <2>3, <2>5 DEF Flow
<1> QED
  BY <1>5, <1>6 DEF a, b

(* The first line is read.                                                 *)
LEMMA FlowHead ==
  ASSUME NEW S, NEW q \in Seq(S), q # <<>>, NEW R, NEW u, NEW w, Flow(q, R, u, w)
  PROVE  \E v : <<u, Head(q), v>> \in R /\ Flow(Tail(q), R, v, w)
<1>1. Len(q) \in Nat /\ Len(q) # 0 /\ 1 \in 0 .. Len(q)
  BY EmptySeq, LenProperties
<1>2. PICK v : Flow(SubSeq(q, 1, 1), R, u, v) /\ Flow(SubSeq(q, 1 + 1, Len(q)), R, v, w)
  BY <1>1, FlowSplit
<1>3. SubSeq(q, 1 + 1, Len(q)) = Tail(q)
  BY <1>1, TailIsSubSeq
<1>4. SubSeq(q, 1, 1) = <<Head(q)>>
  <2>1. 1 \in 1 .. Len(q) /\ 1 \in 1 .. Len(q)
    BY <1>1
  <2>2. SubSeq(q, 1, 1) = <<q[1]>> \o SubSeq(q, 1 + 1, 1)
    BY <2>1, SubSeqRecursiveFirst
  <2>3. SubSeq(q, 1 + 1, 1) = <<>>
    BY SubSeqEmpty
  <2>4. <<q[1]>> \in Seq(S) /\ Head(q) = q[1]
    BY <1>1, ElementOfSeq
  <2>5. <<q[1]>> \o <<>> = <<q[1]>>
    BY <2>4, ConcatEmptySeq
  <2> QED
    BY <2>2, <2>3, <2>4, <2>5
<1>5. PICK f : f[0] = u /\ f[1] = v /\ \A i \in 1 .. 1 : <<f[i - 1], <<Head(q)>>[i], f[i]>> \in R
  <2>1. Len(<<Head(q)>>) = 1
    OBVIOUS
  <2> QED
    BY <1>2, <1>4, <2>1 DEF Flow
<1>6. <<u, Head(q), v>> \in R
  <2>1. 1 \in 1 .. 1 /\ 1 - 1 = 0 /\ <<Head(q)>>[1] = Head(q)
    OBVIOUS
  <2> QED
    BY <1>5, <2>1
<1> QED
  BY <1>2, <1>3, <1>6

(* More steps, or steps between what g makes of the values.                *)
LEMMA FlowMap ==
  ASSUME NEW q, NEW R, NEW T, NEW u, NEW v, NEW g, Flow(q, R, u, v),
         Len(q) \in Nat, \A x, c, y : <<x, c, y>> \in R => <<g[x], c, g[y]>> \in T
  PROVE  Flow(q, T, g[u], g[v])
<1>1. PICK f : /\ f[0] = u /\ f[Len(q)] = v
               /\ \A i \in 1 .. Len(q) : <<f[i - 1], q[i], f[i]>> \in R
  BY DEF Flow
<1>2. PICK h : h = [i \in 0 .. Len(q) |-> g[f[i]]]
  OBVIOUS
<1>3. \A i \in 1 .. Len(q) : i \in 0 .. Len(q) /\ i - 1 \in 0 .. Len(q)
  OBVIOUS
<1>4. 0 \in 0 .. Len(q) /\ Len(q) \in 0 .. Len(q)
  OBVIOUS
<1>5. h[0] = g[u] /\ h[Len(q)] = g[v] /\ \A i \in 1 .. Len(q) : <<h[i - 1], q[i], h[i]>> \in T
  BY <1>1, <1>2, <1>3, <1>4
<1> QED
  BY <1>5 DEF Flow

(* Part of a list is sent on, and the flow goes with it.                   *)
LEMMA FlowShift ==
  ASSUME NEW S, NEW a \in Seq(S), NEW b \in Seq(S), NEW n \in 0 .. Len(b),
         NEW R, NEW u, NEW v, NEW w, Flow(a, R, u, v), Flow(b, R, v, w)
  PROVE  \E x : /\ Flow(a \o SubSeq(b, 1, n), R, u, x)
                /\ Flow(SubSeq(b, n + 1, Len(b)), R, x, w)
<1>1. PICK x : Flow(SubSeq(b, 1, n), R, v, x) /\ Flow(SubSeq(b, n + 1, Len(b)), R, x, w)
  BY FlowSplit
<1>2. SubSeq(b, 1, n) \in Seq(S)
  <2>1. \A i \in 1 .. n : b[i] \in S
    BY LenProperties, ElementOfSeq
  <2> QED
    BY <2>1, SubSeqProperties
<1> QED
  BY <1>1, <1>2, FlowConcat

(* A flow by the steps of R is one by the steps of any T that has them.    *)
LEMMA FlowMore ==
  ASSUME NEW q, NEW R, NEW T, NEW u, NEW v, Flow(q, R, u, v),
         \A x, c, y : <<x, c, y>> \in R => <<x, c, y>> \in T
  PROVE  Flow(q, T, u, v)
  BY DEF Flow

-----------------------------------------------------------------------------
(* what is said to a program, and not written as data                      *)
Spoken == {Ok, Err, More} \cup {OkId(i) : i \in Id}

(* The answer x is for the command c.                                      *)
Meets(x, c) ==
  \/ x.k = "OK" /\ c.k # "task"
  \/ x.k = "OK id" /\ c.k = "task" /\ x.id \in DOMAIN task /\ task[x.id].of = c.task
  \/ x.k = "ERR" /\ c.k = "task"
  \/ x.k = "ERR" /\ c.k = "halt" /\ c.id \in DOMAIN task /\ task[c.id].st = "freed"

(* Each answer is for the oldest of the commands that wait for one.        *)
Pairs ==
  {e \in Seq(Line) \X Answer \X Seq(Line) :
     IF e[2].k \in {"OK", "OK id", "ERR"}
     THEN e[1] # <<>> /\ Meets(e[2], Head(e[1])) /\ e[3] = Tail(e[1])
     ELSE e[3] = e[1]}

(* What is left of the data on the way: a piece is one of it, nothing else *)
(* comes before its end.                                                   *)
Frames ==
  {e \in Nat \X Answer \X Nat :
     IF e[2].k = "piece" THEN e[1] = e[3] + 1
     ELSE e[1] = 0 /\ e[3] = IF e[2].k = "DATA" THEN e[2].len ELSE 0}

(* The ids the library knows: of each it is told once, and then sent data. *)
Knows ==
  {e \in (SUBSET Id) \X Answer \X (SUBSET Id) :
     IF e[2].k = "OK id" THEN e[2].id \notin e[1] /\ e[3] = e[1] \cup {e[2].id}
     ELSE IF e[2].k = "DATA" /\ e[2].id # 0 THEN e[2].id \in e[1] /\ e[3] = e[1] \ {e[2].id}
     ELSE e[3] = e[1]}

(* The parts of a triple are where it says.                                *)
LEMMA Triples ==
  \A A, B, C :
    /\ \A e : e \in A \X B \X C => e[1] \in A /\ e[2] \in B /\ e[3] \in C
    /\ \A x \in A, y \in B, z \in C : <<x, y, z>> \in A \X B \X C
  OBVIOUS

(* What a step of Pairs is, for values of their types.                     *)
LEMMA PairsStep ==
  ASSUME NEW u \in Seq(Line), NEW x \in Answer, NEW v \in Seq(Line)
  PROVE  <<u, x, v>> \in Pairs <=>
           IF x.k \in {"OK", "OK id", "ERR"}
           THEN u # <<>> /\ Meets(x, Head(u)) /\ v = Tail(u) ELSE v = u
  BY DEF Pairs

(* What a step of Frames is, for values of their types.                    *)
LEMMA FramesStep ==
  ASSUME NEW u \in Nat, NEW x \in Answer, NEW v \in Nat
  PROVE  <<u, x, v>> \in Frames <=>
           IF x.k = "piece" THEN u = v + 1
           ELSE u = 0 /\ v = IF x.k = "DATA" THEN x.len ELSE 0
  BY DEF Frames

(* What a step of Knows is, for values of their types.                     *)
LEMMA KnowsStep ==
  ASSUME NEW u \in SUBSET Id, NEW x \in Answer, NEW v \in SUBSET Id
  PROVE  <<u, x, v>> \in Knows <=>
           IF x.k = "OK id" THEN x.id \notin u /\ v = u \cup {x.id}
           ELSE IF x.k = "DATA" /\ x.id # 0 THEN x.id \in u /\ v = u \ {x.id}
           ELSE v = u
<1>1. PICK P : P = SUBSET Id
  OBVIOUS
<1>2. PICK e : e = <<u, x, v>>
  OBVIOUS
<1>3. e \in P \X Answer \X P /\ e[1] = u /\ e[2] = x /\ e[3] = v
  BY <1>1, <1>2, Triples
<1>4. e \in Knows <=>
        IF e[2].k = "OK id" THEN e[2].id \notin e[1] /\ e[3] = e[1] \cup {e[2].id}
        ELSE IF e[2].k = "DATA" /\ e[2].id # 0 THEN e[2].id \in e[1] /\ e[3] = e[1] \ {e[2].id}
        ELSE e[3] = e[1]
  BY <1>1, <1>3, Zenon DEF Knows
<1> QED
  BY <1>2, <1>3, <1>4, Zenon

(* The types of what a step goes from and to.                              *)
LEMMA StepTypes ==
  /\ \A e : e \in Pairs  => e[1] \in Seq(Line) /\ e[2] \in Answer /\ e[3] \in Seq(Line)
  /\ \A e : e \in Frames => e[1] \in Nat /\ e[2] \in Answer /\ e[3] \in Nat
  /\ \A e : e \in Knows  => e[1] \in SUBSET Id /\ e[2] \in Answer /\ e[3] \in SUBSET Id
<1>1. \A e : e \in Pairs  => e \in Seq(Line) \X Answer \X Seq(Line)
  BY Zenon DEF Pairs
<1>2. \A e : e \in Frames => e \in Nat \X Answer \X Nat
  BY Zenon DEF Frames
<1>3. \A e : e \in Knows  => e \in (SUBSET Id) \X Answer \X (SUBSET Id)
  BY Zenon DEF Knows
<1> QED
  BY <1>1, <1>2, <1>3, Triples

(* The kinds of lines and answers.                                         *)
LEMMA LineCases ==
  ASSUME NEW x \in Line
  PROVE  \/ x = Attach /\ x.k = "attach"
         \/ x = Done /\ x.k = "done"
         \/ x.k = "task" /\ x.task \in Task /\ x = Do(x.task)
         \/ x.k = "halt" /\ x.task \in Task /\ x.id \in Id /\ x = Halt(x.task, x.id)
  BY DEF Line, Attach, Done, Do, Halt

(* How the answers are told apart: the kind, id and length of each.        *)
LEMMA AnswerKinds ==
  /\ Ok.k = "OK" /\ Err.k = "ERR" /\ More.k = "MORE" /\ Piece.k = "piece"
  /\ \A i : OkId(i).k = "OK id" /\ OkId(i).id = i
  /\ \A o : DataHeader(o).k = "DATA" /\ DataHeader(o).id = o.id /\ DataHeader(o).len = o.len
  BY DEF Ok, Err, More, Piece, OkId, DataHeader

(* An answer is one of six kinds.                                          *)
LEMMA AnswerCases ==
  ASSUME NEW x \in Answer
  PROVE  \/ x = Ok /\ x.k = "OK"
         \/ x = Err /\ x.k = "ERR"
         \/ x = More /\ x.k = "MORE"
         \/ x = Piece /\ x.k = "piece"
         \/ x.k = "OK id" /\ x.id \in Id /\ x = OkId(x.id)
         \/ x.k = "DATA" /\ \E o \in Obj : x = DataHeader(o) /\ x.id = o.id /\ x.len = o.len
<1>1. CASE x \in {Ok, Err, More, Piece}
  BY <1>1, AnswerKinds
<1>2. CASE \E i \in Id : x = OkId(i)
  BY <1>2, AnswerKinds
<1>3. CASE \E o \in Obj : x = DataHeader(o)
  BY <1>3, AnswerKinds
<1> QED
  BY <1>1, <1>2, <1>3 DEF Answer, Obj

(* The objects that client_obj_t holds, and the DATA line of each: an id   *)
(* is a number above 0, that of a cycle record is 0, and an object has a   *)
(* piece at least.                                                         *)
LEMMA ObjCases ==
  /\ \A o \in Obj : /\ o.id \in Id \cup {0} /\ o.len \in 1 .. Pieces /\ o # NoObj
                     /\ DataHeader(o) \in Answer /\ DataHeader(o).k = "DATA"
                     /\ DataHeader(o).id = o.id /\ DataHeader(o).len = o.len
  /\ CycleObj \in Obj /\ CycleObj.id = 0 /\ \A i \in Id : Result(i) \in Obj /\ Result(i).id = i
  /\ 0 \notin Id /\ Id \subseteq Nat /\ NoObj.len = 0 /\ NoObj.id = 0
<1>1. 0 \notin Id /\ Id \subseteq Nat
  <2>1. Cardinality(Task) \in Nat
    BY ClientAssumption, FS_CardinalityType
  <2> QED
    BY <2>1 DEF Id
<1>2. CycleObj.id = 0 /\ CycleObj.len = 1 /\ NoObj.id = 0 /\ NoObj.len = 0
  BY DEF CycleObj, NoObj
<1>3. \A i \in Id : Result(i).id = i /\ Result(i).len = Pieces
  BY DEF Result
<1>4. Pieces \in Nat \ {0}
  BY ClientAssumption
<1>5. \A o \in Obj : o.id \in Id \cup {0} /\ o.len \in 1 .. Pieces
  BY <1>2, <1>3, <1>4 DEF Obj
<1>6. \A o : DataHeader(o).k = "DATA" /\ DataHeader(o).id = o.id /\ DataHeader(o).len = o.len
  BY DEF DataHeader
<1>7. \A o \in Obj : o # NoObj /\ DataHeader(o) \in Answer
  <2>1. \A o \in Obj : DataHeader(o) \in Answer
    BY DEF Answer, Obj
  <2>2. \A o \in Obj : o.len # 0
    BY <1>4, <1>5
  <2> QED
    BY <1>2, <2>1, <2>2
<1> QED
  BY <1>1, <1>2, <1>3, <1>5, <1>6, <1>7 DEF Obj

(* What client_send puts in txt are answers, and never data.               *)
LEMMA SpokenCases ==
  /\ Spoken \subseteq Answer /\ Piece \in Answer
  /\ {Ok, Err, More} \subseteq Spoken /\ \A i \in Id : OkId(i) \in Spoken
  /\ \A x \in Spoken : x.k \in {"OK", "OK id", "ERR", "MORE"}
<1>1. Spoken \subseteq Answer /\ Piece \in Answer
  BY DEF Spoken, Answer
<1>2. {Ok, Err, More} \subseteq Spoken /\ \A i \in Id : OkId(i) \in Spoken
  BY DEF Spoken
<1>3. \A x \in Spoken : x.k \in {"OK", "OK id", "ERR", "MORE"}
  BY AnswerKinds DEF Spoken
<1> QED
  BY <1>1, <1>2, <1>3

-----------------------------------------------------------------------------
(* the invariant                                                           *)

ClientT == [mode : {"interactive", "attached", "flush", "freed"}, txt : Seq(Spoken),
            objs : Seq(Obj), obj : Obj \cup {NoObj}, off : Nat, wb : Seq(Answer),
            reads : BOOLEAN, writes : BOOLEAN]
SourceT == [open : BOOLEAN, commands : Seq(Id \cup {Cycle}), tasks : SUBSET Id,
            finished : BOOLEAN, cyclemon : BOOLEAN]
TaskT   == [of : Task, st : {"queued", "running", "done", "freed"}]
InstT   == [queue : Seq(Line), waitok : Seq(Line), done : BOOLEAN, tree : SUBSET Id,
            data : SUBSET Task, left : 0 .. Pieces, more : BOOLEAN, asked : BOOLEAN,
            eof : BOOLEAN]
MineT   == [st : {"new", "queue", "waitok", "gotid", "data", "refused", "dropped"},
            id : Id \cup {0}, halt : BOOLEAN, data : Nat]

(* An object is under way while a part of it is written.                   *)
Writing(c) ==
  /\ c.off > 0 <=> c.obj # NoObj
  /\ c.off > 0 => c.off < c.obj.len

Shapes ==
  /\ client \in ClientT /\ source \in SourceT /\ task \in Seq(TaskT)
  /\ done_queue \in Seq(Id) /\ rx \in Seq(Line) /\ tx \in Seq(Answer)
  /\ shut \in SUBSET {"client", "scamper"}
  /\ inst \in InstT /\ mine \in [Task -> MineT]
  /\ Writing(client)

In(x, q)    == \E i \in DOMAIN q : q[i] = x
Apart(q)    == \A i, j \in DOMAIN q : q[i] = q[j] => i = j
Once(q)     == \A i, j \in DOMAIN q : q[i] = q[j] /\ q[i].k = "task" => i = j
MadeOf(t)   == \E i \in DOMAIN task : task[i].of = t

(* The tasks of the source are those that are not freed; each is in a list *)
(* at most, once.                                                          *)
Tasked ==
  /\ \A i \in Id : i \in source.tasks <=> i \in DOMAIN task /\ task[i].st # "freed"
  /\ \A i, j \in DOMAIN task : task[i].of = task[j].of => i = j
  /\ Apart(source.commands) /\ Apart(done_queue)
  /\ \A i \in Id : In(i, source.commands) => i \in DOMAIN task /\ task[i].st = "queued"
  /\ \A i \in Id : In(i, done_queue) => i \in DOMAIN task /\ task[i].st = "done"

(* A task is asked for once, and is where the library says it is.          *)
Asked ==
  /\ Once(inst.queue) /\ Once(rx) /\ Once(inst.waitok)
  /\ \A t \in Task :
       /\ In(Do(t), inst.queue) <=> mine[t].st = "queue"
       /\ In(Do(t), inst.waitok) <=> mine[t].st = "waitok"
       /\ In(Do(t), rx) \/ MadeOf(t) => mine[t].st \notin {"new", "queue", "dropped"}
       /\ ~(In(Do(t), rx) /\ MadeOf(t))
  /\ \A t \in Task, i \in Id :
       In(Halt(t, i), inst.queue) \/ In(Halt(t, i), rx) \/ In(Halt(t, i), inst.waitok)
       => i \in DOMAIN task /\ mine[t].halt

(* What the library files under an id is the task scamper gave it; a task  *)
(* leaves the tree with its data.                                          *)
Filed ==
  /\ inst.tree \subseteq DOMAIN task
  /\ \A t \in Task :
       /\ mine[t].id # 0 <=> mine[t].st \in {"gotid", "data"}
       /\ mine[t].id # 0 => mine[t].id \in DOMAIN task /\ task[mine[t].id].of = t
       /\ mine[t].data = IF mine[t].st = "data" THEN 1 ELSE 0
       /\ mine[t].st = "data" => mine[t].id \notin inst.tree
       /\ mine[t].st = "gotid" => mine[t].id \in inst.tree \/ t \in inst.data
       /\ t \in inst.data => mine[t].st = "gotid" /\ mine[t].id \notin inst.tree /\ inst.left > 0

AfterDone(q) == \A i, j \in DOMAIN q : i < j /\ q[i] = Done => q[j].k # "task"

(* Nothing is asked after "done", and a source that was told so is only    *)
(* then finished.                                                          *)
Ends ==
  /\ AfterDone(inst.queue) /\ AfterDone(rx)
  /\ In(Done, inst.queue) \/ In(Done, rx) => inst.done
  /\ In(Done, rx) => ~Has(inst.queue, "task")
  /\ "client" \notin shut =>
       /\ source.finished => inst.done /\ ~Has(inst.queue, "task") /\ ~Has(rx, "task")
       /\ client.mode \in {"flush", "freed"} => source.finished
       /\ source.cyclemon => source.open

(* A client that is freed is rid of everything; the library reads to the   *)
(* end.                                                                    *)
Freed ==
  /\ client.mode = "freed" <=> "scamper" \in shut
  /\ client.mode = "freed" =>
       /\ ~client.reads /\ ~client.writes /\ client.txt = <<>> /\ client.wb = <<>>
       /\ client.objs = <<>> /\ client.off = 0
       /\ source.tasks = {} /\ source.commands = <<>> /\ done_queue = <<>>
  /\ inst.eof => tx = <<>> /\ "scamper" \in shut /\ "client" \notin shut
  /\ fault # "none" => "client" \in shut

(* What is on its way to the program answers its commands, frames the data *)
(* and tells each id before its data.                                      *)
Rest(w) ==
  IF client.mode \in {"flush", "freed"} THEN ~Has(w, "task") ELSE w = rx

Paired ==
  \E a, b, w \in Seq(Line) :
    /\ Flow(tx, Pairs, inst.waitok, a) /\ Flow(client.wb, Pairs, a, b)
    /\ Flow(client.txt, Pairs, b, w) /\ Rest(w)

Remain == IF client.off > 0 THEN client.obj.len - client.off ELSE 0

Framed ==
  \E a \in Nat : Flow(tx, Frames, inst.left, a) /\ Flow(client.wb, Frames, a, Remain)

(* K is what the library will know when it has read all but the objects:   *)
(* the ids of the tasks and of the results that wait to be written.        *)
Owes(K, tasks, objs) ==
  /\ \A i \in Id : i \in K <=> i \in tasks \/ In(Result(i), objs)
  /\ \A i \in Id : i \in tasks => ~In(Result(i), objs)
  /\ \A i, j \in DOMAIN objs : objs[i] = objs[j] /\ objs[i].id # 0 => i = j

Owing(K) == K \subseteq DOMAIN task /\ Owes(K, source.tasks, client.objs)

Known ==
  \E a, b, K \in SUBSET Id :
    /\ Flow(tx, Knows, inst.tree, a) /\ Flow(client.wb, Knows, a, b)
    /\ Flow(client.txt, Knows, b, K) /\ Owing(K)

Streams == "client" \notin shut => Paired /\ Framed /\ Known

(* The library fails at the ERR to a halt that was late, or at a call of   *)
(* fd_write with nothing to send, if at all.                               *)
Late ==
  \/ fault \in {"none", "no command"}
  \/ /\ fault = "halt" /\ inst.waitok # <<>>
     /\ Head(inst.waitok).id \in DOMAIN task
     /\ task[Head(inst.waitok).id].st = "freed"

IInv == Shapes /\ Tasked /\ Asked /\ Filed /\ Ends /\ Freed /\ Streams /\ Late

-----------------------------------------------------------------------------
(* lists                                                                   *)

(* What is in p is in q too, in the same order.                            *)
Within(p, q) ==
  \A i, j \in DOMAIN p :
    \E a, b \in DOMAIN q : /\ p[i] = q[a] /\ p[j] = q[b]
                           /\ (i < j => a < b) /\ (j < i => b < a)

(* A list within another is without repetition, and asks nothing after     *)
(* "done", when the other is so.                                           *)
LEMMA WithinKept ==
  ASSUME NEW S, NEW T, NEW p \in Seq(S), NEW q \in Seq(T), Within(p, q)
  PROVE  /\ Apart(q) => Apart(p)
         /\ Once(q) => Once(p)
         /\ AfterDone(q) => AfterDone(p)
         /\ \A x : In(x, p) => In(x, q)
         /\ \A k : Has(p, k) => Has(q, k)
<1>1. /\ DOMAIN p = 1 .. Len(p) /\ Len(p) \in Nat /\ DOMAIN q = 1 .. Len(q) /\ Len(q) \in Nat
  BY LenProperties
<1>2. \A i, j \in DOMAIN p : \E a, b \in DOMAIN q :
        p[i] = q[a] /\ p[j] = q[b] /\ (a = b => i = j) /\ (i < j => a < b)
  <2> SUFFICES ASSUME NEW i \in DOMAIN p, NEW j \in DOMAIN p
               PROVE  \E a, b \in DOMAIN q : /\ p[i] = q[a] /\ p[j] = q[b] /\ (a = b => i = j)
                                             /\ (i < j => a < b)
    OBVIOUS
  <2>1. PICK a \in DOMAIN q, b \in DOMAIN q :
          p[i] = q[a] /\ p[j] = q[b] /\ (i < j => a < b) /\ (j < i => b < a)
    BY DEF Within
  <2>2. a = b => i = j
    BY <1>1, <2>1
  <2> QED
    BY <2>1, <2>2
<1>3. \A x : In(x, p) => In(x, q)
  BY <1>2 DEF In
<1>4. \A k : Has(p, k) => Has(q, k)
  BY <1>2 DEF Has
<1>5. Apart(q) => Apart(p)
  BY <1>2 DEF Apart
<1>6. Once(q) => Once(p)
  <2> SUFFICES ASSUME Once(q), NEW i \in DOMAIN p, NEW j \in DOMAIN p, p[i] = p[j], p[i].k = "task"
               PROVE  i = j
    BY DEF Once
  <2>1. PICK a \in DOMAIN q, b \in DOMAIN q : p[i] = q[a] /\ p[j] = q[b] /\ (a = b => i = j)
    BY <1>2
  <2> QED
    BY <2>1 DEF Once
<1>7. AfterDone(q) => AfterDone(p)
  <2> SUFFICES ASSUME AfterDone(q), NEW i \in DOMAIN p, NEW j \in DOMAIN p, i < j, p[i] = Done
               PROVE  p[j].k # "task"
    BY DEF AfterDone
  <2>1. PICK a \in DOMAIN q, b \in DOMAIN q : p[i] = q[a] /\ p[j] = q[b] /\ (i < j => a < b)
    BY <1>2
  <2> QED
    BY <2>1 DEF AfterDone
<1> QED
  BY <1>3, <1>4, <1>5, <1>6, <1>7

(* What is left of a list when its first line is taken.                    *)
LEMMA TailWithin ==
  ASSUME NEW S, NEW q \in Seq(S), q # <<>>
  PROVE  /\ Tail(q) \in Seq(S) /\ Head(q) \in S /\ Within(Tail(q), q) /\ In(Head(q), q)
         /\ \A x : In(x, q) <=> x = Head(q) \/ In(x, Tail(q))
         /\ Apart(q) => ~In(Head(q), Tail(q))
         /\ Once(q) /\ Head(q).k = "task" => ~In(Head(q), Tail(q))
         /\ \A k : Has(q, k) <=> Head(q).k = k \/ Has(Tail(q), k)
         /\ AfterDone(q) /\ Head(q) = Done => ~Has(Tail(q), "task")
<1>1. /\ Len(q) \in Nat \ {0} /\ DOMAIN q = 1 .. Len(q) /\ Head(q) = q[1] /\ Head(q) \in S
      /\ Tail(q) \in Seq(S)
  BY EmptySeq, LenProperties, HeadTailProperties
<1> DEFINE p == Tail(q)
<1>2. DOMAIN p = 1 .. Len(q) - 1 /\ \A i \in 1 .. Len(q) - 1 : p[i] = q[i + 1]
  BY <1>1, HeadTailProperties, LenProperties
<1> HIDE DEF p
<1>3. \A i \in 1 .. Len(q) - 1 : i + 1 \in 1 .. Len(q) /\ i + 1 # 1 /\ 1 < i + 1
  BY <1>1
<1>4. \A i \in 2 .. Len(q) : i - 1 \in 1 .. Len(q) - 1 /\ (i - 1) + 1 = i
  BY <1>1
<1>5. Within(p, q)
  <2> SUFFICES ASSUME NEW i \in 1 .. Len(q) - 1, NEW j \in 1 .. Len(q) - 1
               PROVE  \E a, b \in 1 .. Len(q) : /\ p[i] = q[a] /\ p[j] = q[b]
                                                /\ (i < j => a < b) /\ (j < i => b < a)
    BY <1>1, <1>2 DEF Within
  <2>1. (i < j => i + 1 < j + 1) /\ (j < i => j + 1 < i + 1)
    OBVIOUS
  <2> QED
    BY <1>2, <1>3, <2>1
<1>6. \A i \in 1 .. Len(q) : i = 1 \/ i \in 2 .. Len(q)
  BY <1>1
<1>7. \A x : In(x, q) <=> x = Head(q) \/ In(x, p)
  <2>1. ASSUME NEW x, In(x, q) PROVE x = Head(q) \/ In(x, p)
    BY <1>1, <1>2, <1>4, <1>6, <2>1 DEF In
  <2>2. ASSUME NEW x, x = Head(q) \/ In(x, p) PROVE In(x, q)
    BY <1>1, <1>2, <1>3, <2>2 DEF In
  <2> QED
    BY <2>1, <2>2
<1>8. \A k : Has(q, k) <=> Head(q).k = k \/ Has(p, k)
  <2>1. ASSUME NEW k, Has(q, k) PROVE Head(q).k = k \/ Has(p, k)
    <3>1. PICK i \in 1 .. Len(q) : q[i].k = k
      BY <1>1, <2>1 DEF Has
    <3>2. CASE i = 1
      BY <1>1, <3>1, <3>2
    <3>3. CASE i # 1
      <4>1. i - 1 \in 1 .. Len(q) - 1 /\ (i - 1) + 1 = i
        BY <1>4, <1>6, <3>3
      <4>2. p[i - 1] = q[i]
        BY <1>2, <4>1
      <4> QED
        BY <1>2, <3>1, <4>1, <4>2, Zenon DEF Has
    <3> QED
      BY <3>2, <3>3
  <2>2. ASSUME NEW k, Head(q).k = k PROVE Has(q, k)
    <3>1. 1 \in 1 .. Len(q) /\ q[1].k = k
      BY <1>1, <2>2
    <3> QED
      BY <1>1, <3>1, Zenon DEF Has
  <2>3. ASSUME NEW k, Has(p, k) PROVE Has(q, k)
    <3>1. PICK i \in 1 .. Len(q) - 1 : p[i].k = k
      BY <1>2, <2>3 DEF Has
    <3>2. i + 1 \in 1 .. Len(q) /\ p[i] = q[i + 1]
      BY <1>2, <1>3
    <3> QED
      BY <1>1, <3>1, <3>2, Zenon DEF Has
  <2> QED
    BY <2>1, <2>2, <2>3
<1>9. Apart(q) => ~In(Head(q), p)
  BY <1>1, <1>2, <1>3 DEF Apart, In
<1>10. Once(q) /\ Head(q).k = "task" => ~In(Head(q), p)
  BY <1>1, <1>2, <1>3 DEF Once, In
<1>11. AfterDone(q) /\ Head(q) = Done => ~Has(p, "task")
  BY <1>1, <1>2, <1>3 DEF AfterDone, Has
<1> QED
  BY <1>1, <1>5, <1>7, <1>8, <1>9, <1>10, <1>11 DEF p, In

(* What is in a list when c is put at its end.                             *)
LEMMA MoreIn ==
  ASSUME NEW S, NEW q \in Seq(S), NEW c \in S
  PROVE  /\ Append(q, c) \in Seq(S)
         /\ \A x : In(x, Append(q, c)) <=> In(x, q) \/ x = c
         /\ \A k : Has(Append(q, c), k) <=> Has(q, k) \/ c.k = k
         /\ Apart(q) /\ ~In(c, q) => Apart(Append(q, c))
         /\ Once(q) /\ (c.k = "task" => ~In(c, q)) => Once(Append(q, c))
         /\ AfterDone(q) /\ (c.k = "task" => ~In(Done, q)) => AfterDone(Append(q, c))
<1>1. Len(q) \in Nat /\ DOMAIN q = 1 .. Len(q) /\ Append(q, c) \in Seq(S)
  BY LenProperties, AppendProperties
<1> DEFINE p == Append(q, c)
<1>2. DOMAIN p = 1 .. Len(q) + 1 /\ p[Len(q) + 1] = c /\ \A i \in 1 .. Len(q) : p[i] = q[i]
  BY <1>1, AppendProperties, LenProperties
<1> HIDE DEF p
<1>3. \A i \in 1 .. Len(q) + 1 : i = Len(q) + 1 \/ i \in 1 .. Len(q)
  BY <1>1
<1>4. Len(q) + 1 \in 1 .. Len(q) + 1 /\ \A i \in 1 .. Len(q) : i \in 1 .. Len(q) + 1
  BY <1>1
<1>5. \A x : In(x, p) <=> In(x, q) \/ x = c
  <2>1. ASSUME NEW x, In(x, p) PROVE In(x, q) \/ x = c
    BY <1>1, <1>2, <1>3, <2>1 DEF In
  <2>2. ASSUME NEW x, In(x, q) \/ x = c PROVE In(x, p)
    BY <1>1, <1>2, <1>4, <2>2 DEF In
  <2> QED
    BY <2>1, <2>2
<1>6. \A k : Has(p, k) <=> Has(q, k) \/ c.k = k
  <2>1. ASSUME NEW k, Has(p, k) PROVE Has(q, k) \/ c.k = k
    BY <1>1, <1>2, <1>3, <2>1 DEF Has
  <2>2. ASSUME NEW k, Has(q, k) \/ c.k = k PROVE Has(p, k)
    BY <1>1, <1>2, <1>4, <2>2 DEF Has
  <2> QED
    BY <2>1, <2>2
<1>7. Apart(q) /\ ~In(c, q) => Apart(p)
  BY <1>1, <1>2, <1>3 DEF Apart, In
<1>8. Once(q) /\ (c.k = "task" => ~In(c, q)) => Once(p)
  BY <1>1, <1>2, <1>3 DEF Once, In
<1>9. AfterDone(q) /\ (c.k = "task" => ~In(Done, q)) => AfterDone(p)
  <2> SUFFICES ASSUME AfterDone(q), c.k = "task" => ~In(Done, q),
                      NEW i \in 1 .. Len(q) + 1, NEW j \in 1 .. Len(q) + 1, i < j, p[i] = Done
               PROVE  p[j].k # "task"
    BY <1>2 DEF AfterDone
  <2>1. i \in 1 .. Len(q) /\ q[i] = Done
    <3>1. i # Len(q) + 1
      BY <1>1
    <3> QED
      BY <1>2, <1>3, <3>1
  <2>2. CASE j \in 1 .. Len(q)
    BY <1>1, <1>2, <2>1, <2>2 DEF AfterDone
  <2>3. CASE j = Len(q) + 1
    BY <1>1, <1>2, <2>1, <2>3 DEF In
  <2> QED
    BY <1>3, <2>2, <2>3
<1> QED
  BY <1>1, <1>5, <1>6, <1>7, <1>8, <1>9 DEF p

(* What is there once is gone when it is taken out.                        *)
LEMMA WithoutIn ==
  ASSUME NEW S, NEW q \in Seq(S), NEW x, \A i, j \in DOMAIN q : q[i] = x /\ q[j] = x => i = j
  PROVE  /\ Without(q, x) \in Seq(S) /\ Within(Without(q, x), q)
         /\ \A y : In(y, Without(q, x)) <=> In(y, q) /\ y # x
<1>1. Len(q) \in Nat /\ DOMAIN q = 1 .. Len(q)
  BY LenProperties
<1>2. CASE ~In(x, q)
  <2>1. Without(q, x) = q
    BY <1>2 DEF Without, In
  <2> QED
    BY <1>2, <2>1 DEF In, Within
<1>3. CASE In(x, q)
  <2>1. PICK k \in DOMAIN q : q[k] = x /\ Without(q, x) = RemoveAt(q, k)
    BY <1>3 DEF Without, In
  <2> DEFINE r == RemoveAt(q, k)
  <2>2. /\ r \in Seq(S) /\ Len(r) = Len(q) - 1
        /\ \A j \in 1 .. Len(q) - 1 : r[j] = IF j < k THEN q[j] ELSE q[j + 1]
    BY RemoveAtElements
  <2>3. DOMAIN r = 1 .. Len(q) - 1
    BY <2>2, LenProperties
  <2> HIDE DEF r
  <2>4. ASSUME NEW i \in 1 .. Len(q) - 1
        PROVE  \E a \in 1 .. Len(q) : /\ a = (IF i < k THEN i ELSE i + 1) /\ r[i] = q[a]
                                      /\ a # k
    <3>1. (IF i < k THEN i ELSE i + 1) \in 1 .. Len(q) /\ (IF i < k THEN i ELSE i + 1) # k
      BY <1>1, <2>1
    <3> QED
      BY <2>2, <3>1
  <2>5. Within(r, q)
    <3>1. ASSUME NEW i \in 1 .. Len(q) - 1, NEW j \in 1 .. Len(q) - 1
          PROVE  \E a, b \in 1 .. Len(q) : /\ r[i] = q[a] /\ r[j] = q[b]
                                           /\ (i < j => a < b) /\ (j < i => b < a)
      <4>1. PICK a \in 1 .. Len(q) : a = (IF i < k THEN i ELSE i + 1) /\ r[i] = q[a]
        BY <2>4
      <4>2. PICK b \in 1 .. Len(q) : b = (IF j < k THEN j ELSE j + 1) /\ r[j] = q[b]
        BY <2>4
      <4>3. (i < j => a < b) /\ (j < i => b < a)
        BY <1>1, <2>1, <4>1, <4>2
      <4> QED
        BY <4>1, <4>2, <4>3
    <3>2. \A i, j \in DOMAIN r :
            \E a, b \in DOMAIN q : /\ r[i] = q[a] /\ r[j] = q[b]
                                   /\ (i < j => a < b) /\ (j < i => b < a)
      BY ONLY <1>1, <2>3, <3>1
    <3> QED
      BY ONLY <3>2 DEF Within
  <2>6. ASSUME NEW y, In(y, r) PROVE In(y, q) /\ y # x
    <3>1. PICK i \in 1 .. Len(q) - 1 : r[i] = y
      BY <2>3, <2>6 DEF In
    <3>2. PICK a \in 1 .. Len(q) : r[i] = q[a] /\ a # k
      BY <2>4
    <3> QED
      BY <1>1, <2>1, <3>1, <3>2 DEF In
  <2>7. ASSUME NEW y, In(y, q), y # x PROVE In(y, r)
    <3>1. PICK a \in 1 .. Len(q) : q[a] = y
      BY <1>1, <2>7 DEF In
    <3>2. a # k
      BY <2>1, <2>7, <3>1
    <3>3. CASE a < k
      <4>1. a \in 1 .. Len(q) - 1
        BY <1>1, <2>1, <3>3
      <4> QED
        BY <2>2, <2>3, <3>1, <3>3, <4>1 DEF In
    <3>4. CASE ~(a < k)
      <4>1. a - 1 \in 1 .. Len(q) - 1 /\ ~(a - 1 < k) /\ (a - 1) + 1 = a
        BY <1>1, <2>1, <3>2, <3>4
      <4>2. r[a - 1] = q[a]
        BY <2>2, <4>1
      <4> QED
        BY <2>3, <3>1, <4>1, <4>2 DEF In
    <3> QED
      BY <3>3, <3>4
  <2> QED
    BY <2>1, <2>2, <2>5, <2>6, <2>7 DEF r
<1> QED
  BY <1>2, <1>3

(* No more tasks are made than there are.                                  *)
LEMMA TasksBound ==
  ASSUME NEW q \in Seq(TaskT), \A i, j \in DOMAIN q : q[i].of = q[j].of => i = j
  PROVE  Len(q) \in Nat /\ Len(q) <= Cardinality(Task) /\ DOMAIN q \subseteq Id
<1>1. /\ Len(q) \in Nat /\ DOMAIN q = 1 .. Len(q)
      /\ \A i \in 1 .. Len(q) : q[i] \in TaskT
  BY LenProperties, ElementOfSeq
<1>2. PICK f : f = [i \in 1 .. Len(q) |-> q[i].of]
  OBVIOUS
<1>3. f \in Injection(1 .. Len(q), Task)
  <2>1. f \in [1 .. Len(q) -> Task]
    BY <1>1, <1>2 DEF TaskT
  <2>2. \A i, j \in 1 .. Len(q) : f[i] = f[j] => i = j
    BY <1>1, <1>2
  <2> QED
    BY <2>1, <2>2 DEF Injection, IsInjective
<1>4. Cardinality(1 .. Len(q)) <= Cardinality(Task)
  BY <1>3, ClientAssumption, FS_Injection
<1>5. Cardinality(1 .. Len(q)) = Len(q)
  BY <1>1, FS_Interval
<1>6. Cardinality(Task) \in Nat
  BY ClientAssumption, FS_CardinalityType
<1> QED
  BY <1>1, <1>4, <1>5, <1>6 DEF Id

-----------------------------------------------------------------------------
(* what a part of the invariant depends on                                 *)

(* How the lines of a program are told apart.                              *)
LEMMA LineHas ==
  /\ Attach \in Line /\ Done \in Line /\ \A t \in Task : Do(t) \in Line
  /\ \A t \in Task, i \in Id : Halt(t, i) \in Line
  /\ Attach.k = "attach" /\ Done.k = "done"
  /\ \A t : Do(t).k = "task" /\ Do(t).task = t
  /\ \A t, i : Halt(t, i).k = "halt" /\ Halt(t, i).task = t /\ Halt(t, i).id = i
  /\ \A t, u : Do(t) = Do(u) => t = u
  /\ \A t, u, i : Do(t) # Halt(u, i) /\ Do(t) # Done /\ Do(t) # Attach
  /\ \A u, i : Done # Halt(u, i) /\ Attach # Halt(u, i)
  /\ Done # Attach
<1>1. /\ Attach.k = "attach" /\ Done.k = "done"
      /\ \A t : Do(t).k = "task" /\ Do(t).task = t
      /\ \A t, i : Halt(t, i).k = "halt" /\ Halt(t, i).task = t /\ Halt(t, i).id = i
  BY DEF Attach, Done, Do, Halt
<1>2. /\ Attach \in Line /\ Done \in Line /\ \A t \in Task : Do(t) \in Line
      /\ \A t \in Task, i \in Id : Halt(t, i) \in Line
  BY DEF Line
<1>3. /\ \A t, u : Do(t) = Do(u) => t = u
      /\ \A t, u, i : Do(t) # Halt(u, i) /\ Do(t) # Done /\ Do(t) # Attach
      /\ \A u, i : Done # Halt(u, i) /\ Attach # Halt(u, i)
      /\ Done # Attach
  BY <1>1
<1> QED
  BY <1>1, <1>2, <1>3

(* Tasked depends on the lists of tasks of the source alone.               *)
LEMMA TaskedKept ==
  ASSUME Tasked, UNCHANGED <<source.commands, source.tasks, task, done_queue>>
  PROVE  Tasked'
  BY DEF Tasked, Apart, In

(* Asked is kept by what moves no line of the library and changes no       *)
(* task's place in it.                                                     *)
LEMMA AskedKept ==
  ASSUME Asked, UNCHANGED <<inst.queue, inst.waitok, rx>>,
         DOMAIN task \subseteq DOMAIN task', \A t \in Task : MadeOf(t)' <=> MadeOf(t),
         \A t \in Task : mine'[t].st = mine[t].st /\ (mine[t].halt => mine'[t].halt)
  PROVE  Asked'
<1>1. /\ \A x : In(x, inst.queue)' <=> In(x, inst.queue)
      /\ \A x : In(x, inst.waitok)' <=> In(x, inst.waitok)
      /\ \A x : In(x, rx)' <=> In(x, rx)
  BY DEF In
<1>2. Once(inst.queue)' /\ Once(inst.waitok)' /\ Once(rx)'
  BY DEF Asked, Once
<1> QED
  BY <1>1, <1>2 DEF Asked, Do, Halt

(* Filed is kept by what leaves the tree and the object that is read       *)
(* alone.                                                                  *)
LEMMA FiledKept ==
  ASSUME Filed, UNCHANGED <<inst.tree, inst.data, inst.left>>,
         \A i \in DOMAIN task : i \in DOMAIN task' /\ task'[i].of = task[i].of,
         \A t \in Task : /\ mine'[t].id = mine[t].id /\ mine'[t].data = mine[t].data
                         /\ mine'[t].st \in {"gotid", "data"} <=> mine[t].st \in {"gotid", "data"}
                         /\ mine'[t].st = "data" <=> mine[t].st = "data"
  PROVE  Filed'
<1>1. \A t \in Task : mine'[t].st = "gotid" <=> mine[t].st = "gotid"
  OBVIOUS
<1>2. inst'.tree \subseteq DOMAIN task'
  BY DEF Filed
<1>3. ASSUME NEW t \in Task
      PROVE  /\ mine'[t].id # 0 <=> mine'[t].st \in {"gotid", "data"}
             /\ mine'[t].id # 0 => mine'[t].id \in DOMAIN task' /\ task'[mine'[t].id].of = t
             /\ mine'[t].data = IF mine'[t].st = "data" THEN 1 ELSE 0
             /\ mine'[t].st = "data" => mine'[t].id \notin inst'.tree
             /\ mine'[t].st = "gotid" => mine'[t].id \in inst'.tree \/ t \in inst'.data
             /\ t \in inst'.data => mine'[t].st = "gotid" /\ mine'[t].id \notin inst'.tree /\ inst'.left > 0
  BY <1>1 DEF Filed
<1> QED
  BY <1>2, <1>3 DEF Filed

(* What answered a command goes on answering it while tasks keep what they *)
(* measure and freed ones stay freed.                                      *)
LEMMA PairsKept ==
  ASSUME \A i \in DOMAIN task : /\ i \in DOMAIN task' /\ task'[i].of = task[i].of
                                /\ task[i].st = "freed" => task'[i].st = "freed"
  PROVE  /\ \A e : e \in Pairs => e \in Pairs'
         /\ \A q, u, v : Flow(q, Pairs, u, v) => Flow(q, Pairs', u, v)
<1>1. \A x, c : Meets(x, c) => Meets(x, c)'
  BY DEF Meets
<1>2. \A e : e \in Pairs => e \in Pairs'
  BY <1>1 DEF Pairs
<1>3. ASSUME NEW q, NEW u, NEW v, Flow(q, Pairs, u, v) PROVE Flow(q, Pairs', u, v)
  BY <1>2, <1>3 DEF Flow
<1> QED
  BY <1>2, <1>3

(* Streams is kept by what moves nothing that is on its way to the         *)
(* program.                                                                *)
LEMMA StreamsKept ==
  ASSUME Streams,
         UNCHANGED <<tx, rx, client.wb, client.txt, client.objs, client.obj, client.off, client.mode,
                     inst.waitok, inst.left, inst.tree, source.tasks, shut>>,
         \A i \in DOMAIN task : /\ i \in DOMAIN task' /\ task'[i].of = task[i].of
                                /\ task[i].st = "freed" => task'[i].st = "freed"
  PROVE  Streams'
<1> SUFFICES ASSUME "client" \notin shut PROVE (Paired /\ Framed /\ Known)'
  BY DEF Streams
<1>1. Paired'
  <2>1. PICK a \in Seq(Line), b \in Seq(Line), w \in Seq(Line) :
          /\ Flow(tx, Pairs, inst.waitok, a) /\ Flow(client.wb, Pairs, a, b)
          /\ Flow(client.txt, Pairs, b, w) /\ Rest(w)
    BY DEF Streams, Paired
  <2>2. Rest(w)'
    BY <2>1 DEF Rest, Has
  <2>3. /\ Flow(tx, Pairs', inst.waitok, a) /\ Flow(client.wb, Pairs', a, b)
        /\ Flow(client.txt, Pairs', b, w)
    BY <2>1, PairsKept
  <2> QED
    BY <2>2, <2>3 DEF Paired
<1>2. Framed'
  BY DEF Streams, Framed, Remain
<1>3. Known'
  <2>1. PICK a \in SUBSET Id, b \in SUBSET Id, K \in SUBSET Id :
          /\ Flow(tx, Knows, inst.tree, a) /\ Flow(client.wb, Knows, a, b)
          /\ Flow(client.txt, Knows, b, K) /\ Owing(K)
    BY DEF Streams, Known
  <2>2. Owing(K)'
    BY <2>1 DEF Owing, Owes, In
  <2> QED
    BY <2>1, <2>2 DEF Known
<1> QED
  BY <1>1, <1>2, <1>3

(* When the program has closed its end nothing is claimed of what is on    *)
(* its way.                                                                *)
LEMMA StreamsOver == ASSUME "client" \in shut' PROVE Streams'
  BY DEF Streams

(* A halt that was late stays late.                                        *)
LEMMA LateKept ==
  ASSUME Late, UNCHANGED <<inst.waitok, fault>>,
         \A i \in DOMAIN task : /\ i \in DOMAIN task' /\ task'[i].of = task[i].of
                                /\ task[i].st = "freed" => task'[i].st = "freed"
  PROVE  Late'
  BY DEF Late

(* Ends is kept by what moves no line of a program and does not change the *)
(* mode of the client.                                                     *)
LEMMA EndsKept ==
  ASSUME Ends, UNCHANGED <<inst.queue, inst.done, rx, shut, client.mode, source.finished, source.open>>,
         source'.cyclemon => source.cyclemon
  PROVE  Ends'
<1>1. /\ \A x : In(x, inst.queue)' <=> In(x, inst.queue)
      /\ \A x : In(x, rx)' <=> In(x, rx)
      /\ AfterDone(inst.queue)' <=> AfterDone(inst.queue)
      /\ AfterDone(rx)' <=> AfterDone(rx)
  BY DEF In, AfterDone
<1>2. /\ \A k : Has(inst.queue, k)' <=> Has(inst.queue, k)
      /\ \A k : Has(rx, k)' <=> Has(rx, k)
  BY DEF Has
<1> QED
  BY <1>1, <1>2 DEF Ends, Done

(* Freed is kept by what leaves scamper and both ends of the socket alone. *)
LEMMA FreedKept ==
  ASSUME Freed, UNCHANGED <<client, source, done_queue, tx, inst.eof, fault>>,
         "scamper" \in shut <=> "scamper" \in shut', "client" \in shut <=> "client" \in shut'
  PROVE  Freed'
  BY DEF Freed

(* What the next state has to be like.                                     *)
LEMMA AskedNext ==
  ASSUME Once(inst'.queue), Once(rx'), Once(inst'.waitok),
         \A t \in Task :
           /\ In(Do(t), inst'.queue) <=> mine'[t].st = "queue"
           /\ In(Do(t), inst'.waitok) <=> mine'[t].st = "waitok"
           /\ In(Do(t), rx') \/ MadeOf(t)' => mine'[t].st \notin {"new", "queue", "dropped"}
           /\ ~(In(Do(t), rx') /\ MadeOf(t)'),
         \A t \in Task, i \in Id :
           In(Halt(t, i), inst'.queue) \/ In(Halt(t, i), rx') \/ In(Halt(t, i), inst'.waitok)
           => i \in DOMAIN task' /\ mine'[t].halt
  PROVE  Asked'
<1>1. Once(inst.queue)' /\ Once(rx)' /\ Once(inst.waitok)'
  BY DEF Once
<1>2. \A t : Do(t)' = Do(t) /\ \A i : Halt(t, i)' = Halt(t, i)
  BY DEF Do, Halt
<1>3. \A x : /\ In(x, inst.queue)' <=> In(x, inst'.queue)
             /\ In(x, inst.waitok)' <=> In(x, inst'.waitok)
             /\ In(x, rx)' <=> In(x, rx')
  BY DEF In
<1>4. \A t : /\ In(Do(t), inst.queue)' <=> In(Do(t), inst'.queue)
             /\ In(Do(t), inst.waitok)' <=> In(Do(t), inst'.waitok)
             /\ In(Do(t), rx)' <=> In(Do(t), rx')
  BY DEF In, Do
<1>5. \A t, i : /\ In(Halt(t, i), inst.queue)' <=> In(Halt(t, i), inst'.queue)
                /\ In(Halt(t, i), inst.waitok)' <=> In(Halt(t, i), inst'.waitok)
                /\ In(Halt(t, i), rx)' <=> In(Halt(t, i), rx')
  BY DEF In, Halt
<1>6. \A t \in Task :
        /\ In(Do(t), inst.queue)' <=> mine'[t].st = "queue"
        /\ In(Do(t), inst.waitok)' <=> mine'[t].st = "waitok"
        /\ In(Do(t), rx)' \/ MadeOf(t)' => mine'[t].st \notin {"new", "queue", "dropped"}
        /\ ~(In(Do(t), rx)' /\ MadeOf(t)')
  BY <1>4
<1>7. \A t \in Task, i \in Id :
        In(Halt(t, i), inst.queue)' \/ In(Halt(t, i), rx)' \/ In(Halt(t, i), inst.waitok)'
        => i \in DOMAIN task' /\ mine'[t].halt
  BY <1>5
<1> QED
  BY <1>1, <1>6, <1>7 DEF Asked

(* Ends after a step, from the lists after it.                             *)
LEMMA EndsNext ==
  ASSUME AfterDone(inst'.queue), AfterDone(rx'),
         In(Done, inst'.queue) \/ In(Done, rx') => inst'.done,
         In(Done, rx') => ~Has(inst'.queue, "task"),
         "client" \notin shut' =>
           /\ source'.finished => inst'.done /\ ~Has(inst'.queue, "task") /\ ~Has(rx', "task")
           /\ client'.mode \in {"flush", "freed"} => source'.finished
           /\ source'.cyclemon => source'.open
  PROVE  Ends'
  BY DEF Ends, AfterDone, In, Has, Done

(* Filed after a step, from the tree and the tasks after it.               *)
LEMMA FiledNext ==
  ASSUME inst'.tree \subseteq DOMAIN task',
         \A t \in Task :
           /\ mine'[t].id # 0 <=> mine'[t].st \in {"gotid", "data"}
           /\ mine'[t].id # 0 => mine'[t].id \in DOMAIN task' /\ task'[mine'[t].id].of = t
           /\ mine'[t].data = IF mine'[t].st = "data" THEN 1 ELSE 0
           /\ mine'[t].st = "data" => mine'[t].id \notin inst'.tree
           /\ mine'[t].st = "gotid" => mine'[t].id \in inst'.tree \/ t \in inst'.data
           /\ t \in inst'.data => mine'[t].st = "gotid" /\ mine'[t].id \notin inst'.tree /\ inst'.left > 0
  PROVE  Filed'
  BY DEF Filed

(* Tasked after a step, from the lists of the source after it.             *)
LEMMA TaskedNext ==
  ASSUME \A i \in Id : i \in source'.tasks <=> i \in DOMAIN task' /\ task'[i].st # "freed",
         \A i, j \in DOMAIN task' : task'[i].of = task'[j].of => i = j,
         Apart(source'.commands), Apart(done_queue'),
         \A i \in Id : In(i, source'.commands) => i \in DOMAIN task' /\ task'[i].st = "queued",
         \A i \in Id : In(i, done_queue') => i \in DOMAIN task' /\ task'[i].st = "done"
  PROVE  Tasked'
  BY DEF Tasked, Apart, In, Id

(* What is left to answer after a step.                                    *)
LEMMA RestNext ==
  ASSUME NEW w, IF client'.mode \in {"flush", "freed"} THEN ~Has(w, "task") ELSE w = rx'
  PROVE  Rest(w)'
  BY DEF Rest, Has

(* Paired after a step, from what each of the three lists of answers       *)
(* leaves.                                                                 *)
LEMMA PairedNext ==
  ASSUME NEW a \in Seq(Line), NEW b \in Seq(Line), NEW w \in Seq(Line),
         Flow(tx', Pairs', inst'.waitok, a), Flow(client'.wb, Pairs', a, b),
         Flow(client'.txt, Pairs', b, w),
         IF client'.mode \in {"flush", "freed"} THEN ~Has(w, "task") ELSE w = rx'
  PROVE  Paired'
  BY RestNext DEF Paired

(* Owing after a step, from the tasks and results after it.                *)
LEMMA OwingNext ==
  ASSUME NEW K, K \subseteq DOMAIN task', Owes(K, source'.tasks, client'.objs)
  PROVE  Owing(K)'
  BY DEF Owing, Owes, In, Result, Id

(* Known after a step, from the ids that each of the three lists of        *)
(* answers leaves.                                                         *)
LEMMA KnownNext ==
  ASSUME NEW a \in SUBSET Id, NEW b \in SUBSET Id, NEW K \in SUBSET Id,
         Flow(tx', Knows, inst'.tree, a), Flow(client'.wb, Knows, a, b),
         Flow(client'.txt, Knows, b, K), Owing(K)'
  PROVE  Known'
<1>1. Knows' = Knows
  BY DEF Knows, Answer, Id, Ok, Err, More, Piece, OkId, DataHeader, CycleObj, Result
<1>2. (SUBSET Id)' = SUBSET Id
  BY DEF Id
<1> QED
  BY <1>1, <1>2 DEF Known

-----------------------------------------------------------------------------
(* the program                                                             *)

(* A step of the program leaves what is on its way alone.                  *)
LEMMA ProgramRest ==
  ASSUME IInv, UNCHANGED <<daemon, rx, tx, shut, fault>>,
         inst' \in InstT, mine' \in [Task -> MineT],
         UNCHANGED <<inst.waitok, inst.tree, inst.data, inst.left, inst.eof>>,
         \A t \in Task : /\ mine'[t].id = mine[t].id /\ mine'[t].data = mine[t].data
                         /\ mine'[t].st \in {"gotid", "data"} <=> mine[t].st \in {"gotid", "data"}
                         /\ mine'[t].st = "data" <=> mine[t].st = "data"
  PROVE  Shapes' /\ Tasked' /\ Filed' /\ Freed' /\ Streams' /\ Late'
<1>1. UNCHANGED <<client, source, task, done_queue, rx, tx, shut, fault>>
  BY DEF daemon
<1>2. Shapes'
  BY <1>1 DEF IInv, Shapes, Writing, ClientT, SourceT, TaskT
<1>3. Tasked'
  BY <1>1, TaskedKept DEF IInv
<1>4. Filed'
  <2>1. Filed
    BY DEF IInv
  <2> QED
    BY <1>1, <2>1, FiledKept
<1>5. Freed'
  BY <1>1, FreedKept DEF IInv
<1>6. Streams'
  <2>1. Streams
    BY DEF IInv
  <2> QED
    BY <1>1, <2>1, StreamsKept
<1>7. Late'
  BY <1>1, LateKept DEF IInv
<1> QED
  BY <1>2, <1>3, <1>4, <1>5, <1>6, <1>7

(* scamper_inst_do puts a new task in the queue.                           *)
LEMMA InstDoKept ==
  ASSUME IInv, Alive, NEW t \in Task, InstDo(t), UNCHANGED <<daemon, rx, tx, shut, fault>>
  PROVE  IInv'
<1>1. inst \in InstT /\ mine \in [Task -> MineT]
  BY DEF IInv, Shapes
<1>2. /\ inst.queue \in Seq(Line) /\ inst'.queue = Append(inst.queue, Do(t))
      /\ UNCHANGED <<inst.waitok, inst.tree, inst.data, inst.left, inst.eof, inst.done>>
      /\ ~inst.done
  BY <1>1 DEF InstDo, InstT
<1>3. Do(t) \in Line /\ inst'.queue \in Seq(Line)
  BY <1>2, LineHas, AppendProperties
<1>4. inst' \in InstT
  BY <1>1, <1>3 DEF InstDo, InstT
<1>5. /\ mine' \in [Task -> MineT] /\ mine[t].st = "new" /\ mine'[t].st = "queue"
      /\ \A u \in Task : u # t => mine'[u] = mine[u]
      /\ \A u \in Task : /\ mine'[u].id = mine[u].id /\ mine'[u].data = mine[u].data
                         /\ mine'[u].halt = mine[u].halt
  BY <1>1 DEF InstDo, MineT
<1>6. \A u \in Task : /\ mine'[u].st \in {"gotid", "data"} <=> mine[u].st \in {"gotid", "data"}
                      /\ mine'[u].st = "data" <=> mine[u].st = "data"
  <2>1. \A u \in Task : u = t \/ mine'[u].st = mine[u].st
    BY <1>5
  <2> QED
    BY <1>5, <2>1
<1>7. Shapes' /\ Tasked' /\ Filed' /\ Freed' /\ Streams' /\ Late'
  BY <1>2, <1>4, <1>5, <1>6, ProgramRest
<1>8. UNCHANGED <<source, client, task, rx, shut>>
  BY DEF daemon
<1>9. ~In(Do(t), inst.queue)
  BY <1>5 DEF IInv, Asked
<1>10. /\ \A x : In(x, inst'.queue) <=> In(x, inst.queue) \/ x = Do(t)
       /\ \A k : Has(inst'.queue, k) <=> Has(inst.queue, k) \/ k = "task"
       /\ Once(inst.queue) => Once(inst'.queue)
       /\ AfterDone(inst.queue) /\ ~In(Done, inst.queue) => AfterDone(inst'.queue)
  BY <1>2, <1>3, <1>9, LineHas, MoreIn
<1>11. Asked'
  <2>1. Once(inst'.queue) /\ Once(rx') /\ Once(inst'.waitok)
    BY <1>2, <1>8, <1>10 DEF IInv, Asked
  <2>2. inst'.waitok = inst.waitok /\ rx' = rx /\ \A u : MadeOf(u)' <=> MadeOf(u)
    BY <1>2, <1>8 DEF MadeOf
  <2>3. ASSUME NEW u \in Task
        PROVE  /\ In(Do(u), inst'.queue) <=> mine'[u].st = "queue"
               /\ In(Do(u), inst'.waitok) <=> mine'[u].st = "waitok"
               /\ In(Do(u), rx') \/ MadeOf(u)' => mine'[u].st \notin {"new", "queue", "dropped"}
               /\ ~(In(Do(u), rx') /\ MadeOf(u)')
    <3>1. /\ In(Do(u), inst.queue) <=> mine[u].st = "queue"
          /\ In(Do(u), inst.waitok) <=> mine[u].st = "waitok"
          /\ In(Do(u), rx) \/ MadeOf(u) => mine[u].st \notin {"new", "queue", "dropped"}
          /\ ~(In(Do(u), rx) /\ MadeOf(u))
      BY DEF IInv, Asked
    <3>2. CASE u = t
      BY <1>5, <1>10, <2>2, <3>1, <3>2
    <3>3. CASE u # t
      <4>1. Do(u) # Do(t) /\ mine'[u] = mine[u]
        BY <1>5, <3>3, LineHas
      <4> QED
        BY <1>10, <2>2, <3>1, <4>1
    <3> QED
      BY <3>2, <3>3
  <2>4. ASSUME NEW u \in Task, NEW i \in Id,
               In(Halt(u, i), inst'.queue) \/ In(Halt(u, i), rx') \/ In(Halt(u, i), inst'.waitok)
        PROVE  i \in DOMAIN task' /\ mine'[u].halt
    <3>1. In(Halt(u, i), inst.queue) \/ In(Halt(u, i), rx) \/ In(Halt(u, i), inst.waitok)
      BY <1>10, <2>2, <2>4, LineHas
    <3> QED
      BY <1>5, <1>8, <3>1 DEF IInv, Asked
  <2> QED
    BY <2>1, <2>3, <2>4, AskedNext
<1>12. Ends'
  <2>1. ~In(Done, inst.queue) /\ ~In(Done, rx) /\ ("client" \notin shut => ~source.finished)
    BY <1>2 DEF IInv, Ends
  <2>2. AfterDone(inst'.queue) /\ ~In(Done, inst'.queue)
    BY <1>10, <2>1, LineHas DEF IInv, Ends
  <2>3. AfterDone(rx) /\ ("client" \notin shut => /\ client.mode \in {"flush", "freed"} => source.finished
                                                  /\ source.cyclemon => source.open)
    BY DEF IInv, Ends
  <2> QED
    BY <1>8, <2>1, <2>2, <2>3, EndsNext
<1> QED
  BY <1>7, <1>11, <1>12 DEF IInv

(* scamper_inst_done puts "done" in the queue, once.                       *)
LEMMA InstDoneKept ==
  ASSUME IInv, Alive, InstDone, UNCHANGED <<daemon, rx, tx, shut, fault>>
  PROVE  IInv'
<1>1. inst \in InstT /\ mine \in [Task -> MineT] /\ mine' = mine
  BY DEF IInv, Shapes, InstDone
<1>2. /\ inst.queue \in Seq(Line) /\ inst'.queue = Append(inst.queue, Done)
      /\ UNCHANGED <<inst.waitok, inst.tree, inst.data, inst.left, inst.eof>>
      /\ ~inst.done /\ inst'.done
  BY <1>1 DEF InstDone, InstT
<1>3. inst'.queue \in Seq(Line)
  BY <1>2, LineHas, AppendProperties
<1>4. inst' \in InstT
  BY <1>1, <1>3 DEF InstDone, InstT
<1>5. Shapes' /\ Tasked' /\ Filed' /\ Freed' /\ Streams' /\ Late'
  BY <1>1, <1>2, <1>4, ProgramRest
<1>6. UNCHANGED <<source, client, task, rx, shut>>
  BY DEF daemon
<1>7. /\ \A x : In(x, inst'.queue) <=> In(x, inst.queue) \/ x = Done
      /\ \A k : Has(inst'.queue, k) <=> Has(inst.queue, k) \/ k = "done"
      /\ Once(inst.queue) => Once(inst'.queue)
      /\ AfterDone(inst.queue) => AfterDone(inst'.queue)
  BY <1>2, LineHas, MoreIn
<1>8. Asked'
  <2>1. Once(inst'.queue) /\ Once(rx') /\ Once(inst'.waitok)
    BY <1>2, <1>6, <1>7 DEF IInv, Asked
  <2>2. inst'.waitok = inst.waitok /\ rx' = rx /\ \A u : MadeOf(u)' <=> MadeOf(u)
    BY <1>2, <1>6 DEF MadeOf
  <2>3. \A u : /\ In(Do(u), inst'.queue) <=> In(Do(u), inst.queue)
               /\ \A i : In(Halt(u, i), inst'.queue) <=> In(Halt(u, i), inst.queue)
    BY <1>7, LineHas
  <2>4. \A u \in Task :
          /\ In(Do(u), inst'.queue) <=> mine'[u].st = "queue"
          /\ In(Do(u), inst'.waitok) <=> mine'[u].st = "waitok"
          /\ In(Do(u), rx') \/ MadeOf(u)' => mine'[u].st \notin {"new", "queue", "dropped"}
          /\ ~(In(Do(u), rx') /\ MadeOf(u)')
    BY <1>1, <2>2, <2>3 DEF IInv, Asked
  <2>5. \A u \in Task, i \in Id :
          In(Halt(u, i), inst'.queue) \/ In(Halt(u, i), rx') \/ In(Halt(u, i), inst'.waitok)
          => i \in DOMAIN task' /\ mine'[u].halt
    BY <1>1, <1>6, <2>2, <2>3 DEF IInv, Asked
  <2> QED
    BY <2>1, <2>4, <2>5, AskedNext
<1>9. Ends'
  <2>1. ~In(Done, rx) /\ ("client" \notin shut => ~source.finished)
    BY <1>2 DEF IInv, Ends
  <2>2. AfterDone(inst'.queue)
    BY <1>7 DEF IInv, Ends
  <2>3. AfterDone(rx) /\ ("client" \notin shut => /\ client.mode \in {"flush", "freed"} => source.finished
                                                  /\ source.cyclemon => source.open)
    BY DEF IInv, Ends
  <2> QED
    BY <1>2, <1>6, <2>1, <2>2, <2>3, EndsNext
<1> QED
  BY <1>5, <1>8, <1>9 DEF IInv

(* scamper_task_halt: a task that is still in the queue is taken out of    *)
(* it; for one that has its id a halt is put there.                        *)
LEMMA TaskHaltKept ==
  ASSUME IInv, Alive, NEW t \in Task, TaskHalt(t), UNCHANGED <<daemon, rx, tx, shut, fault>>
  PROVE  IInv'
<1>1. inst \in InstT /\ mine \in [Task -> MineT] /\ inst.queue \in Seq(Line)
  BY DEF IInv, Shapes, InstT
<1>2. UNCHANGED <<source, client, task, rx, shut>>
  BY DEF daemon
<1>3. PICK Q : Q = inst.queue
  OBVIOUS
<1>4. /\ AfterDone(Q) /\ AfterDone(rx) /\ Once(Q) /\ Once(rx) /\ Once(inst.waitok)
      /\ In(Done, Q) \/ In(Done, rx) => inst.done
      /\ In(Done, rx) => ~Has(Q, "task")
      /\ "client" \notin shut =>
           /\ source.finished => inst.done /\ ~Has(Q, "task") /\ ~Has(rx, "task")
           /\ client.mode \in {"flush", "freed"} => source.finished
           /\ source.cyclemon => source.open
  BY <1>3 DEF IInv, Ends, Asked
<1>5. /\ \A u \in Task :
           /\ In(Do(u), Q) <=> mine[u].st = "queue"
           /\ In(Do(u), inst.waitok) <=> mine[u].st = "waitok"
           /\ In(Do(u), rx) \/ MadeOf(u) => mine[u].st \notin {"new", "queue", "dropped"}
           /\ ~(In(Do(u), rx) /\ MadeOf(u))
      /\ \A u \in Task, i \in Id :
           In(Halt(u, i), Q) \/ In(Halt(u, i), rx) \/ In(Halt(u, i), inst.waitok)
           => i \in DOMAIN task /\ mine[u].halt
  BY <1>3 DEF IInv, Asked
<1>6. \A u : MadeOf(u)' <=> MadeOf(u)
  BY <1>2 DEF MadeOf
<1>7. CASE mine[t].st = "waitok" /\ mine' = [mine EXCEPT ![t].halt = TRUE] /\ UNCHANGED inst
  <2>1. /\ mine' \in [Task -> MineT]
        /\ \A u \in Task : /\ mine'[u].id = mine[u].id /\ mine'[u].data = mine[u].data
                           /\ mine'[u].st = mine[u].st /\ (mine[u].halt => mine'[u].halt)
    BY <1>1, <1>7 DEF MineT
  <2>2. Shapes' /\ Tasked' /\ Filed' /\ Freed' /\ Streams' /\ Late'
    BY <1>1, <1>7, <2>1, ProgramRest
  <2>3. Asked'
    <3>1. Asked
      BY DEF IInv
    <3> QED
      BY <1>2, <1>6, <1>7, <2>1, <3>1, AskedKept
  <2>4. Ends'
    BY <1>2, <1>7, EndsKept DEF IInv
  <2> QED
    BY <2>2, <2>3, <2>4 DEF IInv
<1>8. CASE /\ mine[t].st = "gotid" /\ mine' = [mine EXCEPT ![t].halt = TRUE]
           /\ inst' = [inst EXCEPT !.queue = Append(@, Halt(t, mine[t].id))]
  <2>1. /\ mine' \in [Task -> MineT] /\ mine'[t].halt
        /\ \A u \in Task : /\ mine'[u].id = mine[u].id /\ mine'[u].data = mine[u].data
                           /\ mine'[u].st = mine[u].st /\ (mine[u].halt => mine'[u].halt)
    BY <1>1, <1>8 DEF MineT
  <2>2. PICK n : n = mine[t].id
    OBVIOUS
  <2>3. n \in Id /\ n \in DOMAIN task
    BY <1>1, <1>8, <2>2 DEF IInv, Filed, MineT
  <2>4. Halt(t, n) \in Line /\ Append(Q, Halt(t, n)) \in Seq(Line)
    BY <1>1, <1>3, <2>3, LineHas, AppendProperties
  <2>5. /\ inst' \in InstT /\ inst'.queue = Append(Q, Halt(t, n))
        /\ UNCHANGED <<inst.waitok, inst.tree, inst.data, inst.left, inst.eof, inst.done>>
    BY <1>1, <1>3, <1>8, <2>2, <2>4 DEF InstT
  <2>6. Shapes' /\ Tasked' /\ Filed' /\ Freed' /\ Streams' /\ Late'
    BY <2>1, <2>5, ProgramRest
  <2>7. /\ \A x : In(x, inst'.queue) <=> In(x, Q) \/ x = Halt(t, n)
        /\ Once(inst'.queue) /\ AfterDone(inst'.queue)
        /\ Has(inst'.queue, "task") <=> Has(Q, "task")
    <3>1. Halt(t, n).k = "halt"
      BY LineHas
    <3>2. Q \in Seq(Line)
      BY <1>1, <1>3
    <3> QED
      BY <1>4, <2>4, <2>5, <3>1, <3>2, MoreIn
  <2>8. Asked'
    <3>1. Once(inst'.queue) /\ Once(rx') /\ Once(inst'.waitok)
      BY <1>2, <1>4, <2>5, <2>7
    <3>2. \A u \in Task :
            /\ In(Do(u), inst'.queue) <=> mine'[u].st = "queue"
            /\ In(Do(u), inst'.waitok) <=> mine'[u].st = "waitok"
            /\ In(Do(u), rx') \/ MadeOf(u)' => mine'[u].st \notin {"new", "queue", "dropped"}
            /\ ~(In(Do(u), rx') /\ MadeOf(u)')
      BY <1>2, <1>5, <1>6, <2>1, <2>5, <2>7, LineHas
    <3>3. \A u \in Task, i \in Id :
            In(Halt(u, i), inst'.queue) \/ In(Halt(u, i), rx') \/ In(Halt(u, i), inst'.waitok)
            => i \in DOMAIN task' /\ mine'[u].halt
      <4> SUFFICES ASSUME NEW u \in Task, NEW i \in Id,
                          In(Halt(u, i), inst'.queue) \/ In(Halt(u, i), rx') \/ In(Halt(u, i), inst'.waitok)
                   PROVE  i \in DOMAIN task' /\ mine'[u].halt
        OBVIOUS
      <4>1. CASE Halt(u, i) = Halt(t, n)
        <5>1. u = t /\ i = n
          BY <4>1, LineHas
        <5> QED
          BY <1>2, <2>1, <2>3, <5>1
      <4>2. CASE Halt(u, i) # Halt(t, n)
        BY <1>2, <1>5, <2>1, <2>5, <2>7, <4>2
      <4> QED
        BY <4>1, <4>2
    <3> QED
      BY <3>1, <3>2, <3>3, AskedNext
  <2>9. Ends'
    BY <1>2, <1>4, <2>5, <2>7, LineHas, EndsNext
  <2> QED
    BY <2>6, <2>8, <2>9 DEF IInv
<1>9. CASE /\ mine[t].st = "queue" /\ mine' = [mine EXCEPT ![t].st = "dropped", ![t].halt = TRUE]
           /\ inst' = [inst EXCEPT !.queue = Without(@, Do(t))]
  <2>1. /\ mine' \in [Task -> MineT] /\ mine'[t].st = "dropped"
        /\ \A u \in Task : /\ mine'[u].id = mine[u].id /\ mine'[u].data = mine[u].data
                           /\ (mine[u].halt => mine'[u].halt) /\ (u # t => mine'[u].st = mine[u].st)
    BY <1>1, <1>9 DEF MineT
  <2>2. \A u \in Task : /\ mine'[u].st \in {"gotid", "data"} <=> mine[u].st \in {"gotid", "data"}
                        /\ mine'[u].st = "data" <=> mine[u].st = "data"
    <3>1. \A u \in Task : u = t \/ mine'[u].st = mine[u].st
      BY <2>1
    <3> QED
      BY <1>9, <2>1, <3>1
  <2>3. /\ Without(Q, Do(t)) \in Seq(Line) /\ Within(Without(Q, Do(t)), Q)
        /\ \A y : In(y, Without(Q, Do(t))) <=> In(y, Q) /\ y # Do(t)
    <3>1. \A i, j \in DOMAIN Q : Q[i] = Do(t) /\ Q[j] = Do(t) => i = j
      BY <1>4, LineHas DEF Once
    <3> QED
      BY <1>1, <1>3, <3>1, WithoutIn
  <2>4. /\ inst' \in InstT /\ inst'.queue = Without(Q, Do(t))
        /\ UNCHANGED <<inst.waitok, inst.tree, inst.data, inst.left, inst.eof, inst.done>>
    BY <1>1, <1>3, <1>9, <2>3 DEF InstT
  <2>5. Shapes' /\ Tasked' /\ Filed' /\ Freed' /\ Streams' /\ Late'
    BY <2>1, <2>2, <2>4, ProgramRest
  <2>6. /\ Once(inst'.queue) /\ AfterDone(inst'.queue)
        /\ Has(inst'.queue, "task") => Has(Q, "task")
    BY <1>1, <1>3, <1>4, <2>3, <2>4, WithinKept
  <2>7. Asked'
    <3>1. Once(inst'.queue) /\ Once(rx') /\ Once(inst'.waitok)
      BY <1>2, <1>4, <2>4, <2>6
    <3>2. ASSUME NEW u \in Task
          PROVE  /\ In(Do(u), inst'.queue) <=> mine'[u].st = "queue"
                 /\ In(Do(u), inst'.waitok) <=> mine'[u].st = "waitok"
                 /\ In(Do(u), rx') \/ MadeOf(u)' => mine'[u].st \notin {"new", "queue", "dropped"}
                 /\ ~(In(Do(u), rx') /\ MadeOf(u)')
      <4>1. CASE u = t
        BY <1>2, <1>5, <1>6, <1>9, <2>1, <2>3, <2>4, <4>1
      <4>2. CASE u # t
        <5>1. Do(u) # Do(t)
          BY <4>2, LineHas
        <5> QED
          BY <1>2, <1>5, <1>6, <2>1, <2>3, <2>4, <4>2, <5>1
      <4> QED
        BY <4>1, <4>2
    <3>3. \A u \in Task, i \in Id :
            In(Halt(u, i), inst'.queue) \/ In(Halt(u, i), rx') \/ In(Halt(u, i), inst'.waitok)
            => i \in DOMAIN task' /\ mine'[u].halt
      BY <1>2, <1>5, <2>1, <2>3, <2>4
    <3> QED
      BY <3>1, <3>2, <3>3, AskedNext
  <2>8. Ends'
    BY <1>2, <1>4, <2>3, <2>4, <2>6, LineHas, EndsNext
  <2> QED
    BY <2>5, <2>7, <2>8 DEF IInv
<1> QED
  BY <1>7, <1>8, <1>9 DEF TaskHalt

(* No call of the program breaks the invariant.                            *)
LEMMA ProgramKeeps ==
  ASSUME IInv, Program PROVE IInv'
<1>1. Alive /\ UNCHANGED <<daemon, rx, tx, shut, fault>>
  BY DEF Program
<1>2. CASE InstDone
  BY <1>1, <1>2, InstDoneKept
<1>3. CASE \E t \in Task : InstDo(t)
  BY <1>1, <1>3, InstDoKept
<1>4. CASE \E t \in Task : TaskHalt(t)
  BY <1>1, <1>4, TaskHaltKept
<1> QED
  BY <1>2, <1>3, <1>4 DEF Program

(* scamper_inst_free closes the program's end of the socket.               *)
LEMMA InstFreeKeeps ==
  ASSUME IInv, InstFree PROVE IInv'
<1>1. UNCHANGED <<daemon, rx, tx, inst, mine, fault>> /\ shut' = shut \cup {"client"}
      /\ fault = "none" /\ ~inst.eof
  BY DEF InstFree, Alive
<1>2. UNCHANGED <<client, source, task, done_queue>>
  BY <1>1 DEF daemon
<1>3. Shapes'
  BY <1>1, <1>2 DEF IInv, Shapes, Writing, ClientT, SourceT, TaskT, InstT, MineT
<1>4. Tasked'
  BY <1>2, TaskedKept DEF IInv
<1>5. Asked'
  <2>1. Asked /\ \A u : MadeOf(u)' <=> MadeOf(u)
    BY <1>2 DEF IInv, MadeOf
  <2> QED
    BY <1>1, <1>2, <2>1, AskedKept
<1>6. Filed'
  <2>1. Filed
    BY DEF IInv
  <2> QED
    BY <1>1, <1>2, <2>1, FiledKept
<1>7. Ends'
  BY <1>1, <1>2, EndsNext DEF IInv, Ends
<1>8. Freed'
  BY <1>1, <1>2 DEF IInv, Freed
<1>9. Streams' /\ Late'
  BY <1>1, StreamsOver DEF Late
<1> QED
  BY <1>3, <1>4, <1>5, <1>6, <1>7, <1>8, <1>9 DEF IInv

-----------------------------------------------------------------------------
(* the library                                                             *)

(* A command is sent: what is answered goes on after it.                   *)
LEMMA PairsMore ==
  ASSUME NEW x \in Line, NEW q \in Seq(Answer), NEW u \in Seq(Line), NEW v \in Seq(Line),
         Flow(q, Pairs, u, v)
  PROVE  Flow(q, Pairs, Append(u, x), Append(v, x))
<1>1. PICK g : g = [s \in Seq(Line) |-> Append(s, x)]
  OBVIOUS
<1>2. ASSUME NEW s, NEW c, NEW r, <<s, c, r>> \in Pairs
      PROVE  <<g[s], c, g[r]>> \in Pairs
  <2>1. s \in Seq(Line) /\ c \in Answer /\ r \in Seq(Line)
    BY <1>2, StepTypes
  <2>2. g[s] = Append(s, x) /\ g[r] = Append(r, x) /\ Append(s, x) \in Seq(Line) /\ Append(r, x) \in Seq(Line)
    BY <1>1, <2>1, AppendProperties
  <2>3. CASE c.k \in {"OK", "OK id", "ERR"}
    <3>1. s # <<>> /\ Meets(c, Head(s)) /\ r = Tail(s)
      BY <1>2, <2>1, <2>3, PairsStep
    <3>2. Append(s, x) # <<>> /\ Head(Append(s, x)) = Head(s) /\ Tail(Append(s, x)) = Append(Tail(s), x)
      BY <2>1, <3>1
    <3>3. PICK A \in Seq(Line), B \in Seq(Line) : A = Append(s, x) /\ B = Append(r, x)
      BY <2>2
    <3>4. A # <<>> /\ Meets(c, Head(A)) /\ B = Tail(A)
      BY <3>1, <3>2, <3>3
    <3>5. <<A, c, B>> \in Pairs
      BY ONLY <2>1, <2>3, <3>4, PairsStep
    <3> QED
      BY <2>2, <3>3, <3>5
  <2>4. CASE c.k \notin {"OK", "OK id", "ERR"}
    <3>1. r = s
      BY <1>2, <2>1, <2>4, PairsStep
    <3> QED
      BY <2>1, <2>2, <2>4, <3>1, PairsStep
  <2> QED
    BY <2>3, <2>4
<1>3. Len(q) \in Nat
  BY LenProperties
<1>4. Flow(q, Pairs, g[u], g[v])
  BY <1>2, <1>3, FlowMap
<1> QED
  BY <1>1, <1>4

(* What is said is answers.                                                *)
LEMMA SpokenSeq ==
  \A q \in Seq(Spoken) : q \in Seq(Answer)
  BY SpokenCases, SeqMonotonic

(* fd_write: the oldest command goes to scamper, and behind those that     *)
(* wait for an answer.                                                     *)
LEMMA FdSendKeeps ==
  ASSUME IInv, Alive, FdSend PROVE IInv'
<1> DEFINE x == Head(inst.queue)
           Q == Tail(inst.queue)
<1>1. /\ inst \in InstT /\ mine \in [Task -> MineT] /\ inst.queue \in Seq(Line) /\ rx \in Seq(Line)
      /\ inst.waitok \in Seq(Line) /\ inst.queue # <<>> /\ tx \in Seq(Answer)
      /\ client.wb \in Seq(Answer) /\ client.txt \in Seq(Answer)
  BY SpokenSeq DEF IInv, Shapes, InstT, ClientT, FdSend
<1>2. UNCHANGED <<client, source, task, done_queue, tx, shut, fault>> /\ "scamper" \notin shut /\ Alive
  BY DEF FdSend, daemon
<1>3. /\ rx' = Append(rx, x)
      /\ inst' = [inst EXCEPT !.queue = Tail(@), !.waitok = Append(@, x)]
      /\ mine' = IF x.k = "task" THEN [mine EXCEPT ![x.task].st = "waitok"] ELSE mine
  BY DEF FdSend
<1>4. /\ Q \in Seq(Line) /\ x \in Line /\ Within(Q, inst.queue) /\ In(x, inst.queue)
      /\ \A y : In(y, inst.queue) <=> y = x \/ In(y, Q)
      /\ Once(inst.queue) /\ x.k = "task" => ~In(x, Q)
      /\ \A k : Has(inst.queue, k) <=> x.k = k \/ Has(Q, k)
      /\ AfterDone(inst.queue) /\ x = Done => ~Has(Q, "task")
  BY <1>1, TailWithin
<1>5. Once(inst.queue) => Once(Q)
  BY <1>1, <1>4, WithinKept
<1>6. AfterDone(inst.queue) => AfterDone(Q)
  BY <1>1, <1>4, WithinKept
<1> HIDE DEF x, Q
<1>7. /\ inst'.queue = Q /\ inst'.waitok = Append(inst.waitok, x)
      /\ UNCHANGED <<inst.tree, inst.data, inst.left, inst.eof, inst.done>>
  BY <1>1, <1>3 DEF InstT, Q
<1>8. Append(inst.waitok, x) \in Seq(Line) /\ Append(rx, x) \in Seq(Line)
  BY <1>1, <1>4, AppendProperties
<1>9. inst' \in InstT
  BY <1>1, <1>3, <1>4, <1>7, <1>8 DEF InstT, Q
<1>10. /\ mine' \in [Task -> MineT]
       /\ \A u \in Task : /\ mine'[u].id = mine[u].id /\ mine'[u].data = mine[u].data
                          /\ mine'[u].halt = mine[u].halt
                          /\ mine'[u].st = IF x = Do(u) THEN "waitok" ELSE mine[u].st
  <2>1. CASE x.k = "task"
    <3>1. x.task \in Task /\ x = Do(x.task) /\ \A u : x = Do(u) <=> u = x.task
      BY <1>4, <2>1, LineCases, LineHas
    <3>2. PICK t \in Task : t = x.task
      BY <3>1
    <3>3. mine' = [mine EXCEPT ![t].st = "waitok"]
      BY <1>3, <2>1, <3>2
    <3>4. /\ mine' \in [Task -> MineT]
          /\ \A u \in Task : /\ mine'[u].id = mine[u].id /\ mine'[u].data = mine[u].data
                             /\ mine'[u].halt = mine[u].halt
                             /\ mine'[u].st = IF u = t THEN "waitok" ELSE mine[u].st
      BY <1>1, <3>3 DEF MineT
    <3> QED
      BY <3>1, <3>2, <3>4
  <2>2. CASE x.k # "task"
    <3>1. mine' = mine /\ \A u : x # Do(u)
      BY <1>3, <2>2, LineHas
    <3> QED
      BY <1>1, <3>1
  <2> QED
    BY <2>1, <2>2
<1>11. \A u \in Task : x = Do(u) => mine[u].st = "queue" /\ ~In(x, rx) /\ ~In(x, inst.waitok) /\ ~In(x, Q)
                                    /\ ~MadeOf(u)
  <2>1. \A u \in Task : x = Do(u) => mine[u].st = "queue" /\ ~In(x, Q)
    BY <1>4, LineHas DEF IInv, Asked
  <2> QED
    BY <2>1 DEF IInv, Asked
<1>12. Shapes'
  BY <1>1, <1>2, <1>3, <1>8, <1>9, <1>10 DEF IInv, Shapes, Writing, ClientT, SourceT, TaskT
<1>13. Tasked'
  BY <1>2, TaskedKept DEF IInv
<1>14. Filed'
  <2>1. Filed
    BY DEF IInv
  <2>2. \A u \in Task : /\ mine'[u].st \in {"gotid", "data"} <=> mine[u].st \in {"gotid", "data"}
                        /\ mine'[u].st = "data" <=> mine[u].st = "data"
    BY <1>10, <1>11
  <2> QED
    BY <1>2, <1>7, <1>10, <2>1, <2>2, FiledKept
<1>15. Freed'
  BY <1>2, <1>7, FreedKept DEF IInv
<1>16. /\ \A y : In(y, rx') <=> In(y, rx) \/ y = x
       /\ \A k : Has(rx', k) <=> Has(rx, k) \/ x.k = k
       /\ Once(rx')
       /\ AfterDone(rx) /\ (x.k = "task" => ~In(Done, rx)) => AfterDone(rx')
  <2>1. Once(rx) /\ (x.k = "task" => ~In(x, rx))
    <3>1. x.k = "task" => x.task \in Task /\ x = Do(x.task)
      BY <1>4, LineCases, LineHas
    <3> QED
      BY <1>11, <3>1 DEF IInv, Asked
  <2> QED
    BY <1>1, <1>3, <1>4, <2>1, MoreIn
<1>17. /\ \A y : In(y, inst'.waitok) <=> In(y, inst.waitok) \/ y = x
       /\ Once(inst'.waitok)
  <2>1. Once(inst.waitok) /\ (x.k = "task" => ~In(x, inst.waitok))
    <3>1. x.k = "task" => x.task \in Task /\ x = Do(x.task)
      BY <1>4, LineCases, LineHas
    <3> QED
      BY <1>11, <3>1 DEF IInv, Asked
  <2> QED
    BY <1>1, <1>4, <1>7, <2>1, MoreIn
<1>18. Asked'
  <2>1. Once(inst'.queue) /\ Once(rx') /\ Once(inst'.waitok)
    BY <1>5, <1>7, <1>16, <1>17 DEF IInv, Asked
  <2>2. ASSUME NEW u \in Task
        PROVE  /\ In(Do(u), inst'.queue) <=> mine'[u].st = "queue"
               /\ In(Do(u), inst'.waitok) <=> mine'[u].st = "waitok"
               /\ In(Do(u), rx') \/ MadeOf(u)' => mine'[u].st \notin {"new", "queue", "dropped"}
               /\ ~(In(Do(u), rx') /\ MadeOf(u)')
    <3>1. /\ In(Do(u), inst.queue) <=> mine[u].st = "queue"
          /\ In(Do(u), inst.waitok) <=> mine[u].st = "waitok"
          /\ In(Do(u), rx) \/ MadeOf(u) => mine[u].st \notin {"new", "queue", "dropped"}
          /\ ~(In(Do(u), rx) /\ MadeOf(u))
      BY DEF IInv, Asked
    <3>2. MadeOf(u)' <=> MadeOf(u)
      BY <1>2 DEF MadeOf
    <3>3. CASE x = Do(u)
      <4>1. mine'[u].st = "waitok"
        BY <1>10, <3>3
      <4> QED
        BY <1>7, <1>11, <1>16, <1>17, <3>2, <3>3, <4>1
    <3>4. CASE x # Do(u)
      <4>1. mine'[u].st = mine[u].st
        BY <1>10, <3>4
      <4> QED
        BY <1>4, <1>7, <1>16, <1>17, <3>1, <3>2, <3>4, <4>1
    <3> QED
      BY <3>3, <3>4
  <2>3. ASSUME NEW u \in Task, NEW i \in Id,
               In(Halt(u, i), inst'.queue) \/ In(Halt(u, i), rx') \/ In(Halt(u, i), inst'.waitok)
        PROVE  i \in DOMAIN task' /\ mine'[u].halt
    <3>1. In(Halt(u, i), inst.queue) \/ In(Halt(u, i), rx) \/ In(Halt(u, i), inst.waitok)
      BY <1>4, <1>7, <1>16, <1>17, <2>3
    <3> QED
      BY <1>2, <1>10, <3>1 DEF IInv, Asked
  <2> QED
    BY <2>1, <2>2, <2>3, AskedNext
<1>19. Ends'
  <2>1. /\ AfterDone(inst.queue) /\ AfterDone(rx)
        /\ In(Done, inst.queue) \/ In(Done, rx) => inst.done
        /\ In(Done, rx) => ~Has(inst.queue, "task")
        /\ "client" \notin shut =>
             /\ source.finished => inst.done /\ ~Has(inst.queue, "task") /\ ~Has(rx, "task")
             /\ client.mode \in {"flush", "freed"} => source.finished
             /\ source.cyclemon => source.open
    BY DEF IInv, Ends
  <2>2. AfterDone(inst'.queue) /\ AfterDone(rx')
    <3>1. x.k = "task" => ~In(Done, rx)
      BY <1>4, <2>1
    <3> QED
      BY <1>6, <1>7, <1>16, <2>1, <3>1
  <2>3. In(Done, inst'.queue) \/ In(Done, rx') => inst'.done
    BY <1>4, <1>7, <1>16, <2>1
  <2>4. In(Done, rx') => ~Has(inst'.queue, "task")
    BY <1>4, <1>7, <1>16, <2>1
  <2>5. "client" \notin shut' =>
             /\ source'.finished => inst'.done /\ ~Has(inst'.queue, "task") /\ ~Has(rx', "task")
             /\ client'.mode \in {"flush", "freed"} => source'.finished
             /\ source'.cyclemon => source'.open
    BY <1>2, <1>4, <1>7, <1>16, <2>1
  <2> QED
    BY <2>2, <2>3, <2>4, <2>5, EndsNext
<1>20. Late'
  BY <1>2 DEF Alive, Late
<1>21. Streams'
  <2> SUFFICES ASSUME "client" \notin shut PROVE (Paired /\ Framed /\ Known)'
    BY <1>2 DEF Streams
  <2>1. Paired'
    <3>1. PICK a \in Seq(Line), b \in Seq(Line), w \in Seq(Line) :
            /\ Flow(tx, Pairs, inst.waitok, a) /\ Flow(client.wb, Pairs, a, b)
            /\ Flow(client.txt, Pairs, b, w) /\ Rest(w)
      BY DEF IInv, Streams, Paired
    <3>2. /\ Flow(tx, Pairs, Append(inst.waitok, x), Append(a, x))
          /\ Flow(client.wb, Pairs, Append(a, x), Append(b, x))
          /\ Flow(client.txt, Pairs, Append(b, x), Append(w, x))
      BY <1>1, <1>4, <3>1, PairsMore
    <3>3. /\ Flow(tx', Pairs', inst'.waitok, Append(a, x))
          /\ Flow(client'.wb, Pairs', Append(a, x), Append(b, x))
          /\ Flow(client'.txt, Pairs', Append(b, x), Append(w, x))
      BY <1>2, <1>7, <3>2, PairsKept
    <3>4. /\ Append(a, x) \in Seq(Line) /\ Append(b, x) \in Seq(Line) /\ Append(w, x) \in Seq(Line)
      BY <1>4, AppendProperties
    <3>5. IF client'.mode \in {"flush", "freed"} THEN ~Has(Append(w, x), "task") ELSE Append(w, x) = rx'
      <4>1. CASE client.mode \in {"flush", "freed"}
        <5>1. ~Has(w, "task") /\ ~Has(inst.queue, "task")
          BY <3>1, <4>1 DEF Rest, IInv, Ends
        <5>2. x.k # "task"
          BY <1>4, <5>1
        <5> QED
          BY <1>2, <1>4, <4>1, <5>1, <5>2, MoreIn
      <4>2. CASE client.mode \notin {"flush", "freed"}
        BY <1>2, <1>3, <3>1, <4>2 DEF Rest
      <4> QED
        BY <4>1, <4>2
    <3> QED
      BY <3>3, <3>4, <3>5, PairedNext
  <2>2. Framed'
    BY <1>2, <1>7 DEF IInv, Streams, Framed, Remain
  <2>3. Known'
    <3>1. PICK a \in SUBSET Id, b \in SUBSET Id, K \in SUBSET Id :
            /\ Flow(tx, Knows, inst.tree, a) /\ Flow(client.wb, Knows, a, b)
            /\ Flow(client.txt, Knows, b, K) /\ Owing(K)
      BY DEF IInv, Streams, Known
    <3>2. Owing(K)'
      BY <1>2, <3>1 DEF Owing, Owes, In
    <3> QED
      BY <1>2, <1>7, <3>1, <3>2, KnownNext
  <2> QED
    BY <2>1, <2>2, <2>3
<1> QED
  BY <1>12, <1>13, <1>14, <1>15, <1>18, <1>19, <1>20, <1>21 DEF IInv

(* What is read is what the invariant says comes next.                     *)
LEMMA ReadStep ==
  ASSUME IInv, InstRead
  PROVE  \E w \in Seq(Line), l \in Nat, K \in SUBSET Id :
           /\ <<inst.waitok, Head(tx), w>> \in Pairs
           /\ <<inst.left, Head(tx), l>> \in Frames
           /\ <<inst.tree, Head(tx), K>> \in Knows
           /\ inst'.waitok = w /\ inst'.left = l /\ inst'.tree = K => Streams'
<1>1. /\ tx # <<>> /\ tx' = Tail(tx) /\ "client" \notin shut
      /\ UNCHANGED <<client, source, task, done_queue, rx>>
  BY DEF InstRead, Alive, daemon
<1>2. tx \in Seq(Answer)
  BY DEF IInv, Shapes
<1>3. PICK a \in Seq(Line), b \in Seq(Line), v \in Seq(Line) :
        /\ Flow(tx, Pairs, inst.waitok, a) /\ Flow(client.wb, Pairs, a, b)
        /\ Flow(client.txt, Pairs, b, v) /\ Rest(v)
  BY <1>1 DEF IInv, Streams, Paired
<1>4. PICK w : <<inst.waitok, Head(tx), w>> \in Pairs /\ Flow(Tail(tx), Pairs, w, a)
  BY <1>1, <1>2, <1>3, FlowHead
<1>5. PICK n \in Nat : Flow(tx, Frames, inst.left, n) /\ Flow(client.wb, Frames, n, Remain)
  BY <1>1 DEF IInv, Streams, Framed
<1>6. PICK l : <<inst.left, Head(tx), l>> \in Frames /\ Flow(Tail(tx), Frames, l, n)
  BY <1>1, <1>2, <1>5, FlowHead
<1>7. PICK A \in SUBSET Id, B \in SUBSET Id, J \in SUBSET Id :
        /\ Flow(tx, Knows, inst.tree, A) /\ Flow(client.wb, Knows, A, B)
        /\ Flow(client.txt, Knows, B, J) /\ Owing(J)
  BY <1>1 DEF IInv, Streams, Known
<1>8. PICK K : <<inst.tree, Head(tx), K>> \in Knows /\ Flow(Tail(tx), Knows, K, A)
  BY <1>1, <1>2, <1>7, FlowHead
<1>9. w \in Seq(Line) /\ l \in Nat /\ K \in SUBSET Id
  <2>1. PICK e, f, g : e = <<inst.waitok, Head(tx), w>> /\ f = <<inst.left, Head(tx), l>>
                       /\ g = <<inst.tree, Head(tx), K>>
    OBVIOUS
  <2>2. e[3] = w /\ f[3] = l /\ g[3] = K
    BY <2>1
  <2> QED
    BY <1>4, <1>6, <1>8, <2>1, <2>2, StepTypes
<1>10. ASSUME inst'.waitok = w, inst'.left = l, inst'.tree = K
       PROVE  Streams'
  <2>1. Paired'
    <3>1. /\ Flow(tx', Pairs', inst'.waitok, a) /\ Flow(client'.wb, Pairs', a, b)
          /\ Flow(client'.txt, Pairs', b, v)
      BY <1>1, <1>3, <1>4, <1>10, PairsKept
    <3>2. IF client'.mode \in {"flush", "freed"} THEN ~Has(v, "task") ELSE v = rx'
      BY <1>1, <1>3 DEF Rest
    <3> QED
      BY <3>1, <3>2, PairedNext
  <2>2. Framed'
    <3>1. Frames' = Frames
      BY DEF Frames, Answer, Id, Ok, Err, More, Piece, OkId, DataHeader, CycleObj, Result
    <3>2. Remain' = Remain
      BY <1>1 DEF Remain
    <3> QED
      BY <1>1, <1>5, <1>6, <1>10, <3>1, <3>2 DEF Framed
  <2>3. Known'
    <3>1. Owing(J)'
      BY <1>1, <1>7 DEF Owing, Owes, In
    <3> QED
      BY <1>1, <1>7, <1>8, <1>10, <3>1, KnownNext
  <2> QED
    BY <2>1, <2>2, <2>3 DEF Streams
<1>11. /\ <<inst.waitok, Head(tx), w>> \in Pairs
       /\ <<inst.left, Head(tx), l>> \in Frames
       /\ <<inst.tree, Head(tx), K>> \in Knows
       /\ inst'.waitok = w /\ inst'.left = l /\ inst'.tree = K => Streams'
  BY <1>4, <1>6, <1>8, <1>10
<1> QED
  BY <1>9, <1>11, Zenon

(* An answer that is used changes what is filed, and the oldest command.   *)
LEMMA ReadRest ==
  ASSUME IInv, InstRead, inst' \in InstT, mine' \in [Task -> MineT],
         UNCHANGED <<fault, shut, inst.queue, inst.done, inst.eof>>, Streams'
  PROVE  Shapes' /\ Tasked' /\ Ends' /\ Freed' /\ Late'
<1>1. /\ tx # <<>> /\ tx' = Tail(tx) /\ Alive
      /\ UNCHANGED <<client, source, task, done_queue, rx>>
  BY DEF InstRead, daemon
<1>2. tx \in Seq(Answer)
  BY DEF IInv, Shapes
<1>3. Tail(tx) \in Seq(Answer)
  BY <1>1, <1>2, HeadTailProperties
<1>4. Shapes'
  BY <1>1, <1>3 DEF IInv, Shapes, Writing, ClientT, SourceT, TaskT
<1>5. Tasked'
  BY <1>1, TaskedKept DEF IInv
<1>6. Ends'
  BY <1>1, EndsKept DEF IInv
<1>7. Freed'
  BY <1>1 DEF IInv, Freed, Alive
<1>8. Late'
  BY <1>1 DEF Late, Alive
<1> QED
  BY <1>4, <1>5, <1>6, <1>7, <1>8

(* An answer that cannot be used ends it.                                  *)
LEMMA FailRest ==
  ASSUME IInv, InstRead, NEW what, Fail(what), Late'
  PROVE  IInv'
<1>1. /\ tx # <<>> /\ tx' = Tail(tx) /\ Alive
      /\ UNCHANGED <<client, source, task, done_queue, rx, inst, mine>>
      /\ shut' = shut \cup {"client"}
  BY DEF InstRead, daemon, Fail
<1>2. tx \in Seq(Answer)
  BY DEF IInv, Shapes
<1>3. Tail(tx) \in Seq(Answer)
  BY <1>1, <1>2, HeadTailProperties
<1>4. Shapes'
  BY <1>1, <1>3 DEF IInv, Shapes, Writing, ClientT, SourceT, TaskT, InstT, MineT
<1>5. Tasked'
  BY <1>1, TaskedKept DEF IInv
<1>6. Ends'
  BY <1>1, EndsNext DEF IInv, Ends
<1>7. Freed'
  BY <1>1 DEF IInv, Freed, Alive
<1>8. Streams'
  BY <1>1, StreamsOver
<1>9. Asked'
  <2>1. Asked /\ \A u : MadeOf(u)' <=> MadeOf(u)
    BY <1>1 DEF IInv, MadeOf
  <2> QED
    BY <1>1, <2>1, AskedKept
<1>10. Filed'
  <2>1. Filed
    BY DEF IInv
  <2> QED
    BY <1>1, <2>1, FiledKept
<1> QED
  BY <1>4, <1>5, <1>6, <1>7, <1>8, <1>9, <1>10 DEF IInv

(* The oldest command is answered.                                         *)
LEMMA AnsweredAsked ==
  ASSUME IInv, InstRead, inst.waitok # <<>>, inst'.waitok = Tail(inst.waitok), inst'.queue = inst.queue,
         \A t \in Task : mine'[t].halt = mine[t].halt,
         \A t \in Task : IF Head(inst.waitok) = Do(t)
                         THEN mine'[t].st \notin {"new", "queue", "dropped", "waitok"}
                         ELSE mine'[t].st = mine[t].st
  PROVE  Asked'
<1>1. UNCHANGED <<task, rx>> /\ inst.waitok \in Seq(Line)
  BY DEF InstRead, daemon, IInv, Shapes, InstT
<1> DEFINE x == Head(inst.waitok)
           W == Tail(inst.waitok)
<1>2. /\ Within(W, inst.waitok) /\ W \in Seq(Line) /\ x \in Line
      /\ \A y : In(y, inst.waitok) <=> y = x \/ In(y, W)
      /\ Once(inst.waitok) /\ x.k = "task" => ~In(x, W)
  BY <1>1, TailWithin
<1>3. Once(inst.waitok) => Once(W)
  BY <1>1, <1>2, WithinKept
<1>4. inst'.waitok = W /\ \A t \in Task : IF x = Do(t) THEN mine'[t].st \notin {"new", "queue", "dropped", "waitok"}
                                          ELSE mine'[t].st = mine[t].st
  OBVIOUS
<1> HIDE DEF x, W
<1>5. Once(inst'.queue) /\ Once(rx') /\ Once(inst'.waitok)
  BY <1>1, <1>3, <1>4 DEF IInv, Asked
<1>6. ASSUME NEW t \in Task
      PROVE  /\ In(Do(t), inst'.queue) <=> mine'[t].st = "queue"
             /\ In(Do(t), inst'.waitok) <=> mine'[t].st = "waitok"
             /\ In(Do(t), rx') \/ MadeOf(t)' => mine'[t].st \notin {"new", "queue", "dropped"}
             /\ ~(In(Do(t), rx') /\ MadeOf(t)')
  <2>1. /\ In(Do(t), inst.queue) <=> mine[t].st = "queue"
        /\ In(Do(t), inst.waitok) <=> mine[t].st = "waitok"
        /\ In(Do(t), rx) \/ MadeOf(t) => mine[t].st \notin {"new", "queue", "dropped"}
        /\ ~(In(Do(t), rx) /\ MadeOf(t))
    BY DEF IInv, Asked
  <2>2. MadeOf(t)' <=> MadeOf(t)
    BY <1>1 DEF MadeOf
  <2>3. CASE x = Do(t)
    <3>1. mine[t].st = "waitok" /\ ~In(x, W)
      <4>1. x.k = "task" /\ Once(inst.waitok)
        BY <2>3, LineHas DEF IInv, Asked
      <4> QED
        BY <1>2, <2>1, <2>3, <4>1
    <3> QED
      BY <1>1, <1>4, <2>1, <2>2, <2>3, <3>1
  <2>4. CASE x # Do(t)
    BY <1>1, <1>2, <1>4, <2>1, <2>2, <2>4
  <2> QED
    BY <2>3, <2>4
<1>7. ASSUME NEW t \in Task, NEW i \in Id,
             In(Halt(t, i), inst'.queue) \/ In(Halt(t, i), rx') \/ In(Halt(t, i), inst'.waitok)
      PROVE  i \in DOMAIN task' /\ mine'[t].halt
  <2>1. In(Halt(t, i), inst.queue) \/ In(Halt(t, i), rx) \/ In(Halt(t, i), inst.waitok)
    BY <1>1, <1>2, <1>4, <1>7
  <2> QED
    BY <1>1, <2>1 DEF IInv, Asked
<1> QED
  BY <1>5, <1>6, <1>7, AskedNext

(* What scamper_inst_read finds: the next answer, and the commands that    *)
(* wait for one.                                                           *)
LEMMA ReadTypes ==
  ASSUME IInv, InstRead
  PROVE  /\ inst \in InstT /\ mine \in [Task -> MineT] /\ inst.waitok \in Seq(Line) /\ inst.left \in Nat
         /\ inst.tree \in SUBSET Id /\ tx \in Seq(Answer) /\ tx # <<>> /\ Head(tx) \in Answer
         /\ task' = task
         /\ inst.waitok # <<>> => /\ inst.waitok[1] = Head(inst.waitok) /\ Head(inst.waitok) \in Line
                                 /\ Tail(inst.waitok) \in Seq(Line)
<1>1. tx \in Seq(Answer) /\ tx # <<>> /\ task' = task
  BY DEF IInv, Shapes, InstRead, daemon
<1>2. Head(tx) \in Answer
  BY <1>1, HeadTailProperties
<1>3. inst \in InstT /\ mine \in [Task -> MineT]
  BY DEF IInv, Shapes
<1>4. inst.waitok \in Seq(Line) /\ inst.tree \in SUBSET Id /\ inst.left \in 0 .. Pieces
  BY <1>3 DEF InstT
<1>5. inst.left \in Nat
  BY <1>4, ClientAssumption
<1>6. \A q \in Seq(Line) : q # <<>> => q[1] = Head(q) /\ Head(q) \in Line /\ Tail(q) \in Seq(Line)
  OBVIOUS
<1> QED
  BY <1>1, <1>2, <1>3, <1>4, <1>5, <1>6

(* inst_rx of "OK id": by Pairs the oldest command is a task, the one      *)
(* scamper made the id for, and by Knows the id is not in the tree.        *)
LEMMA RxOkIdKeeps ==
  ASSUME IInv, InstRead, Head(tx).k = "OK id", inst.left = 0, RxOkId(Head(tx).id)
  PROVE  IInv'
<1>1. PICK w \in Seq(Line), l \in Nat, K \in SUBSET Id :
        /\ <<inst.waitok, Head(tx), w>> \in Pairs
        /\ <<inst.left, Head(tx), l>> \in Frames
        /\ <<inst.tree, Head(tx), K>> \in Knows
        /\ inst'.waitok = w /\ inst'.left = l /\ inst'.tree = K => Streams'
  BY ReadStep
<1>2. /\ inst \in InstT /\ mine \in [Task -> MineT] /\ inst.waitok \in Seq(Line) /\ inst.left \in Nat
      /\ inst.tree \in SUBSET Id /\ tx \in Seq(Answer) /\ tx # <<>> /\ Head(tx) \in Answer
      /\ task' = task
      /\ inst.waitok # <<>> => /\ inst.waitok[1] = Head(inst.waitok) /\ Head(inst.waitok) \in Line
                              /\ Tail(inst.waitok) \in Seq(Line)
  BY ReadTypes
<1>3. PICK id : id = Head(tx).id
  OBVIOUS
<1>4. /\ inst.waitok # <<>> /\ Meets(Head(tx), Head(inst.waitok)) /\ w = Tail(inst.waitok)
      /\ l = 0 /\ id \notin inst.tree /\ K = inst.tree \cup {id}
  <2>1. inst.waitok # <<>> /\ Meets(Head(tx), Head(inst.waitok)) /\ w = Tail(inst.waitok)
    BY <1>1, <1>2, PairsStep
  <2>2. l = 0
    BY <1>1, <1>2, FramesStep
  <2>3. id \notin inst.tree /\ K = inst.tree \cup {id}
    <3>1. PICK x \in Answer, u \in SUBSET Id : x = Head(tx) /\ u = inst.tree
      BY <1>2
    <3>2. <<u, x, K>> \in Knows /\ x.k = "OK id"
      BY <1>1, <3>1
    <3>3. x.id \notin u /\ K = u \cup {x.id}
      BY ONLY <3>2, KnowsStep
    <3> QED
      BY <1>3, <3>1, <3>3
  <2> QED
    BY <2>1, <2>2, <2>3
<1>5. /\ Head(inst.waitok).k = "task" /\ id \in DOMAIN task /\ task[id].of = Head(inst.waitok).task
      /\ id \in Id
  <2>1. id \in Id
    BY <1>2, <1>3, AnswerCases
  <2> QED
    BY <1>3, <1>4, <2>1 DEF Meets
<1>6. PICK t \in Task : t = Head(inst.waitok).task /\ Head(inst.waitok) = Do(t)
  <2>1. Head(inst.waitok) \in Line
    BY <1>2, <1>4
  <2> QED
    BY <1>5, <2>1, LineCases
<1>7. /\ mine' = [mine EXCEPT ![t].st = "gotid", ![t].id = id]
      /\ inst' = [inst EXCEPT !.waitok = Tail(@), !.tree = @ \cup {id}]
      /\ UNCHANGED <<fault, shut>>
  <2>1. inst.waitok[1] = Head(inst.waitok)
    BY <1>2, <1>4
  <2>2. ~(inst.waitok = <<>> \/ inst.waitok[1].k # "task" \/ id \in inst.tree)
    BY <1>4, <1>5, <2>1
  <2> QED
    BY <1>3, <1>6, <2>2 DEF RxOkId, Works
<1>8. /\ inst' \in InstT /\ inst'.waitok = Tail(inst.waitok) /\ inst'.tree = inst.tree \cup {id}
      /\ UNCHANGED <<inst.queue, inst.done, inst.eof, inst.left, inst.data>>
  <2>1. Tail(inst.waitok) \in Seq(Line)
    BY <1>2, <1>4
  <2> QED
    BY <1>2, <1>5, <1>7, <2>1 DEF InstT
<1>9. /\ mine' \in [Task -> MineT] /\ mine'[t].st = "gotid" /\ mine'[t].id = id
      /\ mine'[t].data = mine[t].data
      /\ \A u \in Task : u # t => mine'[u] = mine[u]
      /\ \A u \in Task : mine'[u].halt = mine[u].halt
  BY <1>2, <1>5, <1>7 DEF MineT
<1>10. Streams'
  BY <1>1, <1>4, <1>8
<1>11. Shapes' /\ Tasked' /\ Ends' /\ Freed' /\ Late'
  BY <1>7, <1>8, <1>9, <1>10, ReadRest
<1>12. Asked'
  <2>1. \A u \in Task : IF Head(inst.waitok) = Do(u)
                        THEN mine'[u].st \notin {"new", "queue", "dropped", "waitok"}
                        ELSE mine'[u].st = mine[u].st
    <3>1. \A u : Head(inst.waitok) = Do(u) <=> u = t
      BY <1>6, LineHas
    <3>2. \A u \in Task : u = t \/ mine'[u].st = mine[u].st
      BY <1>9
    <3> QED
      BY <1>9, <3>1, <3>2
  <2> QED
    BY <1>4, <1>8, <1>9, <2>1, AnsweredAsked
<1>13. Filed'
  <2>1. mine[t].st = "waitok"
    <3>1. In(Do(t), inst.waitok)
      BY <1>2, <1>4, <1>6, TailWithin
    <3> QED
      BY <3>1 DEF IInv, Asked
  <2>2. inst'.tree \subseteq DOMAIN task'
    BY <1>2, <1>5, <1>8 DEF IInv, Filed
  <2>3. 0 \notin Id
    BY ObjCases
  <2>4. ASSUME NEW u \in Task
        PROVE  /\ mine'[u].id # 0 <=> mine'[u].st \in {"gotid", "data"}
               /\ mine'[u].id # 0 => mine'[u].id \in DOMAIN task' /\ task'[mine'[u].id].of = u
               /\ mine'[u].data = IF mine'[u].st = "data" THEN 1 ELSE 0
               /\ mine'[u].st = "data" => mine'[u].id \notin inst'.tree
               /\ mine'[u].st = "gotid" => mine'[u].id \in inst'.tree \/ u \in inst'.data
               /\ u \in inst'.data => mine'[u].st = "gotid" /\ mine'[u].id \notin inst'.tree /\ inst'.left > 0
    <3>1. /\ mine[u].id # 0 <=> mine[u].st \in {"gotid", "data"}
          /\ mine[u].id # 0 => mine[u].id \in DOMAIN task /\ task[mine[u].id].of = u
          /\ mine[u].data = IF mine[u].st = "data" THEN 1 ELSE 0
          /\ mine[u].st = "data" => mine[u].id \notin inst.tree
          /\ mine[u].st = "gotid" => mine[u].id \in inst.tree \/ u \in inst.data
          /\ u \in inst.data => mine[u].st = "gotid" /\ mine[u].id \notin inst.tree /\ inst.left > 0
      BY DEF IInv, Filed
    <3>2. CASE u = t
      BY <1>2, <1>5, <1>6, <1>8, <1>9, <2>1, <2>3, <3>1, <3>2
    <3>3. CASE u # t
      <4>1. mine'[u] = mine[u] /\ (mine[u].id # 0 => mine[u].id # id)
        BY <1>5, <1>6, <1>9, <3>1, <3>3
      <4> QED
        BY <1>2, <1>8, <3>1, <4>1
    <3> QED
      BY <3>2, <3>3
  <2> QED
    BY <2>2, <2>4, FiledNext
<1> QED
  BY <1>10, <1>11, <1>12, <1>13 DEF IInv

(* inst_rx of "OK": by Pairs the oldest command is not a task.             *)
LEMMA RxOkKeeps ==
  ASSUME IInv, InstRead, Head(tx).k = "OK", inst.left = 0, RxOk
  PROVE  IInv'
<1>1. PICK w \in Seq(Line), l \in Nat, K \in SUBSET Id :
        /\ <<inst.waitok, Head(tx), w>> \in Pairs
        /\ <<inst.left, Head(tx), l>> \in Frames
        /\ <<inst.tree, Head(tx), K>> \in Knows
        /\ inst'.waitok = w /\ inst'.left = l /\ inst'.tree = K => Streams'
  BY ReadStep
<1>2. /\ inst \in InstT /\ mine \in [Task -> MineT] /\ inst.waitok \in Seq(Line) /\ inst.left \in Nat
      /\ inst.tree \in SUBSET Id /\ tx \in Seq(Answer) /\ tx # <<>> /\ Head(tx) \in Answer
      /\ task' = task
      /\ inst.waitok # <<>> => /\ inst.waitok[1] = Head(inst.waitok) /\ Head(inst.waitok) \in Line
                              /\ Tail(inst.waitok) \in Seq(Line)
  BY ReadTypes
<1>3. /\ inst.waitok # <<>> /\ Meets(Head(tx), Head(inst.waitok)) /\ w = Tail(inst.waitok)
      /\ l = 0 /\ K = inst.tree
  <2>1. inst.waitok # <<>> /\ Meets(Head(tx), Head(inst.waitok)) /\ w = Tail(inst.waitok)
    BY <1>1, <1>2, PairsStep
  <2>2. l = 0
    BY <1>1, <1>2, FramesStep
  <2>3. K = inst.tree
    BY <1>1, <1>2, KnowsStep
  <2> QED
    BY <2>1, <2>2, <2>3
<1>4. Head(inst.waitok).k # "task"
  BY <1>3 DEF Meets
<1>5. inst' = [inst EXCEPT !.waitok = Tail(@)] /\ UNCHANGED <<fault, shut, mine>>
  <2>1. inst.waitok[1] = Head(inst.waitok)
    BY <1>2, <1>3
  <2> QED
    BY <1>3, <1>4, <2>1 DEF RxOk, Works
<1>6. /\ inst' \in InstT /\ inst'.waitok = Tail(inst.waitok)
      /\ UNCHANGED <<inst.queue, inst.done, inst.eof, inst.left, inst.data, inst.tree>>
  <2>1. Tail(inst.waitok) \in Seq(Line)
    BY <1>2, <1>3
  <2> QED
    BY <1>2, <1>5, <2>1 DEF InstT
<1>7. Streams'
  BY <1>1, <1>2, <1>3, <1>6
<1>8. Shapes' /\ Tasked' /\ Ends' /\ Freed' /\ Late'
  BY <1>2, <1>5, <1>6, <1>7, ReadRest
<1>9. Asked'
  <2>1. \A u \in Task : Head(inst.waitok) # Do(u)
    BY <1>4, LineHas
  <2> QED
    BY <1>3, <1>5, <1>6, <2>1, AnsweredAsked
<1>10. Filed'
  <2>1. Filed
    BY DEF IInv
  <2> QED
    BY <1>2, <1>5, <1>6, <2>1, FiledKept
<1> QED
  BY <1>7, <1>8, <1>9, <1>10 DEF IInv

(* inst_rx of "ERR": by Pairs the oldest command is a task, or a halt of   *)
(* one that is freed; the latter is the failure that Late allows.          *)
LEMMA RxErrKeeps ==
  ASSUME IInv, InstRead, Head(tx).k = "ERR", inst.left = 0, RxErr
  PROVE  IInv'
<1>1. PICK w \in Seq(Line), l \in Nat, K \in SUBSET Id :
        /\ <<inst.waitok, Head(tx), w>> \in Pairs
        /\ <<inst.left, Head(tx), l>> \in Frames
        /\ <<inst.tree, Head(tx), K>> \in Knows
        /\ inst'.waitok = w /\ inst'.left = l /\ inst'.tree = K => Streams'
  BY ReadStep
<1>2. /\ inst \in InstT /\ mine \in [Task -> MineT] /\ inst.waitok \in Seq(Line) /\ inst.left \in Nat
      /\ inst.tree \in SUBSET Id /\ tx \in Seq(Answer) /\ tx # <<>> /\ Head(tx) \in Answer
      /\ task' = task
      /\ inst.waitok # <<>> => /\ inst.waitok[1] = Head(inst.waitok) /\ Head(inst.waitok) \in Line
                              /\ Tail(inst.waitok) \in Seq(Line)
  BY ReadTypes
<1>3. /\ inst.waitok # <<>> /\ Meets(Head(tx), Head(inst.waitok)) /\ w = Tail(inst.waitok)
      /\ l = 0 /\ K = inst.tree
  <2>1. inst.waitok # <<>> /\ Meets(Head(tx), Head(inst.waitok)) /\ w = Tail(inst.waitok)
    BY <1>1, <1>2, PairsStep
  <2>2. l = 0
    BY <1>1, <1>2, FramesStep
  <2>3. K = inst.tree
    BY <1>1, <1>2, KnowsStep
  <2> QED
    BY <2>1, <2>2, <2>3
<1>4. inst.waitok[1] = Head(inst.waitok) /\ Head(inst.waitok) \in Line
  BY <1>2, <1>3
<1>5. CASE Head(inst.waitok).k # "task"
  <2>1. /\ Head(inst.waitok).k = "halt" /\ Head(inst.waitok).id \in DOMAIN task
        /\ task[Head(inst.waitok).id].st = "freed"
    BY <1>3, <1>5 DEF Meets
  <2>2. Fail("halt")
    BY <1>3, <1>4, <1>5, <2>1 DEF RxErr
  <2>3. Late'
    BY <1>2, <1>3, <2>1, <2>2 DEF Late, Fail
  <2> QED
    BY <2>2, <2>3, FailRest
<1>6. CASE Head(inst.waitok).k = "task"
  <2>1. PICK t \in Task : t = Head(inst.waitok).task /\ Head(inst.waitok) = Do(t)
    BY <1>4, <1>6, LineCases
  <2>2. /\ mine' = [mine EXCEPT ![t].st = "refused"]
        /\ inst' = [inst EXCEPT !.waitok = Tail(@), !.more = TRUE]
        /\ UNCHANGED <<fault, shut>>
    BY <1>3, <1>4, <1>6, <2>1 DEF RxErr, Works
  <2>3. /\ inst' \in InstT /\ inst'.waitok = Tail(inst.waitok)
        /\ UNCHANGED <<inst.queue, inst.done, inst.eof, inst.left, inst.data, inst.tree>>
    <3>1. Tail(inst.waitok) \in Seq(Line)
      BY <1>2, <1>3
    <3> QED
      BY <1>2, <2>2, <3>1 DEF InstT
  <2>4. /\ mine' \in [Task -> MineT] /\ mine'[t].st = "refused"
        /\ \A u \in Task : u # t => mine'[u] = mine[u]
        /\ \A u \in Task : /\ mine'[u].halt = mine[u].halt /\ mine'[u].id = mine[u].id
                           /\ mine'[u].data = mine[u].data
    BY <1>2, <2>2 DEF MineT
  <2>5. Streams'
    BY <1>1, <1>2, <1>3, <2>3
  <2>6. Shapes' /\ Tasked' /\ Ends' /\ Freed' /\ Late'
    BY <2>2, <2>3, <2>4, <2>5, ReadRest
  <2>7. Asked'
    <3>1. \A u \in Task : IF Head(inst.waitok) = Do(u)
                          THEN mine'[u].st \notin {"new", "queue", "dropped", "waitok"}
                          ELSE mine'[u].st = mine[u].st
      BY <2>1, <2>4, LineHas
    <3> QED
      BY <1>3, <2>3, <2>4, <3>1, AnsweredAsked
  <2>8. Filed'
    <3>1. mine[t].st = "waitok"
      <4>1. In(Do(t), inst.waitok)
        BY <1>2, <1>3, <2>1, TailWithin
      <4> QED
        BY <4>1 DEF IInv, Asked
    <3>2. Filed
      BY DEF IInv
    <3>3. \A u \in Task : /\ mine'[u].st \in {"gotid", "data"} <=> mine[u].st \in {"gotid", "data"}
                          /\ mine'[u].st = "data" <=> mine[u].st = "data"
      <4>1. \A u \in Task : u = t \/ mine'[u].st = mine[u].st
        BY <2>4
      <4> QED
        BY <2>4, <3>1, <4>1
    <3> QED
      BY <1>2, <2>3, <2>4, <3>2, <3>3, FiledKept
  <2> QED
    BY <2>5, <2>6, <2>7, <2>8 DEF IInv
<1> QED
  BY <1>5, <1>6

(* inst_rx of "MORE".                                                      *)
LEMMA RxMoreKeeps ==
  ASSUME IInv, InstRead, Head(tx).k = "MORE", inst.left = 0, RxMore
  PROVE  IInv'
<1>1. PICK w \in Seq(Line), l \in Nat, K \in SUBSET Id :
        /\ <<inst.waitok, Head(tx), w>> \in Pairs
        /\ <<inst.left, Head(tx), l>> \in Frames
        /\ <<inst.tree, Head(tx), K>> \in Knows
        /\ inst'.waitok = w /\ inst'.left = l /\ inst'.tree = K => Streams'
  BY ReadStep
<1>2. /\ inst \in InstT /\ mine \in [Task -> MineT] /\ inst.waitok \in Seq(Line) /\ inst.left \in Nat
      /\ inst.tree \in SUBSET Id /\ Head(tx) \in Answer /\ UNCHANGED <<task, rx>>
  BY ReadTypes DEF InstRead, daemon
<1>3. w = inst.waitok /\ l = 0 /\ K = inst.tree
  <2>1. w = inst.waitok
    BY <1>1, <1>2, PairsStep
  <2>2. l = 0
    BY <1>1, <1>2, FramesStep
  <2>3. K = inst.tree
    BY <1>1, <1>2, KnowsStep
  <2> QED
    BY <2>1, <2>2, <2>3
<1>4. /\ inst' \in InstT /\ UNCHANGED <<fault, shut, mine>>
      /\ UNCHANGED <<inst.queue, inst.waitok, inst.done, inst.eof, inst.left, inst.data, inst.tree>>
  BY <1>2 DEF RxMore, Works, InstT
<1>5. Streams'
  BY <1>1, <1>3, <1>4
<1>6. Shapes' /\ Tasked' /\ Ends' /\ Freed' /\ Late'
  BY <1>2, <1>4, <1>5, ReadRest
<1>7. Asked'
  <2>1. Asked /\ \A u : MadeOf(u)' <=> MadeOf(u)
    BY <1>2 DEF IInv, MadeOf
  <2> QED
    BY <1>2, <1>4, <2>1, AskedKept
<1>8. Filed'
  <2>1. Filed
    BY DEF IInv
  <2> QED
    BY <1>2, <1>4, <2>1, FiledKept
<1> QED
  BY <1>5, <1>6, <1>7, <1>8 DEF IInv

(* inst_rx of "DATA": by Knows the id is in the tree.                      *)
LEMMA RxDataKeeps ==
  ASSUME IInv, InstRead, Head(tx).k = "DATA", inst.left = 0, RxData(Head(tx))
  PROVE  IInv'
<1>1. PICK w \in Seq(Line), l \in Nat, K \in SUBSET Id :
        /\ <<inst.waitok, Head(tx), w>> \in Pairs
        /\ <<inst.left, Head(tx), l>> \in Frames
        /\ <<inst.tree, Head(tx), K>> \in Knows
        /\ inst'.waitok = w /\ inst'.left = l /\ inst'.tree = K => Streams'
  BY ReadStep
<1>2. /\ inst \in InstT /\ mine \in [Task -> MineT] /\ inst.waitok \in Seq(Line) /\ inst.left \in Nat
      /\ inst.tree \in SUBSET Id /\ Head(tx) \in Answer /\ UNCHANGED <<task, rx>>
  BY ReadTypes DEF InstRead, daemon
<1>3. PICK x \in Answer : x = Head(tx)
  BY <1>2
<1>4. x.k = "DATA" /\ x.id \in Id \cup {0} /\ x.len \in 1 .. Pieces /\ 0 \notin Id
  <2>1. PICK o \in Obj : x.id = o.id /\ x.len = o.len
    BY <1>3, AnswerCases
  <2> QED
    BY <1>3, <2>1, ObjCases
<1>5. w = inst.waitok /\ l = x.len
  <2>1. w = inst.waitok
    BY <1>1, <1>2, PairsStep
  <2>2. l = x.len
    <3>1. <<inst.left, x, l>> \in Frames /\ x.k = "DATA" /\ inst.left \in Nat
      BY <1>1, <1>2, <1>3
    <3> QED
      BY ONLY <3>1, FramesStep
  <2> QED
    BY <2>1, <2>2
<1>6. (x.id # 0 => x.id \in inst.tree) /\ K = inst.tree \ {x.id}
  <2>1. PICK u \in SUBSET Id : u = inst.tree
    BY <1>2
  <2>2. <<u, x, K>> \in Knows
    BY <1>1, <1>3, <2>1
  <2>3. IF x.id # 0 THEN x.id \in u /\ K = u \ {x.id} ELSE K = u
    BY ONLY <1>4, <2>2, KnowsStep
  <2> QED
    BY <1>4, <2>1, <2>3
<1>7. /\ inst' = [inst EXCEPT !.left = x.len, !.tree = @ \ {x.id},
                              !.data = {t \in Task : mine[t].id = x.id /\ x.id # 0}]
      /\ UNCHANGED <<fault, shut, mine>>
  <2>1. ~(x.id # 0 /\ x.id \notin inst.tree)
    BY <1>6
  <2> QED
    BY <1>3, <2>1 DEF RxData, Works
<1>8. /\ inst' \in InstT /\ UNCHANGED <<inst.queue, inst.waitok, inst.done, inst.eof>>
      /\ inst'.left = x.len /\ inst'.tree = inst.tree \ {x.id}
      /\ inst'.data = {t \in Task : mine[t].id = x.id /\ x.id # 0}
  <2>1. x.len \in 0 .. Pieces /\ inst.tree \ {x.id} \in SUBSET Id
    BY <1>2, <1>4
  <2> QED
    BY <1>2, <1>7, <2>1 DEF InstT
<1>9. Streams'
  BY <1>1, <1>5, <1>6, <1>8
<1>10. Shapes' /\ Tasked' /\ Ends' /\ Freed' /\ Late'
  BY <1>2, <1>7, <1>8, <1>9, ReadRest
<1>11. Asked'
  <2>1. Asked /\ \A u : MadeOf(u)' <=> MadeOf(u)
    BY <1>2 DEF IInv, MadeOf
  <2> QED
    BY <1>2, <1>7, <1>8, <2>1, AskedKept
<1>12. Filed'
  <2>1. inst'.tree \subseteq DOMAIN task'
    BY <1>2, <1>8 DEF IInv, Filed
  <2>2. inst'.left > 0
    BY <1>4, <1>8, ClientAssumption
  <2>3. ASSUME NEW u \in Task
        PROVE  /\ mine'[u].id # 0 <=> mine'[u].st \in {"gotid", "data"}
               /\ mine'[u].id # 0 => mine'[u].id \in DOMAIN task' /\ task'[mine'[u].id].of = u
               /\ mine'[u].data = IF mine'[u].st = "data" THEN 1 ELSE 0
               /\ mine'[u].st = "data" => mine'[u].id \notin inst'.tree
               /\ mine'[u].st = "gotid" => mine'[u].id \in inst'.tree \/ u \in inst'.data
               /\ u \in inst'.data => mine'[u].st = "gotid" /\ mine'[u].id \notin inst'.tree /\ inst'.left > 0
    <3>1. /\ mine[u].id # 0 <=> mine[u].st \in {"gotid", "data"}
          /\ mine[u].id # 0 => mine[u].id \in DOMAIN task /\ task[mine[u].id].of = u
          /\ mine[u].data = IF mine[u].st = "data" THEN 1 ELSE 0
          /\ mine[u].st = "data" => mine[u].id \notin inst.tree
          /\ mine[u].st = "gotid" => mine[u].id \in inst.tree
      BY DEF IInv, Filed
    <3>2. u \in inst'.data <=> mine[u].id = x.id /\ x.id # 0
      BY <1>8
    <3>3. u \in inst'.data => mine[u].st = "gotid" /\ mine[u].id \notin inst'.tree
      BY <1>6, <1>8, <3>1, <3>2
    <3>4. mine[u].st = "gotid" => mine[u].id \in inst'.tree \/ u \in inst'.data
      BY <1>8, <3>1, <3>2
    <3>5. mine[u].st = "data" => mine[u].id \notin inst'.tree
      BY <1>8, <3>1
    <3>6. UNCHANGED <<mine, task>>
      BY <1>2, <1>7
    <3> QED
      BY <2>2, <3>1, <3>3, <3>4, <3>5, <3>6
  <2> QED
    BY <2>1, <2>3, FiledNext
<1> QED
  BY <1>9, <1>10, <1>11, <1>12 DEF IInv

(* inst_rx of a piece: by Frames it belongs to the object that is read;    *)
(* the last one gives the task its result.                                 *)
LEMMA RxPieceKeeps ==
  ASSUME IInv, InstRead, Head(tx).k = "piece", inst.left > 0, RxPiece
  PROVE  IInv'
<1>1. PICK w \in Seq(Line), l \in Nat, K \in SUBSET Id :
        /\ <<inst.waitok, Head(tx), w>> \in Pairs
        /\ <<inst.left, Head(tx), l>> \in Frames
        /\ <<inst.tree, Head(tx), K>> \in Knows
        /\ inst'.waitok = w /\ inst'.left = l /\ inst'.tree = K => Streams'
  BY ReadStep
<1>2. /\ inst \in InstT /\ mine \in [Task -> MineT] /\ inst.waitok \in Seq(Line) /\ inst.left \in Nat
      /\ inst.tree \in SUBSET Id /\ Head(tx) \in Answer /\ UNCHANGED <<task, rx>>
  BY ReadTypes DEF InstRead, daemon
<1>3. w = inst.waitok /\ inst.left = l + 1 /\ K = inst.tree
  <2>1. w = inst.waitok
    BY <1>1, <1>2, PairsStep
  <2>2. inst.left = l + 1
    BY <1>1, <1>2, FramesStep
  <2>3. K = inst.tree
    BY <1>1, <1>2, KnowsStep
  <2> QED
    BY <2>1, <2>2, <2>3
<1>4. /\ inst' \in InstT /\ UNCHANGED <<fault, shut>>
      /\ UNCHANGED <<inst.queue, inst.waitok, inst.done, inst.eof, inst.tree>>
      /\ inst'.left = inst.left - 1 /\ inst'.data = IF inst.left = 1 THEN {} ELSE inst.data
  <2>1. inst.left \in 0 .. Pieces /\ Pieces \in Nat
    BY <1>2, ClientAssumption DEF InstT
  <2>2. inst.left - 1 \in 0 .. Pieces
    BY <2>1
  <2> QED
    BY <1>2, <2>2 DEF RxPiece, Works, InstT
<1>5. \A t \in inst.data : t \in Task /\ mine[t].st = "gotid" /\ mine[t].id \notin inst.tree /\ mine[t].data = 0
                           /\ mine[t].id # 0
  <2>1. inst.data \subseteq Task
    BY <1>2 DEF InstT
  <2>2. \A t \in inst.data : mine[t].st = "gotid" /\ mine[t].id \notin inst.tree
    BY <2>1 DEF IInv, Filed
  <2>3. \A t \in inst.data : mine[t].data = 0 /\ mine[t].id # 0
    BY <2>1, <2>2 DEF IInv, Filed
  <2> QED
    BY <2>1, <2>2, <2>3
<1>6. /\ mine' \in [Task -> MineT]
      /\ \A t \in Task : mine'[t].id = mine[t].id /\ mine'[t].halt = mine[t].halt
      /\ \A t \in Task : IF inst.left = 1 /\ t \in inst.data
                         THEN mine'[t].st = "data" /\ mine'[t].data = 1
                         ELSE mine'[t] = mine[t]
  <2>1. PICK g : g = [t \in Task |-> IF t \in inst.data
                                     THEN [mine[t] EXCEPT !.st = "data", !.data = @ + 1]
                                     ELSE mine[t]]
    OBVIOUS
  <2>2. mine' = IF inst.left > 1 THEN mine ELSE g
    BY <2>1, Zenon DEF RxPiece
  <2>3. CASE inst.left > 1
    <3>1. mine' = mine /\ inst.left # 1
      BY <1>2, <2>2, <2>3
    <3> QED
      BY <1>2, <3>1
  <2>4. CASE inst.left = 1
    <3>1. mine' = g
      BY <1>2, <2>2, <2>4
    <3>2. ASSUME NEW t \in Task
          PROVE  /\ g[t] \in MineT /\ g[t].id = mine[t].id /\ g[t].halt = mine[t].halt
                 /\ IF t \in inst.data THEN g[t].st = "data" /\ g[t].data = 1 ELSE g[t] = mine[t]
      <4>1. mine[t] \in MineT
        BY <1>2
      <4>2. CASE t \in inst.data
        <5>1. g[t] = [mine[t] EXCEPT !.st = "data", !.data = @ + 1] /\ mine[t].data = 0
          BY <1>5, <2>1, <4>2
        <5>2. PICK m \in MineT : m = mine[t]
          BY <4>1
        <5>3. g[t] = [m EXCEPT !.st = "data", !.data = m.data + 1]
          BY <5>1, <5>2, Zenon
        <5>4. m.data = 0 /\ m.id \in Id \cup {0} /\ m.halt \in BOOLEAN
          BY <5>1, <5>2 DEF MineT
        <5>5. /\ g[t].id = m.id /\ g[t].halt = m.halt /\ g[t].st = "data" /\ g[t].data = 1
              /\ g[t] \in MineT
          <6>1. g[t] = [st |-> "data", id |-> m.id, halt |-> m.halt, data |-> m.data + 1]
            BY <5>2, <5>3 DEF MineT
          <6>2. m.data + 1 = 1
            BY <5>4
          <6> QED
            BY <5>4, <6>1, <6>2 DEF MineT
        <5> QED
          BY <4>2, <5>2, <5>5
      <4>3. CASE t \notin inst.data
        BY <2>1, <4>1, <4>3
      <4> QED
        BY <4>2, <4>3
    <3>3. g \in [Task -> MineT]
      BY <2>1, <3>2
    <3> QED
      BY <2>4, <3>1, <3>2, <3>3
  <2> QED
    BY <1>2, <2>3, <2>4
<1>7. Streams'
  BY <1>1, <1>2, <1>3, <1>4
<1>8. Shapes' /\ Tasked' /\ Ends' /\ Freed' /\ Late'
  BY <1>4, <1>6, <1>7, ReadRest
<1>9. Asked'
  <2>1. Once(inst'.queue) /\ Once(rx') /\ Once(inst'.waitok)
    BY <1>2, <1>4 DEF IInv, Asked
  <2>2. ASSUME NEW t \in Task
        PROVE  /\ In(Do(t), inst'.queue) <=> mine'[t].st = "queue"
               /\ In(Do(t), inst'.waitok) <=> mine'[t].st = "waitok"
               /\ In(Do(t), rx') \/ MadeOf(t)' => mine'[t].st \notin {"new", "queue", "dropped"}
               /\ ~(In(Do(t), rx') /\ MadeOf(t)')
    <3>1. /\ In(Do(t), inst.queue) <=> mine[t].st = "queue"
          /\ In(Do(t), inst.waitok) <=> mine[t].st = "waitok"
          /\ In(Do(t), rx) \/ MadeOf(t) => mine[t].st \notin {"new", "queue", "dropped"}
          /\ ~(In(Do(t), rx) /\ MadeOf(t))
      BY DEF IInv, Asked
    <3>2. MadeOf(t)' <=> MadeOf(t)
      BY <1>2 DEF MadeOf
    <3>3. mine'[t].st = mine[t].st \/ (mine[t].st = "gotid" /\ mine'[t].st = "data")
      BY <1>5, <1>6
    <3> QED
      BY <1>2, <1>4, <3>1, <3>2, <3>3
  <2>3. \A t \in Task, i \in Id :
          In(Halt(t, i), inst'.queue) \/ In(Halt(t, i), rx') \/ In(Halt(t, i), inst'.waitok)
          => i \in DOMAIN task' /\ mine'[t].halt
    BY <1>2, <1>4, <1>6 DEF IInv, Asked
  <2> QED
    BY <2>1, <2>2, <2>3, AskedNext
<1>10. Filed'
  <2>1. inst'.tree \subseteq DOMAIN task'
    BY <1>2, <1>4 DEF IInv, Filed
  <2>2. ASSUME NEW u \in Task
        PROVE  /\ mine'[u].id # 0 <=> mine'[u].st \in {"gotid", "data"}
               /\ mine'[u].id # 0 => mine'[u].id \in DOMAIN task' /\ task'[mine'[u].id].of = u
               /\ mine'[u].data = IF mine'[u].st = "data" THEN 1 ELSE 0
               /\ mine'[u].st = "data" => mine'[u].id \notin inst'.tree
               /\ mine'[u].st = "gotid" => mine'[u].id \in inst'.tree \/ u \in inst'.data
               /\ u \in inst'.data => mine'[u].st = "gotid" /\ mine'[u].id \notin inst'.tree /\ inst'.left > 0
    <3>1. /\ mine[u].id # 0 <=> mine[u].st \in {"gotid", "data"}
          /\ mine[u].id # 0 => mine[u].id \in DOMAIN task /\ task[mine[u].id].of = u
          /\ mine[u].data = IF mine[u].st = "data" THEN 1 ELSE 0
          /\ mine[u].st = "data" => mine[u].id \notin inst.tree
          /\ mine[u].st = "gotid" => mine[u].id \in inst.tree \/ u \in inst.data
          /\ u \in inst.data => mine[u].st = "gotid" /\ mine[u].id \notin inst.tree /\ inst.left > 0
      BY DEF IInv, Filed
    <3>2. CASE inst.left = 1 /\ u \in inst.data
      BY <1>2, <1>4, <1>5, <1>6, <3>1, <3>2
    <3>3. CASE ~(inst.left = 1 /\ u \in inst.data)
      <4>1. mine'[u] = mine[u] /\ inst'.tree = inst.tree /\ task' = task
        BY <1>2, <1>4, <1>6, <3>3
      <4>2. u \in inst'.data <=> u \in inst.data
        BY <1>4, <3>3
      <4>3. u \in inst.data => inst'.left > 0
        BY <1>2, <1>4, <3>3
      <4> QED
        BY <3>1, <4>1, <4>2, <4>3
    <3> QED
      BY <3>2, <3>3
  <2> QED
    BY <2>1, <2>2, FiledNext
<1> QED
  BY <1>7, <1>8, <1>9, <1>10 DEF IInv

(* Whatever scamper_inst_read reads, the invariant stays: by Frames a      *)
(* piece comes exactly while data is left.                                 *)
LEMMA InstReadKeeps ==
  ASSUME IInv, InstRead PROVE IInv'
<1>1. PICK w \in Seq(Line), l \in Nat, K \in SUBSET Id :
        <<inst.left, Head(tx), l>> \in Frames
  BY ReadStep
<1>2. Head(tx) \in Answer /\ inst.left \in Nat
  BY ReadTypes
<1>3. IF Head(tx).k = "piece" THEN inst.left = l + 1 ELSE inst.left = 0
  BY <1>1, <1>2, FramesStep
<1>4. CASE Head(tx).k = "piece"
  <2>1. inst.left > 0
    BY <1>3, <1>4
  <2>2. RxPiece
    BY <1>4, <2>1 DEF InstRead
  <2> QED
    BY <1>4, <2>1, <2>2, RxPieceKeeps
<1>5. CASE Head(tx).k # "piece"
  <2>1. inst.left = 0 /\ ~(inst.left > 0)
    BY <1>3, <1>5
  <2>2. \/ Head(tx).k = "OK id" /\ RxOkId(Head(tx).id)
        \/ Head(tx).k = "OK" /\ RxOk
        \/ Head(tx).k = "ERR" /\ RxErr
        \/ Head(tx).k = "MORE" /\ RxMore
        \/ Head(tx).k = "DATA" /\ RxData(Head(tx))
    BY <1>5, <2>1 DEF InstRead
  <2> QED
    BY <2>1, <2>2, RxOkIdKeeps, RxOkKeeps, RxErrKeeps, RxMoreKeeps, RxDataKeeps
<1> QED
  BY <1>4, <1>5

(* recv returns 0: all there was has been read.                            *)
LEMMA InstEofKeeps ==
  ASSUME IInv, InstEof PROVE IInv'
<1>1. /\ UNCHANGED <<client, source, task, done_queue, rx, tx, shut, mine, fault>>
      /\ inst' = [inst EXCEPT !.eof = TRUE] /\ inst \in InstT /\ tx = <<>> /\ "scamper" \in shut
      /\ "client" \notin shut
  BY DEF InstEof, daemon, Alive, IInv, Shapes
<1>2. /\ inst' \in InstT
      /\ UNCHANGED <<inst.queue, inst.waitok, inst.done, inst.left, inst.data, inst.tree>>
  BY <1>1 DEF InstT
<1>3. Shapes'
  BY <1>1, <1>2 DEF IInv, Shapes, Writing, ClientT, SourceT, TaskT, MineT
<1>4. Tasked' /\ Ends' /\ Late'
  BY <1>1, <1>2, TaskedKept, EndsKept, LateKept DEF IInv
<1>5. Asked'
  <2>1. Asked /\ \A u : MadeOf(u)' <=> MadeOf(u)
    BY <1>1 DEF IInv, MadeOf
  <2> QED
    BY <1>1, <1>2, <2>1, AskedKept
<1>6. Filed'
  <2>1. Filed
    BY DEF IInv
  <2> QED
    BY <1>1, <1>2, <2>1, FiledKept
<1>7. Freed'
  BY <1>1 DEF IInv, Freed
<1>8. Streams'
  <2>1. Streams
    BY DEF IInv
  <2> QED
    BY <1>1, <1>2, <2>1, StreamsKept
<1> QED
  BY <1>3, <1>4, <1>5, <1>6, <1>7, <1>8 DEF IInv

-----------------------------------------------------------------------------
(* scamper                                                                 *)

(* source_finished writes the cycle stop when the source has no command    *)
(* and no task left, and else does nothing.                                *)
LEMMA EndCycleCases ==
  ASSUME NEW c \in ClientT, NEW s \in SourceT, NEW e, e = EndCycle(c, s)
  PROVE  /\ e.c \in ClientT /\ e.s \in SourceT
         /\ e.c.txt = c.txt /\ e.c.obj = c.obj /\ e.c.off = c.off /\ e.c.wb = c.wb /\ e.c.reads = c.reads
         /\ e.s.open = s.open /\ e.s.commands = s.commands /\ e.s.tasks = s.tasks
         /\ e.s.finished = s.finished
         /\ \/ e.c.objs = c.objs /\ e.c.mode = c.mode /\ e.s.cyclemon = s.cyclemon
            \/ /\ s.cyclemon /\ s.tasks = {} /\ s.commands = <<>> /\ (s.open => s.finished)
               /\ e.c.objs = Append(c.objs, CycleObj) /\ e.c.mode = "flush" /\ ~e.s.cyclemon
<1>1. CASE IsFinished(s) /\ s.cyclemon
  <2>1. e = [c |-> DataSend(c, CycleObj, TRUE), s |-> [s EXCEPT !.cyclemon = FALSE]]
    BY <1>1 DEF EndCycle
  <2>2. e.c = [c EXCEPT !.objs = Append(@, CycleObj), !.writes = TRUE, !.mode = "flush"]
    BY <2>1 DEF DataSend
  <2>3. e.s = [s EXCEPT !.cyclemon = FALSE]
    BY <2>1
  <2>4. Append(c.objs, CycleObj) \in Seq(Obj)
    BY ObjCases, AppendProperties DEF ClientT
  <2>5. /\ e.c \in ClientT /\ e.c.txt = c.txt /\ e.c.obj = c.obj /\ e.c.off = c.off
        /\ e.c.wb = c.wb /\ e.c.reads = c.reads
        /\ e.c.objs = Append(c.objs, CycleObj) /\ e.c.mode = "flush"
    BY <2>2, <2>4 DEF ClientT
  <2>6. /\ e.s \in SourceT /\ e.s.open = s.open /\ e.s.commands = s.commands /\ e.s.tasks = s.tasks
        /\ e.s.finished = s.finished /\ ~e.s.cyclemon
    BY <2>3 DEF SourceT
  <2> QED
    BY <1>1, <2>5, <2>6 DEF IsFinished
<1>2. CASE ~(IsFinished(s) /\ s.cyclemon)
  <2>1. e = [c |-> c, s |-> s]
    BY <1>2 DEF EndCycle
  <2>2. e.c = c /\ e.s = s
    BY <2>1
  <2> QED
    BY <2>2
<1> QED
  BY <1>1, <1>2

(* client_send changes txt alone, and that the client writes.              *)
LEMMA SayFields ==
  ASSUME NEW c \in ClientT, NEW x \in Spoken, NEW d, d = Say(c, x)
  PROVE  /\ d \in ClientT /\ d.txt = Append(c.txt, x)
         /\ d.mode = c.mode /\ d.objs = c.objs /\ d.obj = c.obj /\ d.off = c.off /\ d.wb = c.wb
         /\ d.reads = c.reads
<1>1. Append(c.txt, x) \in Seq(Spoken)
  BY AppendProperties DEF ClientT
<1> QED
  BY <1>1 DEF Say, ClientT

(* A step of Pairs, with the tasks after the step.                         *)
LEMMA PairsNext ==
  ASSUME NEW u \in Seq(Line), NEW x \in Answer, NEW v \in Seq(Line),
         IF x.k \in {"OK", "OK id", "ERR"}
         THEN u # <<>> /\ Meets(x, Head(u))' /\ v = Tail(u) ELSE v = u
  PROVE  <<u, x, v>> \in Pairs'
<1>1. x.k \in {"OK", "OK id", "ERR"} /\ u # <<>> /\ Meets(x, Head(u))' /\ v = Tail(u)
      => <<u, x, v>> \in Pairs'
  BY DEF Pairs
<1>2. x.k \notin {"OK", "OK id", "ERR"} /\ v = u => <<u, x, v>> \in Pairs'
  BY DEF Pairs
<1> QED
  BY <1>1, <1>2

(* Scamper says nothing; a result may wait to be written.                  *)
LEMMA QuietStreams ==
  ASSUME Streams, UNCHANGED <<tx, inst, shut>>,
         UNCHANGED <<client.wb, client.txt, client.obj, client.off>>,
         \A i \in DOMAIN task : /\ i \in DOMAIN task' /\ task'[i].of = task[i].of
                                /\ task[i].st = "freed" => task'[i].st = "freed",
         "client" \notin shut =>
            \A w \in Seq(Line) : Rest(w) =>
              IF client'.mode \in {"flush", "freed"} THEN ~Has(w, "task") ELSE w = rx',
         \A K \in SUBSET Id : Owing(K) => Owing(K)'
  PROVE  Streams'
<1> SUFFICES ASSUME "client" \notin shut PROVE (Paired /\ Framed /\ Known)'
  BY DEF Streams
<1>1. Paired'
  <2>1. PICK a \in Seq(Line), b \in Seq(Line), w \in Seq(Line) :
          /\ Flow(tx, Pairs, inst.waitok, a) /\ Flow(client.wb, Pairs, a, b)
          /\ Flow(client.txt, Pairs, b, w) /\ Rest(w)
    BY DEF Streams, Paired
  <2>2. IF client'.mode \in {"flush", "freed"} THEN ~Has(w, "task") ELSE w = rx'
    BY <2>1
  <2>3. /\ Flow(tx', Pairs', inst'.waitok, a) /\ Flow(client'.wb, Pairs', a, b)
        /\ Flow(client'.txt, Pairs', b, w)
    BY <2>1, PairsKept
  <2> QED
    BY <2>2, <2>3, PairedNext
<1>2. Framed'
  BY DEF Streams, Framed, Remain
<1>3. Known'
  <2>1. PICK a \in SUBSET Id, b \in SUBSET Id, K \in SUBSET Id :
          /\ Flow(tx, Knows, inst.tree, a) /\ Flow(client.wb, Knows, a, b)
          /\ Flow(client.txt, Knows, b, K) /\ Owing(K)
    BY DEF Streams, Known
  <2>2. Owing(K)'
    BY <2>1
  <2> QED
    BY <2>1, <2>2, KnownNext
<1> QED
  BY <1>1, <1>2, <1>3

(* Scamper says x.                                                         *)
LEMMA SayStreams ==
  ASSUME Streams, UNCHANGED <<tx, inst, shut>>, client.txt \in Seq(Answer),
         NEW x \in Spoken, client'.txt = Append(client.txt, x),
         UNCHANGED <<client.wb, client.obj, client.off>>,
         \A i \in DOMAIN task : /\ i \in DOMAIN task' /\ task'[i].of = task[i].of
                                /\ task[i].st = "freed" => task'[i].st = "freed",
         "client" \notin shut =>
            \A w \in Seq(Line) : Rest(w) =>
              \E v \in Seq(Line) : /\ <<w, x, v>> \in Pairs'
                                   /\ IF client'.mode \in {"flush", "freed"} THEN ~Has(v, "task") ELSE v = rx',
         \A K \in SUBSET Id : Owing(K) => \E J \in SUBSET Id : <<K, x, J>> \in Knows /\ Owing(J)'
  PROVE  Streams'
<1> SUFFICES ASSUME "client" \notin shut PROVE (Paired /\ Framed /\ Known)'
  BY DEF Streams
<1>1. x \in Answer /\ <<x>> \in Seq(Answer) /\ Append(client.txt, x) = client.txt \o <<x>>
  <2>1. x \in Answer
    BY SpokenCases
  <2>2. \A q \in Seq(Answer) : Append(q, x) = q \o <<x>>
    BY <2>1, AppendIsConcat
  <2> QED
    BY <2>1, <2>2
<1>2. Paired'
  <2>1. PICK a \in Seq(Line), b \in Seq(Line), w \in Seq(Line) :
          /\ Flow(tx, Pairs, inst.waitok, a) /\ Flow(client.wb, Pairs, a, b)
          /\ Flow(client.txt, Pairs, b, w) /\ Rest(w)
    BY DEF Streams, Paired
  <2>2. PICK v \in Seq(Line) :
          /\ <<w, x, v>> \in Pairs'
          /\ IF client'.mode \in {"flush", "freed"} THEN ~Has(v, "task") ELSE v = rx'
    BY <2>1
  <2>3. /\ Flow(tx', Pairs', inst'.waitok, a) /\ Flow(client'.wb, Pairs', a, b)
        /\ Flow(client.txt, Pairs', b, w)
    BY <2>1, PairsKept
  <2>4. Flow(<<x>>, Pairs', w, v)
    BY <2>2, FlowOne
  <2>5. PICK P : P = Pairs'
    OBVIOUS
  <2>6. Flow(client.txt, P, b, w) /\ Flow(<<x>>, P, w, v)
    BY <2>3, <2>4, <2>5
  <2>7. PICK q \in Seq(Answer) : q = client.txt
    OBVIOUS
  <2>8. Flow(q \o <<x>>, P, b, v)
    BY ONLY <1>1, <2>6, <2>7, FlowConcat
  <2>9. Flow(client'.txt, Pairs', b, v)
    BY <1>1, <2>5, <2>7, <2>8
  <2> QED
    BY <2>2, <2>3, <2>9, PairedNext
<1>3. Framed'
  BY DEF Streams, Framed, Remain
<1>4. Known'
  <2>1. PICK a \in SUBSET Id, b \in SUBSET Id, K \in SUBSET Id :
          /\ Flow(tx, Knows, inst.tree, a) /\ Flow(client.wb, Knows, a, b)
          /\ Flow(client.txt, Knows, b, K) /\ Owing(K)
    BY DEF Streams, Known
  <2>2. PICK J \in SUBSET Id : <<K, x, J>> \in Knows /\ Owing(J)'
    BY <2>1
  <2>3. PICK q \in Seq(Answer) : q = client.txt
    OBVIOUS
  <2>4. Flow(<<x>>, Knows, K, J) /\ Flow(q, Knows, b, K)
    BY <2>1, <2>2, <2>3, FlowOne
  <2>5. Flow(q \o <<x>>, Knows, b, J)
    BY ONLY <1>1, <2>4, FlowConcat
  <2>6. Flow(client'.txt, Knows, b, J)
    BY <1>1, <2>3, <2>5
  <2> QED
    BY <2>1, <2>2, <2>6, KnownNext
<1> QED
  BY <1>2, <1>3, <1>4

(* More objects wait to be written.                                        *)
LEMMA OwesCycle ==
  ASSUME NEW K, NEW T, NEW q \in Seq(Obj), Owes(K, T, q)
  PROVE  Owes(K, T, Append(q, CycleObj))
<1> DEFINE p == Append(q, CycleObj)
<1>1. /\ Len(q) \in Nat /\ DOMAIN q = 1 .. Len(q) /\ p \in Seq(Obj) /\ Len(p) = Len(q) + 1
      /\ \A i \in 1 .. Len(q) : p[i] = q[i]
      /\ p[Len(q) + 1] = CycleObj
  BY ObjCases, LenProperties, AppendProperties
<1>2. DOMAIN p = 1 .. Len(q) + 1
  BY <1>1, LenProperties
<1> HIDE DEF p
<1>3. \A i \in 1 .. Len(q) + 1 : i = Len(q) + 1 \/ i \in 1 .. Len(q)
  BY <1>1
<1>4. \A x : In(x, p) <=> In(x, q) \/ x = CycleObj
  BY ObjCases, MoreIn DEF p
<1>5. \A i \in Id : In(Result(i), p) <=> In(Result(i), q)
  <2>1. \A i \in Id : Result(i) # CycleObj
    BY ObjCases
  <2> QED
    BY <1>4, <2>1
<1>6. \A i, j \in DOMAIN p : p[i] = p[j] /\ p[i].id # 0 => i = j
  <2> SUFFICES ASSUME NEW i \in 1 .. Len(q) + 1, NEW j \in 1 .. Len(q) + 1, p[i] = p[j], p[i].id # 0
               PROVE  i = j
    BY <1>2
  <2>1. i # Len(q) + 1 /\ j # Len(q) + 1
    BY <1>1, ObjCases
  <2> QED
    BY <1>1, <1>3, <2>1 DEF Owes
<1> QED
  BY <1>5, <1>6 DEF Owes, p

(* A task that leaves the source for a result is owed as before.           *)
LEMMA OwesResult ==
  ASSUME NEW K, NEW T, NEW q \in Seq(Obj), Owes(K, T, q), NEW i \in Id, i \in T
  PROVE  Owes(K, T \ {i}, Append(q, Result(i)))
<1> DEFINE p == Append(q, Result(i))
<1>1. /\ Len(q) \in Nat /\ DOMAIN q = 1 .. Len(q) /\ p \in Seq(Obj) /\ Len(p) = Len(q) + 1
      /\ \A j \in 1 .. Len(q) : p[j] = q[j]
      /\ p[Len(q) + 1] = Result(i)
  BY ObjCases, LenProperties, AppendProperties
<1>2. DOMAIN p = 1 .. Len(q) + 1
  BY <1>1, LenProperties
<1> HIDE DEF p
<1>3. \A j \in 1 .. Len(q) + 1 : j = Len(q) + 1 \/ j \in 1 .. Len(q)
  BY <1>1
<1>4. \A x : In(x, p) <=> In(x, q) \/ x = Result(i)
  BY ObjCases, MoreIn DEF p
<1>5. \A j \in Id : Result(j) = Result(i) <=> j = i
  BY ObjCases
<1>6. ~In(Result(i), q)
  BY DEF Owes
<1>7. \A j \in Id : j \in K <=> j \in T \ {i} \/ In(Result(j), p)
  BY <1>4, <1>5 DEF Owes
<1>8. \A j \in Id : j \in T \ {i} => ~In(Result(j), p)
  BY <1>4, <1>5 DEF Owes
<1>9. \A a, b \in DOMAIN p : p[a] = p[b] /\ p[a].id # 0 => a = b
  <2> SUFFICES ASSUME NEW a \in 1 .. Len(q) + 1, NEW b \in 1 .. Len(q) + 1, p[a] = p[b], p[a].id # 0
               PROVE  a = b
    BY <1>2
  <2>1. \A c \in 1 .. Len(q) : q[c] # Result(i)
    BY <1>1, <1>6 DEF In
  <2>2. CASE a \in 1 .. Len(q) /\ b \in 1 .. Len(q)
    BY <1>1, <2>2 DEF Owes
  <2>3. CASE ~(a \in 1 .. Len(q) /\ b \in 1 .. Len(q))
    BY <1>1, <1>3, <2>1, <2>3
  <2> QED
    BY <2>2, <2>3
<1> QED
  BY <1>7, <1>8, <1>9 DEF Owes, p

(* What a step of scamper leaves alone.                                    *)
LEMMA DaemonRest ==
  ASSUME IInv, UNCHANGED <<inst, mine, fault>>,
         \A i \in DOMAIN task : /\ i \in DOMAIN task' /\ task'[i].of = task[i].of
                                /\ task[i].st = "freed" => task'[i].st = "freed"
  PROVE  Filed' /\ Late'
<1>1. Filed /\ Late
  BY DEF IInv
<1>2. Filed'
  BY <1>1, FiledKept
<1>3. Late'
  BY <1>1, LateKept
<1> QED
  BY <1>2, <1>3

(* A task moves on.                                                        *)
LEMMA TaskMoves ==
  ASSUME NEW q \in Seq(TaskT), NEW i \in DOMAIN q, NEW s \in {"queued", "running", "done", "freed"},
         NEW r, r = [q EXCEPT ![i].st = s]
  PROVE  /\ r \in Seq(TaskT) /\ DOMAIN r = DOMAIN q
         /\ \A j \in DOMAIN q : r[j].of = q[j].of /\ r[j].st = IF j = i THEN s ELSE q[j].st
<1>1. i \in 1 .. Len(q) /\ Len(q) \in Nat /\ DOMAIN q = 1 .. Len(q)
  BY LenProperties
<1>2. PICK e : e = [q[i] EXCEPT !.st = s]
  OBVIOUS
<1>3. q[i] \in TaskT
  BY <1>1, ElementOfSeq
<1>4. e \in TaskT /\ e.of = q[i].of /\ e.st = s
  BY <1>2, <1>3 DEF TaskT
<1>5. r = [q EXCEPT ![i] = e]
  BY <1>2
<1>6. r \in Seq(TaskT) /\ Len(r) = Len(q) /\ \A j \in 1 .. Len(q) : r[j] = IF j = i THEN e ELSE q[j]
  BY <1>1, <1>4, <1>5, ExceptSeq
<1>7. DOMAIN r = 1 .. Len(q)
  BY <1>6, LenProperties
<1> QED
  BY <1>1, <1>4, <1>6, <1>7

(* The lists of the program are not touched.                               *)
LEMMA DaemonAsked ==
  ASSUME Asked, UNCHANGED <<inst, mine, rx>>, DOMAIN task' = DOMAIN task,
         \A i \in DOMAIN task : task'[i].of = task[i].of
  PROVE  Asked'
<1>1. \A u : MadeOf(u)' <=> MadeOf(u)
  BY DEF MadeOf
<1> QED
  BY <1>1, AskedKept

(* scamper_sources_gettask, which may say MORE and may write a cycle       *)
(* record.                                                                 *)
LEMMA GetTaskKeeps ==
  ASSUME IInv, Lib(GetTask) PROVE IInv'
<1>1. /\ client \in ClientT /\ source \in SourceT /\ task \in Seq(TaskT)
      /\ source.commands \in Seq(Id \cup {Cycle}) /\ source.commands # <<>>
      /\ client.txt \in Seq(Answer) /\ client.objs \in Seq(Obj)
      /\ UNCHANGED <<inst, mine, fault, done_queue, rx, tx, shut>>
  <2>1. client \in ClientT /\ source \in SourceT /\ task \in Seq(TaskT)
    BY DEF IInv, Shapes
  <2>2. client.txt \in Seq(Spoken) /\ client.objs \in Seq(Obj) /\ source.commands \in Seq(Id \cup {Cycle})
    BY <2>1 DEF ClientT, SourceT
  <2> QED
    BY <2>1, <2>2, SpokenSeq DEF Lib, GetTask
<1> DEFINE i == Head(source.commands)
           Q == Tail(source.commands)
           c == Take(client, source)
<1>2. /\ i \in Id \cup {Cycle} /\ Q \in Seq(Id \cup {Cycle}) /\ Within(Q, source.commands)
      /\ \A x : In(x, source.commands) <=> x = i \/ In(x, Q)
      /\ Apart(source.commands) => ~In(i, Q)
  BY <1>1, TailWithin
<1>3. Apart(source.commands) => Apart(Q)
  BY <1>1, <1>2, WithinKept
<1>4. /\ source' = [source EXCEPT !.commands = Q]
      /\ IF i = Cycle THEN client' = DataSend(c, CycleObj, FALSE) /\ UNCHANGED task
         ELSE client' = c /\ task' = [task EXCEPT ![i].st = "running"]
  BY DEF Lib, GetTask
<1>5. /\ c \in ClientT /\ c.mode = client.mode /\ c.objs = client.objs /\ c.obj = client.obj
      /\ c.off = client.off /\ c.wb = client.wb /\ c.reads = client.reads
      /\ c.txt = client.txt \/ c.txt = Append(client.txt, More)
  <2>1. More \in Spoken
    BY SpokenCases
  <2>2. c = client \/ c = Say(client, More)
    BY DEF Take
  <2> HIDE DEF c
  <2>3. CASE c = Say(client, More)
    BY <1>1, <2>1, <2>3, SayFields
  <2> QED
    BY <1>1, <2>2, <2>3
<1> HIDE DEF i, Q, c
<1>6. /\ source' \in SourceT /\ source'.commands = Q
      /\ UNCHANGED <<source.open, source.tasks, source.finished, source.cyclemon>>
  BY <1>1, <1>2, <1>4 DEF SourceT
<1>7. /\ client' \in ClientT /\ client'.txt = c.txt
      /\ UNCHANGED <<client.mode, client.obj, client.off, client.wb, client.reads>>
      /\ client'.objs = IF i = Cycle THEN Append(client.objs, CycleObj) ELSE client.objs
  <2>1. CASE i = Cycle
    <3>1. client' = [c EXCEPT !.objs = Append(@, CycleObj), !.writes = TRUE, !.mode = c.mode]
      BY <1>4, <2>1 DEF DataSend
    <3>2. Append(c.objs, CycleObj) \in Seq(Obj)
      BY <1>5, ObjCases, AppendProperties DEF ClientT
    <3> QED
      BY <1>5, <2>1, <3>1, <3>2 DEF ClientT
  <2>2. CASE i # Cycle
    BY <1>4, <1>5, <2>2
  <2> QED
    BY <2>1, <2>2
<1>8. i \in Id => i \in DOMAIN task /\ task[i].st = "queued"
  BY <1>2 DEF IInv, Tasked
<1>9. i # Cycle => i \in Id
  BY <1>2
<1>10. /\ task' \in Seq(TaskT) /\ DOMAIN task' = DOMAIN task
       /\ \A j \in DOMAIN task : /\ task'[j].of = task[j].of
                                 /\ task'[j].st = IF j = i /\ i # Cycle THEN "running" ELSE task[j].st
  <2>1. CASE i = Cycle
    BY <1>1, <1>4, <2>1
  <2>2. CASE i # Cycle
    <3>1. task' = [task EXCEPT ![i].st = "running"] /\ i \in DOMAIN task
      BY <1>4, <1>8, <1>9, <2>2
    <3>2. /\ task' \in Seq(TaskT) /\ DOMAIN task' = DOMAIN task
          /\ \A j \in DOMAIN task : /\ task'[j].of = task[j].of
                                    /\ task'[j].st = IF j = i THEN "running" ELSE task[j].st
      BY ONLY <1>1, <3>1, TaskMoves
    <3> QED
      BY <2>2, <3>2
  <2> QED
    BY <2>1, <2>2
<1>11. \A j \in DOMAIN task : /\ j \in DOMAIN task' /\ task'[j].of = task[j].of
                              /\ task[j].st = "freed" => task'[j].st = "freed"
  BY <1>8, <1>9, <1>10
<1>12. Filed' /\ Late'
  BY <1>1, <1>11, DaemonRest
<1>13. Asked'
  BY <1>1, <1>10, DaemonAsked DEF IInv
<1>14. Ends'
  BY <1>1, <1>6, <1>7, EndsKept DEF IInv
<1>15. Freed'
  <2>1. client.mode # "freed"
    BY <1>1 DEF IInv, Freed
  <2> QED
    BY <1>1, <1>7, <2>1 DEF IInv, Freed
<1>16. Shapes'
  <2>1. Writing(client)'
    BY <1>7 DEF IInv, Shapes, Writing, NoObj
  <2> QED
    BY <1>1, <1>6, <1>7, <1>10, <2>1 DEF IInv, Shapes
<1>17. Tasked'
  <2>1. /\ \A j \in Id : j \in source.tasks <=> j \in DOMAIN task /\ task[j].st # "freed"
        /\ \A j, k \in DOMAIN task : task[j].of = task[k].of => j = k
        /\ Apart(source.commands) /\ Apart(done_queue)
        /\ \A j \in Id : In(j, source.commands) => j \in DOMAIN task /\ task[j].st = "queued"
        /\ \A j \in Id : In(j, done_queue) => j \in DOMAIN task /\ task[j].st = "done"
    BY DEF IInv, Tasked
  <2>2. \A j \in Id : j \in source'.tasks <=> j \in DOMAIN task' /\ task'[j].st # "freed"
    BY <1>6, <1>8, <1>9, <1>10, <2>1
  <2>3. \A j, k \in DOMAIN task' : task'[j].of = task'[k].of => j = k
    BY <1>10, <2>1
  <2>4. Apart(source'.commands) /\ Apart(done_queue')
    BY <1>1, <1>3, <1>6, <2>1
  <2>5. \A j \in Id : In(j, source'.commands) => j \in DOMAIN task' /\ task'[j].st = "queued"
    BY <1>2, <1>6, <1>10, <2>1
  <2>6. \A j \in Id : In(j, done_queue') => j \in DOMAIN task' /\ task'[j].st = "done"
    BY <1>1, <1>8, <1>9, <1>10, <2>1
  <2> QED
    BY <2>2, <2>3, <2>4, <2>5, <2>6, TaskedNext
<1>18. Streams'
  <2>1. \A w \in Seq(Line) : Rest(w) =>
          IF client'.mode \in {"flush", "freed"} THEN ~Has(w, "task") ELSE w = rx'
    BY <1>1, <1>7 DEF Rest
  <2>2. \A K \in SUBSET Id : Owing(K) => Owing(K)'
    <3> SUFFICES ASSUME NEW K \in SUBSET Id, Owing(K) PROVE Owing(K)'
      OBVIOUS
    <3>1. K \subseteq DOMAIN task' /\ Owes(K, source.tasks, client.objs)
      BY <1>10 DEF Owing
    <3>2. PICK q \in Seq(Obj) : q = client.objs
      BY <1>1
    <3>3. Owes(K, source.tasks, q) /\ Owes(K, source.tasks, Append(q, CycleObj))
      BY <3>1, <3>2, OwesCycle
    <3>4. Owes(K, source'.tasks, client'.objs)
      BY <1>6, <1>7, <3>2, <3>3
    <3> QED
      BY <3>1, <3>4, OwingNext
  <2>3. Streams
    BY DEF IInv
  <2>4. CASE c.txt = client.txt
    <3>1. UNCHANGED <<client.wb, client.txt, client.obj, client.off>>
      BY <1>7, <2>4
    <3> QED
      BY <1>1, <1>11, <2>1, <2>2, <2>3, <3>1, QuietStreams
  <2>5. CASE c.txt = Append(client.txt, More)
    <3>1. client'.txt = Append(client.txt, More) /\ More \in Spoken /\ More \in Answer /\ More.k = "MORE"
      BY <1>7, <2>5, SpokenCases, AnswerKinds
    <3>2. \A w \in Seq(Line) : <<w, More, w>> \in Pairs'
      BY <3>1, PairsNext
    <3>3. \A K \in SUBSET Id : <<K, More, K>> \in Knows
      BY <3>1, KnowsStep
    <3>4. \A w \in Seq(Line) : Rest(w) =>
            \E v \in Seq(Line) : /\ <<w, More, v>> \in Pairs'
                                 /\ IF client'.mode \in {"flush", "freed"} THEN ~Has(v, "task") ELSE v = rx'
      BY <2>1, <3>2
    <3>5. \A K \in SUBSET Id : Owing(K) => \E J \in SUBSET Id : <<K, More, J>> \in Knows /\ Owing(J)'
      BY <2>2, <3>3
    <3> QED
      BY <1>1, <1>7, <1>11, <2>3, <3>1, <3>4, <3>5, SayStreams
  <2> QED
    BY <1>5, <2>4, <2>5
<1> QED
  BY <1>12, <1>13, <1>14, <1>15, <1>16, <1>17, <1>18 DEF IInv

(* A measurement ends and its task joins the done queue.                   *)
LEMMA TaskEndsKeeps ==
  ASSUME IInv, NEW i \in DOMAIN task, Lib(TaskEnds(i)) PROVE IInv'
<1>1. /\ client \in ClientT /\ source \in SourceT /\ task \in Seq(TaskT) /\ done_queue \in Seq(Id)
      /\ task[i].st = "running" /\ task' = [task EXCEPT ![i].st = "done"]
      /\ done_queue' = Append(done_queue, i)
      /\ UNCHANGED <<client, source, rx, tx, shut, inst, mine, fault>>
  BY DEF IInv, Shapes, Lib, TaskEnds
<1>2. /\ \A j \in Id : j \in source.tasks <=> j \in DOMAIN task /\ task[j].st # "freed"
      /\ \A j, k \in DOMAIN task : task[j].of = task[k].of => j = k
      /\ Apart(source.commands) /\ Apart(done_queue)
      /\ \A j \in Id : In(j, source.commands) => j \in DOMAIN task /\ task[j].st = "queued"
      /\ \A j \in Id : In(j, done_queue) => j \in DOMAIN task /\ task[j].st = "done"
  BY DEF IInv, Tasked
<1>3. i \in Id
  <2>1. DOMAIN task \subseteq Id
    BY <1>1, <1>2, TasksBound
  <2> QED
    BY <2>1
<1>4. /\ task' \in Seq(TaskT) /\ DOMAIN task' = DOMAIN task
      /\ \A j \in DOMAIN task : task'[j].of = task[j].of /\ task'[j].st = IF j = i THEN "done" ELSE task[j].st
  <2>1. task \in Seq(TaskT) /\ i \in DOMAIN task /\ task' = [task EXCEPT ![i].st = "done"]
    BY <1>1
  <2> QED
    BY ONLY <2>1, TaskMoves
<1>5. ~In(i, done_queue)
  BY <1>1, <1>2, <1>3
<1>6. /\ done_queue' \in Seq(Id) /\ Apart(done_queue')
      /\ \A x : In(x, done_queue') <=> In(x, done_queue) \/ x = i
  BY <1>1, <1>2, <1>3, <1>5, MoreIn
<1>7. \A j \in DOMAIN task : /\ j \in DOMAIN task' /\ task'[j].of = task[j].of
                             /\ task[j].st = "freed" => task'[j].st = "freed"
  BY <1>1, <1>4
<1>8. Filed' /\ Late'
  BY <1>1, <1>7, DaemonRest
<1>9. Asked'
  BY <1>1, <1>4, DaemonAsked DEF IInv
<1>10. Ends'
  BY <1>1, EndsKept DEF IInv
<1>11. Freed'
  <2>1. source.tasks # {}
    BY <1>1, <1>2, <1>3
  <2>2. client.mode # "freed"
    BY <2>1 DEF IInv, Freed
  <2> QED
    BY <1>1, <2>2 DEF IInv, Freed
<1>12. Shapes'
  <2>1. Writing(client)'
    BY <1>1 DEF IInv, Shapes, Writing, NoObj
  <2> QED
    BY <1>1, <1>4, <1>6, <2>1 DEF IInv, Shapes
<1>13. Tasked'
  <2>1. \A j \in Id : j \in source'.tasks <=> j \in DOMAIN task' /\ task'[j].st # "freed"
    BY <1>1, <1>2, <1>4
  <2>2. \A j, k \in DOMAIN task' : task'[j].of = task'[k].of => j = k
    BY <1>2, <1>4
  <2>3. Apart(source'.commands) /\ Apart(done_queue')
    BY <1>1, <1>2, <1>6
  <2>4. \A j \in Id : In(j, source'.commands) => j \in DOMAIN task' /\ task'[j].st = "queued"
    BY <1>1, <1>2, <1>4
  <2>5. \A j \in Id : In(j, done_queue') => j \in DOMAIN task' /\ task'[j].st = "done"
    BY <1>1, <1>2, <1>4, <1>6
  <2> QED
    BY <2>1, <2>2, <2>3, <2>4, <2>5, TaskedNext
<1>14. Streams'
  <2>1. Streams
    BY DEF IInv
  <2> QED
    BY <1>1, <1>7, <2>1, StreamsKept
<1> QED
  BY <1>8, <1>9, <1>10, <1>11, <1>12, <1>13, <1>14 DEF IInv

(* scamper_process_done: the result of a task is written, and the cycle    *)
(* stop after it if it was the last of a finished source.                  *)
LEMMA ProcessDoneKeeps ==
  ASSUME IInv, Lib(ProcessDone) PROVE IInv'
<1>1. /\ client \in ClientT /\ source \in SourceT /\ task \in Seq(TaskT)
      /\ done_queue \in Seq(Id) /\ done_queue # <<>> /\ client.objs \in Seq(Obj)
      /\ UNCHANGED <<inst, mine, fault, rx, tx, shut>>
  BY DEF IInv, Shapes, ClientT, Lib, ProcessDone
<1>2. PICK i \in Id : i = Head(done_queue)
  BY <1>1
<1>3. PICK c, s : c = DataSend(client, Result(i), FALSE) /\ s = [source EXCEPT !.tasks = @ \ {i}]
  OBVIOUS
<1>4. PICK e : e = EndCycle(c, s)
  OBVIOUS
<1>5. /\ client' = e.c /\ source' = e.s /\ task' = [task EXCEPT ![i].st = "freed"]
      /\ done_queue' = Tail(done_queue)
  BY <1>2, <1>3, <1>4 DEF Lib, ProcessDone
<1>6. /\ \A j \in Id : j \in source.tasks <=> j \in DOMAIN task /\ task[j].st # "freed"
      /\ \A j, k \in DOMAIN task : task[j].of = task[k].of => j = k
      /\ Apart(source.commands) /\ Apart(done_queue)
      /\ \A j \in Id : In(j, source.commands) => j \in DOMAIN task /\ task[j].st = "queued"
      /\ \A j \in Id : In(j, done_queue) => j \in DOMAIN task /\ task[j].st = "done"
  BY DEF IInv, Tasked
<1>7. /\ Tail(done_queue) \in Seq(Id) /\ Within(Tail(done_queue), done_queue) /\ In(i, done_queue)
      /\ \A x : In(x, done_queue) <=> x = i \/ In(x, Tail(done_queue))
      /\ ~In(i, Tail(done_queue))
  BY <1>1, <1>2, <1>6, TailWithin
<1>8. Apart(Tail(done_queue))
  BY <1>1, <1>6, <1>7, WithinKept
<1>9. i \in DOMAIN task /\ task[i].st = "done" /\ i \in source.tasks
  BY <1>6, <1>7
<1>10. /\ c \in ClientT /\ c.txt = client.txt /\ c.mode = client.mode /\ c.obj = client.obj
       /\ c.off = client.off /\ c.wb = client.wb /\ c.reads = client.reads
       /\ c.objs = Append(client.objs, Result(i)) /\ c.objs \in Seq(Obj)
  <2>1. Append(client.objs, Result(i)) \in Seq(Obj)
    BY <1>1, ObjCases, AppendProperties
  <2>2. c = [client EXCEPT !.objs = Append(@, Result(i)), !.writes = TRUE, !.mode = client.mode]
    BY <1>3 DEF DataSend
  <2> QED
    BY <1>1, <2>1, <2>2 DEF ClientT
<1>11. /\ s \in SourceT /\ s.open = source.open /\ s.commands = source.commands
       /\ s.tasks = source.tasks \ {i} /\ s.finished = source.finished /\ s.cyclemon = source.cyclemon
  BY <1>1, <1>3 DEF SourceT
<1>12. /\ client' \in ClientT /\ source' \in SourceT
       /\ UNCHANGED <<client.txt, client.obj, client.off, client.wb, client.reads>>
       /\ UNCHANGED <<source.open, source.commands, source.finished>>
       /\ source'.tasks = source.tasks \ {i}
       /\ \/ client'.objs = c.objs /\ client'.mode = client.mode /\ source'.cyclemon = source.cyclemon
          \/ /\ source.cyclemon /\ (source.open => source.finished)
             /\ client'.objs = Append(c.objs, CycleObj) /\ client'.mode = "flush" /\ ~source'.cyclemon
  BY <1>4, <1>5, <1>10, <1>11, EndCycleCases
<1>13. /\ task' \in Seq(TaskT) /\ DOMAIN task' = DOMAIN task
       /\ \A j \in DOMAIN task : task'[j].of = task[j].of /\ task'[j].st = IF j = i THEN "freed" ELSE task[j].st
  <2>1. task \in Seq(TaskT) /\ i \in DOMAIN task /\ task' = [task EXCEPT ![i].st = "freed"]
    BY <1>1, <1>5, <1>9
  <2> QED
    BY ONLY <2>1, TaskMoves
<1>14. \A j \in DOMAIN task : /\ j \in DOMAIN task' /\ task'[j].of = task[j].of
                              /\ task[j].st = "freed" => task'[j].st = "freed"
  BY <1>13
<1>15. client.mode # "freed"
  BY <1>1 DEF IInv, Freed
<1>16. client'.mode = client.mode \/ (client'.mode = "flush" /\ ("client" \notin shut => source.finished))
  BY <1>12 DEF IInv, Ends
<1>17. Filed' /\ Late'
  BY <1>1, <1>14, DaemonRest
<1>18. Asked'
  BY <1>1, <1>13, DaemonAsked DEF IInv
<1>19. Ends'
  BY <1>1, <1>12, <1>16, EndsNext DEF IInv, Ends
<1>20. Freed'
  BY <1>1, <1>15, <1>16 DEF IInv, Freed
<1>21. Shapes'
  <2>1. Writing(client)'
    BY <1>12 DEF IInv, Shapes, Writing, NoObj
  <2> QED
    BY <1>1, <1>5, <1>7, <1>12, <1>13, <2>1 DEF IInv, Shapes
<1>22. Tasked'
  <2>1. \A j \in Id : j \in source'.tasks <=> j \in DOMAIN task' /\ task'[j].st # "freed"
    BY <1>6, <1>12, <1>13
  <2>2. \A j, k \in DOMAIN task' : task'[j].of = task'[k].of => j = k
    BY <1>6, <1>13
  <2>3. Apart(source'.commands) /\ Apart(done_queue')
    BY <1>5, <1>6, <1>8, <1>12
  <2>4. \A j \in Id : In(j, source'.commands) => j \in DOMAIN task' /\ task'[j].st = "queued"
    BY <1>6, <1>9, <1>12, <1>13
  <2>5. \A j \in Id : In(j, done_queue') => j \in DOMAIN task' /\ task'[j].st = "done"
    BY <1>5, <1>6, <1>7, <1>13
  <2> QED
    BY <2>1, <2>2, <2>3, <2>4, <2>5, TaskedNext
<1>23. Streams'
  <2>1. "client" \notin shut =>
           \A w \in Seq(Line) : Rest(w) =>
             IF client'.mode \in {"flush", "freed"} THEN ~Has(w, "task") ELSE w = rx'
    <3> SUFFICES ASSUME "client" \notin shut, NEW w \in Seq(Line), Rest(w)
                 PROVE  IF client'.mode \in {"flush", "freed"} THEN ~Has(w, "task") ELSE w = rx'
      OBVIOUS
    <3>1. CASE client'.mode = client.mode
      BY <1>1, <3>1 DEF Rest
    <3>2. CASE client'.mode = "flush" /\ source.finished
      <4>1. ~Has(rx, "task")
        BY <3>2 DEF IInv, Ends
      <4> QED
        BY <3>2, <4>1 DEF Rest
    <3> QED
      BY <1>16, <3>1, <3>2
  <2>2. \A K \in SUBSET Id : Owing(K) => Owing(K)'
    <3> SUFFICES ASSUME NEW K \in SUBSET Id, Owing(K) PROVE Owing(K)'
      OBVIOUS
    <3>1. K \subseteq DOMAIN task' /\ Owes(K, source.tasks, client.objs)
      BY <1>13 DEF Owing
    <3>2. PICK q \in Seq(Obj), p \in Seq(Obj) : q = client.objs /\ p = Append(q, Result(i))
      BY <1>1, <1>10
    <3>3. Owes(K, source.tasks \ {i}, p)
      BY <1>9, <3>1, <3>2, OwesResult
    <3>4. Owes(K, source.tasks \ {i}, Append(p, CycleObj))
      BY <3>3, OwesCycle
    <3>5. Owes(K, source'.tasks, client'.objs)
      BY <1>10, <1>12, <3>2, <3>3, <3>4
    <3> QED
      BY <3>1, <3>5, OwingNext
  <2>3. Streams
    BY DEF IInv
  <2> QED
    BY <1>1, <1>12, <1>14, <2>1, <2>2, <2>3, QuietStreams
<1> QED
  BY <1>17, <1>18, <1>19, <1>20, <1>21, <1>22, <1>23 DEF IInv

(* A command is read: its answer goes after those that were said before.   *)
LEMMA AnswerStreams ==
  ASSUME IInv, rx # <<>>, rx' = Tail(rx), client.mode \notin {"flush", "freed"},
         UNCHANGED <<tx, inst, shut>>, UNCHANGED <<client.wb, client.obj, client.off>>,
         NEW x \in Spoken, client'.txt = Append(client.txt, x), x.k \in {"OK", "OK id", "ERR"},
         \A i \in DOMAIN task : /\ i \in DOMAIN task' /\ task'[i].of = task[i].of
                                /\ task[i].st = "freed" => task'[i].st = "freed",
         NEW y, y = Head(rx), "client" \notin shut => Meets(x, y)',
         client'.mode \in {"flush", "freed"} /\ "client" \notin shut => ~Has(Tail(rx), "task"),
         \A K \in SUBSET Id : Owing(K) => \E J \in SUBSET Id : <<K, x, J>> \in Knows /\ Owing(J)'
  PROVE  Streams'
<1>1. rx \in Seq(Line) /\ Tail(rx) \in Seq(Line) /\ x \in Answer
  <2>1. rx \in Seq(Line)
    BY DEF IInv, Shapes
  <2> QED
    BY <2>1, SpokenCases, HeadTailProperties
<1>2. client.txt \in Seq(Answer) /\ Streams
  BY SpokenSeq DEF IInv, Shapes, ClientT
<1>3. "client" \notin shut =>
        \A w \in Seq(Line) : Rest(w) =>
          \E v \in Seq(Line) : /\ <<w, x, v>> \in Pairs'
                               /\ IF client'.mode \in {"flush", "freed"} THEN ~Has(v, "task") ELSE v = rx'
  <2> SUFFICES ASSUME "client" \notin shut, NEW w \in Seq(Line), Rest(w)
               PROVE  \E v \in Seq(Line) : /\ <<w, x, v>> \in Pairs'
                                           /\ IF client'.mode \in {"flush", "freed"} THEN ~Has(v, "task")
                                              ELSE v = rx'
    OBVIOUS
  <2>1. w = rx
    BY DEF Rest
  <2>2. PICK u \in Seq(Line), v \in Seq(Line) : u = rx /\ v = Tail(rx)
    BY <1>1
  <2>3. u # <<>> /\ Meets(x, y)' /\ v = Tail(u) /\ y = Head(u)
    BY <2>2
  <2>4. <<u, x, v>> \in Pairs'
    BY <1>1, <2>3, PairsNext
  <2>5. IF client'.mode \in {"flush", "freed"} THEN ~Has(v, "task") ELSE v = rx'
    BY <2>2
  <2> QED
    BY <2>1, <2>2, <2>4, <2>5
<1> QED
  BY <1>2, <1>3, SayStreams

(* Asked when scamper has read a line, whose task it may have made.        *)
LEMMA ReadAsked ==
  ASSUME IInv, rx # <<>>, rx' = Tail(rx), UNCHANGED <<inst, mine>>,
         DOMAIN task \subseteq DOMAIN task',
         \A t \in Task : MadeOf(t)' <=> MadeOf(t) \/ (Head(rx) = Do(t) /\ MadeOf(t)')
  PROVE  Asked'
<1>1. rx \in Seq(Line)
  BY DEF IInv, Shapes
<1> DEFINE x == Head(rx)
           W == Tail(rx)
<1>2. /\ Within(W, rx) /\ W \in Seq(Line)
      /\ \A y : In(y, rx) <=> y = x \/ In(y, W)
      /\ Once(rx) /\ x.k = "task" => ~In(x, W)
  BY <1>1, TailWithin
<1>3. Once(rx) => Once(W)
  BY <1>1, <1>2, WithinKept
<1>4. rx' = W /\ \A t \in Task : MadeOf(t)' => MadeOf(t) \/ x = Do(t)
  OBVIOUS
<1> HIDE DEF x, W
<1>5. Once(inst'.queue) /\ Once(rx') /\ Once(inst'.waitok)
  BY <1>3, <1>4 DEF IInv, Asked
<1>6. ASSUME NEW t \in Task
      PROVE  /\ In(Do(t), inst'.queue) <=> mine'[t].st = "queue"
             /\ In(Do(t), inst'.waitok) <=> mine'[t].st = "waitok"
             /\ In(Do(t), rx') \/ MadeOf(t)' => mine'[t].st \notin {"new", "queue", "dropped"}
             /\ ~(In(Do(t), rx') /\ MadeOf(t)')
  <2>1. /\ In(Do(t), inst.queue) <=> mine[t].st = "queue"
        /\ In(Do(t), inst.waitok) <=> mine[t].st = "waitok"
        /\ In(Do(t), rx) \/ MadeOf(t) => mine[t].st \notin {"new", "queue", "dropped"}
        /\ ~(In(Do(t), rx) /\ MadeOf(t))
    BY DEF IInv, Asked
  <2>2. CASE x = Do(t)
    <3>1. ~In(x, W)
      <4>1. x.k = "task" /\ Once(rx)
        BY <2>2, LineHas DEF IInv, Asked
      <4> QED
        BY <1>2, <4>1
    <3> QED
      BY <1>2, <1>4, <2>1, <2>2, <3>1
  <2>3. CASE x # Do(t)
    BY <1>2, <1>4, <2>1, <2>3
  <2> QED
    BY <2>2, <2>3
<1>7. \A t \in Task, i \in Id :
        In(Halt(t, i), inst'.queue) \/ In(Halt(t, i), rx') \/ In(Halt(t, i), inst'.waitok)
        => i \in DOMAIN task' /\ mine'[t].halt
  BY <1>2, <1>4 DEF IInv, Asked
<1> QED
  BY <1>5, <1>6, <1>7, AskedNext

(* Ends when scamper has read a line: after "done" no task is on its way.  *)
LEMMA ReadEnds ==
  ASSUME IInv, rx # <<>>, rx' = Tail(rx), UNCHANGED <<inst, shut>>,
         "client" \notin shut =>
           /\ source'.finished => source.finished \/ Head(rx) = Done
           /\ client'.mode \in {"flush", "freed"} => source'.finished
           /\ source'.cyclemon => source'.open
  PROVE  Ends' /\ ("client" \notin shut /\ source'.finished => ~Has(Tail(rx), "task"))
<1>1. rx \in Seq(Line)
  BY DEF IInv, Shapes
<1> DEFINE W == Tail(rx)
<1>2. /\ Within(W, rx) /\ W \in Seq(Line) /\ In(Head(rx), rx)
      /\ \A y : In(y, rx) <=> y = Head(rx) \/ In(y, W)
      /\ \A k : Has(rx, k) <=> Head(rx).k = k \/ Has(W, k)
      /\ AfterDone(rx) /\ Head(rx) = Done => ~Has(W, "task")
  BY <1>1, TailWithin
<1>3. AfterDone(rx) => AfterDone(W)
  BY <1>1, <1>2, WithinKept
<1>4. rx' = W
  OBVIOUS
<1> HIDE DEF W
<1>5. /\ AfterDone(inst.queue) /\ AfterDone(rx)
      /\ In(Done, inst.queue) \/ In(Done, rx) => inst.done
      /\ In(Done, rx) => ~Has(inst.queue, "task")
      /\ "client" \notin shut /\ source.finished
         => inst.done /\ ~Has(inst.queue, "task") /\ ~Has(rx, "task")
  BY DEF IInv, Ends
<1>6. "client" \notin shut /\ source'.finished
      => inst.done /\ ~Has(inst.queue, "task") /\ ~Has(W, "task")
  BY <1>2, <1>5
<1>7. Ends'
  BY <1>2, <1>3, <1>4, <1>5, <1>6, EndsNext
<1> QED
  BY <1>6, <1>7 DEF W

(* What is owed is not changed by a word that tells no id.                 *)
LEMMA OwingPlain ==
  ASSUME NEW x \in {Ok, Err}, \A K \in SUBSET Id : Owing(K) => Owing(K)'
  PROVE  \A K \in SUBSET Id : Owing(K) => \E J \in SUBSET Id : <<K, x, J>> \in Knows /\ Owing(J)'
<1>1. x \in Answer /\ x.k \notin {"OK id", "DATA"}
  BY SpokenCases, AnswerKinds
<1>2. \A K \in SUBSET Id : <<K, x, K>> \in Knows
  BY <1>1, KnowsStep
<1> QED
  BY <1>2

(* What client_read finds: a line, and a client that is not freed.         *)
LEMMA ReadBase ==
  ASSUME IInv, Lib(ClientRead)
  PROVE  /\ client \in ClientT /\ source \in SourceT /\ task \in Seq(TaskT) /\ done_queue \in Seq(Id)
         /\ rx \in Seq(Line) /\ rx # <<>> /\ rx' = Tail(rx) /\ rx' \in Seq(Line) /\ Head(rx) \in Line
         /\ In(Head(rx), rx)
         /\ UNCHANGED <<tx, shut, inst, mine, fault>> /\ client.mode # "freed"
         /\ ClientReadLine(Head(rx))
<1>1. /\ client \in ClientT /\ source \in SourceT /\ task \in Seq(TaskT) /\ done_queue \in Seq(Id)
      /\ rx \in Seq(Line) /\ rx # <<>> /\ rx' = Tail(rx)
      /\ UNCHANGED <<tx, shut, inst, mine, fault>> /\ client.reads /\ ClientReadLine(Head(rx))
  BY DEF IInv, Shapes, Lib, ClientRead
<1>2. client.mode # "freed"
  BY <1>1 DEF IInv, Freed
<1>3. Tail(rx) \in Seq(Line) /\ Head(rx) \in Line /\ In(Head(rx), rx)
  BY <1>1, TailWithin
<1> QED
  BY <1>1, <1>2, <1>3

(* A step of scamper that keeps the shapes of what it changes keeps them   *)
(* all.                                                                    *)
LEMMA DaemonShapes ==
  ASSUME IInv, client' \in ClientT, source' \in SourceT, task' \in Seq(TaskT), done_queue' \in Seq(Id),
         rx' \in Seq(Line), UNCHANGED <<tx, inst, mine, shut, client.obj, client.off>>
  PROVE  Shapes'
<1>1. Writing(client)'
  BY DEF IInv, Shapes, Writing, NoObj
<1> QED
  BY <1>1 DEF IInv, Shapes

(* Freed is kept while the client is not freed.                            *)
LEMMA OpenFreed ==
  ASSUME IInv, client.mode # "freed", client'.mode # "freed", UNCHANGED <<tx, inst, shut, fault>>
  PROVE  Freed'
  BY DEF IInv, Freed

(* command_attach says "OK" to the oldest command and gives the source its *)
(* cycle.                                                                  *)
LEMMA AttachKeeps ==
  ASSUME IInv, Lib(ClientRead), client.mode = "interactive", Head(rx) = Attach, CommandAttach
  PROVE  IInv'
<1>1. /\ client \in ClientT /\ source \in SourceT /\ task \in Seq(TaskT) /\ done_queue \in Seq(Id)
      /\ rx \in Seq(Line) /\ rx # <<>> /\ rx' = Tail(rx) /\ rx' \in Seq(Line) /\ Head(rx) \in Line
      /\ UNCHANGED <<tx, shut, inst, mine, fault>>
  BY ReadBase
<1>2. PICK c : c = [client EXCEPT !.mode = "attached"]
  OBVIOUS
<1>3. /\ c \in ClientT /\ c.txt = client.txt /\ c.mode = "attached" /\ c.objs = client.objs
      /\ c.obj = client.obj /\ c.off = client.off /\ c.wb = client.wb /\ c.reads = client.reads
  BY <1>1, <1>2 DEF ClientT
<1>4. Ok \in Spoken /\ Ok \in {Ok, Err} /\ Ok.k = "OK"
  BY SpokenCases, AnswerKinds
<1>5. client' = Say(c, Ok)
  BY <1>2 DEF CommandAttach
<1>6. /\ client' \in ClientT /\ client'.txt = Append(client.txt, Ok) /\ client'.mode = "attached"
      /\ UNCHANGED <<client.objs, client.obj, client.off, client.wb>>
  BY <1>3, <1>4, <1>5, SayFields
<1>7. /\ source' \in SourceT /\ source'.commands = <<Cycle>> /\ source'.open
      /\ UNCHANGED <<source.tasks, source.finished, task, done_queue>>
  <2>1. <<Cycle>> \in Seq(Id \cup {Cycle})
    OBVIOUS
  <2> QED
    BY <1>1, <2>1 DEF CommandAttach, SourceT
<1>8. Shapes'
  BY <1>1, <1>6, <1>7, DaemonShapes
<1>9. Tasked'
  <2>1. Apart(source'.commands) /\ \A x : In(x, source'.commands) => x = Cycle
    BY <1>7 DEF Apart, In
  <2>2. \A i \in Id : ~In(i, source'.commands)
    BY <2>1, ObjCases DEF Cycle
  <2> QED
    BY <1>7, <2>1, <2>2, TaskedNext DEF IInv, Tasked
<1>10. Asked'
  <2>1. \A t : MadeOf(t)' <=> MadeOf(t)
    BY <1>7 DEF MadeOf
  <2> QED
    BY <1>1, <1>7, <2>1, ReadAsked
<1>11. Filed' /\ Late'
  BY <1>1, <1>7, DaemonRest
<1>12. Freed'
  BY <1>1, <1>6, OpenFreed
<1>13. Ends'
  BY <1>1, <1>6, <1>7, ReadEnds
<1>14. Streams'
  <2>1. \A K \in SUBSET Id : Owing(K) => Owing(K)'
    BY <1>6, <1>7, OwingNext DEF Owing
  <2>2. \A K \in SUBSET Id : Owing(K) => \E J \in SUBSET Id : <<K, Ok, J>> \in Knows /\ Owing(J)'
    BY <1>4, <2>1, OwingPlain
  <2>3. PICK y : y = Head(rx)
    OBVIOUS
  <2>4. Meets(Ok, y)'
    BY <1>4, <2>3, LineHas DEF Meets
  <2> QED
    BY <1>1, <1>4, <1>6, <1>7, <2>2, <2>3, <2>4, AnswerStreams
<1> QED
  BY <1>8, <1>9, <1>10, <1>11, <1>12, <1>13, <1>14 DEF IInv

(* A command is refused: nothing changes but what is said.                 *)
LEMMA RefusedKeeps ==
  ASSUME IInv, Lib(ClientRead), client.mode = "attached", client' = Say(client, Err),
         UNCHANGED <<source, task, done_queue>>, Meets(Err, Head(rx))
  PROVE  IInv'
<1>1. /\ client \in ClientT /\ source \in SourceT /\ task \in Seq(TaskT) /\ done_queue \in Seq(Id)
      /\ rx \in Seq(Line) /\ rx # <<>> /\ rx' = Tail(rx) /\ rx' \in Seq(Line) /\ Head(rx) \in Line
      /\ UNCHANGED <<tx, shut, inst, mine, fault>>
  BY ReadBase
<1>2. Err \in Spoken /\ Err \in {Ok, Err} /\ Err.k = "ERR"
  BY SpokenCases, AnswerKinds
<1>3. /\ client' \in ClientT /\ client'.txt = Append(client.txt, Err) /\ client'.mode = "attached"
      /\ UNCHANGED <<client.objs, client.obj, client.off, client.wb>>
  BY <1>1, <1>2, SayFields
<1>4. Shapes'
  BY <1>1, <1>3, DaemonShapes
<1>5. Tasked'
  BY TaskedKept DEF IInv
<1>6. Asked'
  <2>1. \A t : MadeOf(t)' <=> MadeOf(t)
    BY DEF MadeOf
  <2> QED
    BY <1>1, <2>1, ReadAsked
<1>7. Filed' /\ Late'
  BY <1>1, DaemonRest
<1>8. Freed'
  BY <1>1, <1>3, OpenFreed
<1>9. Ends'
  <2>1. "client" \notin shut /\ source'.cyclemon => source'.open
    BY DEF IInv, Ends
  <2> QED
    BY <1>1, <1>3, <2>1, ReadEnds
<1>10. Streams'
  <2>1. \A K \in SUBSET Id : Owing(K) => Owing(K)'
    BY <1>3, OwingNext DEF Owing
  <2>2. \A K \in SUBSET Id : Owing(K) => \E J \in SUBSET Id : <<K, Err, J>> \in Knows /\ Owing(J)'
    BY <1>2, <2>1, OwingPlain
  <2>3. PICK y : y = Head(rx)
    OBVIOUS
  <2>4. Meets(Err, y)'
    BY <2>3, AnswerKinds DEF Meets
  <2> QED
    BY <1>1, <1>2, <1>3, <2>2, <2>3, <2>4, AnswerStreams
<1> QED
  BY <1>4, <1>5, <1>6, <1>7, <1>8, <1>9, <1>10 DEF IInv

(* An id that is told is known.                                            *)
LEMMA KnowsTold ==
  ASSUME NEW K \in SUBSET Id, NEW x \in Answer, NEW J \in SUBSET Id,
         x.k = "OK id", x.id \notin K, J = K \cup {x.id}
  PROVE  <<K, x, J>> \in Knows
<1>1. <<K, x, J>> \in Knows <=>
           IF x.k = "OK id" THEN x.id \notin K /\ J = K \cup {x.id}
           ELSE IF x.k = "DATA" /\ x.id # 0 THEN x.id \in K /\ J = K \ {x.id}
           ELSE J = K
  BY ONLY KnowsStep, K \in SUBSET Id, x \in Answer, J \in SUBSET Id, Zenon
<1> QED
  BY <1>1, Zenon

(* A task is made of a command.                                            *)
LEMMA MadeKeeps ==
  ASSUME IInv, Lib(ClientRead), client.mode = "attached", NEW t \in Task, Head(rx) = Do(t),
         NEW id, id = Len(task) + 1,
         source' = [source EXCEPT !.commands = Append(@, id), !.tasks = @ \cup {id}],
         task' = Append(task, [of |-> t, st |-> "queued"]),
         client' = Say(client, OkId(id)), UNCHANGED done_queue
  PROVE  IInv'
<1>1. /\ client \in ClientT /\ source \in SourceT /\ task \in Seq(TaskT) /\ done_queue \in Seq(Id)
      /\ rx \in Seq(Line) /\ rx # <<>> /\ rx' = Tail(rx) /\ rx' \in Seq(Line) /\ Head(rx) \in Line
      /\ UNCHANGED <<tx, shut, inst, mine, fault>> /\ In(Head(rx), rx)
  BY ReadBase
<1>2. /\ \A j \in Id : j \in source.tasks <=> j \in DOMAIN task /\ task[j].st # "freed"
      /\ \A j, k \in DOMAIN task : task[j].of = task[k].of => j = k
      /\ Apart(source.commands) /\ Apart(done_queue)
      /\ \A j \in Id : In(j, source.commands) => j \in DOMAIN task /\ task[j].st = "queued"
      /\ \A j \in Id : In(j, done_queue) => j \in DOMAIN task /\ task[j].st = "done"
  BY DEF IInv, Tasked
<1>3. ~MadeOf(t)
  BY <1>1 DEF IInv, Asked
<1>4. /\ task' \in Seq(TaskT) /\ DOMAIN task = 1 .. Len(task) /\ Len(task) \in Nat
      /\ DOMAIN task' = 1 .. Len(task) + 1
      /\ \A i \in DOMAIN task : task'[i] = task[i]
      /\ task'[id].of = t /\ task'[id].st = "queued"
  <2>1. PICK r : r = [of |-> t, st |-> "queued"]
    OBVIOUS
  <2>2. r \in TaskT /\ r.of = t /\ r.st = "queued"
    BY <2>1 DEF TaskT
  <2>3. /\ Append(task, r) \in Seq(TaskT) /\ Len(Append(task, r)) = Len(task) + 1
        /\ \A i \in 1 .. Len(task) : Append(task, r)[i] = task[i]
        /\ Append(task, r)[Len(task) + 1] = r
    BY <1>1, <2>2, AppendProperties
  <2>4. task' = Append(task, r)
    BY <2>1
  <2>5. DOMAIN task = 1 .. Len(task) /\ Len(task) \in Nat /\ DOMAIN task' = 1 .. Len(task')
    BY <1>1, <2>3, <2>4, LenProperties
  <2> QED
    BY <2>2, <2>3, <2>4, <2>5
<1>5. id \in DOMAIN task' /\ id \notin DOMAIN task /\ \A i \in DOMAIN task' : i = id \/ i \in DOMAIN task
  BY <1>4
<1>6. \A i, j \in DOMAIN task' : task'[i].of = task'[j].of => i = j
  <2>1. \A i \in DOMAIN task : task[i].of # t
    BY <1>3 DEF MadeOf
  <2> QED
    BY <1>2, <1>4, <1>5, <2>1
<1>7. id \in Id
  <2>1. PICK q \in Seq(TaskT) : q = task'
    BY <1>4
  <2>2. DOMAIN q \subseteq Id
    BY <1>6, <2>1, TasksBound
  <2> QED
    BY <1>5, <2>1, <2>2
<1>8. OkId(id) \in Spoken /\ OkId(id).k = "OK id" /\ OkId(id).id = id /\ OkId(id) \in Answer
  BY <1>7, SpokenCases, AnswerKinds
<1>9. /\ client' \in ClientT /\ client'.txt = Append(client.txt, OkId(id)) /\ client'.mode = "attached"
      /\ UNCHANGED <<client.objs, client.obj, client.off, client.wb>>
  BY <1>1, <1>8, SayFields
<1>10. /\ source.commands \in Seq(Id \cup {Cycle}) /\ id \in Id \cup {Cycle} /\ ~In(id, source.commands)
  BY <1>1, <1>2, <1>5, <1>7 DEF SourceT
<1>11. /\ Append(source.commands, id) \in Seq(Id \cup {Cycle}) /\ Apart(Append(source.commands, id))
       /\ \A x : In(x, Append(source.commands, id)) <=> In(x, source.commands) \/ x = id
  BY <1>2, <1>10, MoreIn
<1>12. /\ source' \in SourceT /\ source'.commands = Append(source.commands, id)
       /\ source'.tasks = source.tasks \cup {id}
       /\ UNCHANGED <<source.open, source.finished, source.cyclemon>>
  BY <1>1, <1>7, <1>11 DEF SourceT
<1>13. \A i \in DOMAIN task : /\ i \in DOMAIN task' /\ task'[i].of = task[i].of
                              /\ task[i].st = "freed" => task'[i].st = "freed"
  BY <1>4
<1>14. Shapes'
  BY <1>1, <1>4, <1>9, <1>12, DaemonShapes
<1>15. Tasked'
  <2>1. \A j \in Id : j \in source'.tasks <=> j \in DOMAIN task' /\ task'[j].st # "freed"
    BY <1>2, <1>4, <1>5, <1>12
  <2>2. Apart(source'.commands) /\ Apart(done_queue')
    BY <1>2, <1>11, <1>12
  <2>3. \A j \in Id : In(j, source'.commands) => j \in DOMAIN task' /\ task'[j].st = "queued"
    BY <1>2, <1>4, <1>5, <1>11, <1>12
  <2>4. \A j \in Id : In(j, done_queue') => j \in DOMAIN task' /\ task'[j].st = "done"
    BY <1>2, <1>4, <1>13
  <2> QED
    BY <1>6, <2>1, <2>2, <2>3, <2>4, TaskedNext
<1>16. Asked'
  <2>1. \A u \in Task : MadeOf(u)' <=> MadeOf(u) \/ (Head(rx) = Do(u) /\ MadeOf(u)')
    <3> SUFFICES ASSUME NEW u \in Task PROVE MadeOf(u)' <=> MadeOf(u) \/ (Head(rx) = Do(u) /\ MadeOf(u)')
      OBVIOUS
    <3>1. MadeOf(u)' => MadeOf(u) \/ u = t
      BY <1>4, <1>5 DEF MadeOf
    <3>2. MadeOf(u) => MadeOf(u)'
      BY <1>13 DEF MadeOf
    <3> QED
      BY <3>1, <3>2
  <2>2. DOMAIN task \subseteq DOMAIN task'
    BY <1>13
  <2> QED
    BY <1>1, <2>1, <2>2, ReadAsked
<1>17. Filed' /\ Late'
  BY <1>1, <1>13, DaemonRest
<1>18. Freed'
  BY <1>1, <1>9, OpenFreed
<1>19. Ends'
  <2>1. "client" \notin shut /\ source'.cyclemon => source'.open
    BY <1>12 DEF IInv, Ends
  <2> QED
    BY <1>1, <1>9, <1>12, <2>1, ReadEnds
<1>20. Streams'
  <2>1. ASSUME NEW K \in SUBSET Id, Owing(K)
        PROVE  \E J \in SUBSET Id : <<K, OkId(id), J>> \in Knows /\ Owing(J)'
    <3>1. K \subseteq DOMAIN task /\ Owes(K, source.tasks, client.objs)
      BY <2>1 DEF Owing
    <3>2. PICK J \in SUBSET Id : J = K \cup {id}
      BY <1>7
    <3>3. id \notin K /\ J \subseteq DOMAIN task'
      BY <1>5, <1>13, <3>1, <3>2
    <3>4. PICK x \in Answer : x = OkId(id)
      BY <1>8
    <3>5. /\ x.k = "OK id" /\ x.id \notin K /\ J = K \cup {x.id}
          /\ K \in SUBSET Id /\ x \in Answer /\ J \in SUBSET Id
      BY <1>8, <3>2, <3>3, <3>4
    <3>6. <<K, x, J>> \in Knows
      BY <3>5, KnowsTold, Zenon
    <3>7. Owes(J, source.tasks \cup {id}, client.objs)
      BY <1>7, <3>1, <3>2, <3>3 DEF Owes
    <3>8. Owing(J)'
      BY <1>9, <1>12, <3>3, <3>7, OwingNext
    <3> QED
      BY <3>4, <3>6, <3>8
  <2>2. PICK y : y = Head(rx)
    OBVIOUS
  <2>3. Meets(OkId(id), y)'
    <3>1. PICK x : x = OkId(id)
      OBVIOUS
    <3>2. y.k = "task" /\ y.task = t /\ x.k = "OK id" /\ x.id = id
      BY <1>8, <2>2, <3>1, LineHas
    <3>3. Meets(x, y)'
      BY <1>4, <1>5, <3>2 DEF Meets
    <3>4. OkId(id)' = OkId(id)
      BY DEF OkId
    <3> QED
      BY <3>1, <3>3, <3>4 DEF Meets
  <2> QED
    BY <1>1, <1>8, <1>9, <1>13, <2>1, <2>2, <2>3, AnswerStreams
<1> QED
  BY <1>14, <1>15, <1>16, <1>17, <1>18, <1>19, <1>20 DEF IInv

(* A task that scamper has is halted.                                      *)
LEMMA HaltedKeeps ==
  ASSUME IInv, Lib(ClientRead), client.mode = "attached", NEW id \in DOMAIN task, id \in source.tasks,
         Head(rx).k = "halt",
         client' = Say(client, Ok), source' = [source EXCEPT !.commands = Without(@, id)],
         task' = [task EXCEPT ![id].st = "done"],
         done_queue' = Append(Without(done_queue, id), id)
  PROVE  IInv'
<1>1. /\ client \in ClientT /\ source \in SourceT /\ task \in Seq(TaskT) /\ done_queue \in Seq(Id)
      /\ rx \in Seq(Line) /\ rx # <<>> /\ rx' = Tail(rx) /\ rx' \in Seq(Line) /\ Head(rx) \in Line
      /\ UNCHANGED <<tx, shut, inst, mine, fault>>
  BY ReadBase
<1>2. /\ \A j \in Id : j \in source.tasks <=> j \in DOMAIN task /\ task[j].st # "freed"
      /\ \A j, k \in DOMAIN task : task[j].of = task[k].of => j = k
      /\ Apart(source.commands) /\ Apart(done_queue)
      /\ \A j \in Id : In(j, source.commands) => j \in DOMAIN task /\ task[j].st = "queued"
      /\ \A j \in Id : In(j, done_queue) => j \in DOMAIN task /\ task[j].st = "done"
  BY DEF IInv, Tasked
<1>3. id \in Id /\ id \in DOMAIN task /\ task[id].st # "freed"
  BY <1>1, <1>2 DEF SourceT
<1>14. /\ task' \in Seq(TaskT) /\ DOMAIN task' = DOMAIN task
       /\ \A j \in DOMAIN task : task'[j].of = task[j].of /\ task'[j].st = IF j = id THEN "done" ELSE task[j].st
  <2>1. task \in Seq(TaskT) /\ id \in DOMAIN task /\ task' = [task EXCEPT ![id].st = "done"]
    BY <1>1, <1>3
  <2> QED
    BY ONLY <2>1, TaskMoves
<1>4. Ok \in Spoken /\ Ok \in {Ok, Err} /\ Ok.k = "OK"
  BY SpokenCases, AnswerKinds
<1>5. /\ client' \in ClientT /\ client'.txt = Append(client.txt, Ok) /\ client'.mode = "attached"
      /\ UNCHANGED <<client.objs, client.obj, client.off, client.wb>>
  BY <1>1, <1>4, SayFields
<1>6. PICK cs \in Seq(Id \cup {Cycle}) : cs = source.commands
  BY <1>1 DEF SourceT
<1>7. PICK ds : ds = Without(cs, id)
  OBVIOUS
<1>8. ds \in Seq(Id \cup {Cycle}) /\ Within(ds, cs) /\ \A y : In(y, ds) <=> In(y, cs) /\ y # id
  BY <1>2, <1>6, <1>7, WithoutIn DEF Apart
<1>9. Apart(ds)
  BY <1>2, <1>6, <1>8, WithinKept
<1>10. /\ source' \in SourceT /\ source'.commands = ds
       /\ UNCHANGED <<source.open, source.tasks, source.finished, source.cyclemon>>
  BY <1>1, <1>6, <1>7, <1>8 DEF SourceT
<1>11. PICK q \in Seq(Id) : q = Without(done_queue, id) /\ Within(q, done_queue)
                            /\ \A y : In(y, q) <=> In(y, done_queue) /\ y # id
  BY <1>1, <1>2, WithoutIn DEF Apart
<1>12. Apart(q) /\ ~In(id, q)
  BY <1>1, <1>2, <1>11, WithinKept
<1>13. /\ done_queue' \in Seq(Id) /\ Apart(done_queue')
       /\ \A y : In(y, done_queue') <=> In(y, q) \/ y = id
  BY <1>3, <1>11, <1>12, MoreIn
<1>15. \A i \in DOMAIN task : /\ i \in DOMAIN task' /\ task'[i].of = task[i].of
                              /\ task[i].st = "freed" => task'[i].st = "freed"
  BY <1>3, <1>14
<1>16. Shapes'
  BY <1>1, <1>5, <1>10, <1>13, <1>14, DaemonShapes
<1>17. Tasked'
  <2>1. \A j \in Id : j \in source'.tasks <=> j \in DOMAIN task' /\ task'[j].st # "freed"
    BY <1>2, <1>3, <1>10, <1>14
  <2>2. \A j \in Id : In(j, source'.commands) => j \in DOMAIN task' /\ task'[j].st = "queued"
    BY <1>2, <1>6, <1>8, <1>10, <1>14
  <2>3. \A j \in Id : In(j, done_queue') => j \in DOMAIN task' /\ task'[j].st = "done"
    BY <1>2, <1>3, <1>11, <1>13, <1>14
  <2>4. \A j, k \in DOMAIN task' : task'[j].of = task'[k].of => j = k
    BY <1>2, <1>14
  <2> QED
    BY <1>9, <1>10, <1>13, <2>1, <2>2, <2>3, <2>4, TaskedNext
<1>18. Asked'
  <2>1. \A t : MadeOf(t)' <=> MadeOf(t)
    BY <1>14 DEF MadeOf
  <2> QED
    BY <1>1, <1>14, <2>1, ReadAsked
<1>19. Filed' /\ Late'
  BY <1>1, <1>15, DaemonRest
<1>20. Freed'
  BY <1>1, <1>5, OpenFreed
<1>21. Ends'
  <2>1. "client" \notin shut /\ source'.cyclemon => source'.open
    BY <1>10 DEF IInv, Ends
  <2> QED
    BY <1>1, <1>5, <1>10, <2>1, ReadEnds
<1>22. Streams'
  <2>1. ASSUME NEW K \in SUBSET Id, Owing(K) PROVE Owing(K)'
    <3>1. K \subseteq DOMAIN task' /\ Owes(K, source'.tasks, client'.objs)
      BY <1>5, <1>10, <1>14, <2>1 DEF Owing
    <3> QED
      BY <3>1, OwingNext
  <2>2. \A K \in SUBSET Id : Owing(K) => \E J \in SUBSET Id : <<K, Ok, J>> \in Knows /\ Owing(J)'
    BY <1>4, <2>1, OwingPlain
  <2>3. PICK y : y = Head(rx)
    OBVIOUS
  <2>4. Meets(Ok, y)'
    BY <1>4, <2>3 DEF Meets
  <2> QED
    BY <1>1, <1>4, <1>5, <1>15, <2>2, <2>3, <2>4, AnswerStreams
<1> QED
  BY <1>16, <1>17, <1>18, <1>19, <1>20, <1>21, <1>22 DEF IInv

(* A halt of a task that is not there any more is refused: it was freed.   *)
LEMMA HaltKeeps ==
  ASSUME IInv, Lib(ClientRead), client.mode = "attached", Head(rx).k = "halt", HaltTask(Head(rx).id)
  PROVE  IInv'
<1>1. PICK id : id = Head(rx).id
  OBVIOUS
<1>2. CASE id \in source.tasks
  <2>1. /\ client' = Say(client, Ok) /\ source' = [source EXCEPT !.commands = Without(@, id)]
        /\ task' = [task EXCEPT ![id].st = "done"]
        /\ done_queue' = Append(Without(done_queue, id), id)
    BY <1>1, <1>2, Zenon DEF HaltTask
  <2>2. source \in SourceT
    BY ReadBase
  <2>3. id \in DOMAIN task
    BY <1>2, <2>2 DEF IInv, Tasked, SourceT
  <2> QED
    BY <1>1, <1>2, <2>1, <2>3, HaltedKeeps
<1>3. CASE id \notin source.tasks
  <2>1. client' = Say(client, Err) /\ UNCHANGED <<source, task, done_queue>>
    BY <1>1, <1>3 DEF HaltTask
  <2>2. PICK x : x = Head(rx)
    OBVIOUS
  <2>3. x \in Line /\ x.k = "halt" /\ x.id = id /\ In(x, rx)
    BY <1>1, <2>2, ReadBase
  <2>4. x.task \in Task /\ id \in Id /\ x = Halt(x.task, id)
    BY <2>3, LineCases, LineHas
  <2>5. id \in DOMAIN task
    BY <2>3, <2>4 DEF IInv, Asked
  <2>6. task[id].st = "freed"
    BY <1>3, <2>4, <2>5 DEF IInv, Tasked
  <2>7. Meets(Err, x)
    BY <2>3, <2>5, <2>6, AnswerKinds DEF Meets
  <2> QED
    BY <2>1, <2>2, <2>7, RefusedKeeps
<1> QED
  BY <1>2, <1>3

(* scamper_source_command2: a new task and its id, or ERR.                 *)
LEMMA CommandKeeps ==
  ASSUME IInv, Lib(ClientRead), client.mode = "attached", Head(rx).k = "task", Command2(Head(rx).task)
  PROVE  IInv'
<1>1. PICK t : t = Head(rx).task
  OBVIOUS
<1>2. t \in Task /\ Head(rx) = Do(t)
  BY <1>1, ReadBase, LineCases, LineHas
<1>3. CASE client' = Say(client, Err) /\ UNCHANGED <<source, task, done_queue>>
  <2>1. PICK x : x = Head(rx)
    OBVIOUS
  <2>2. Meets(Err, x)
    BY <2>1, AnswerKinds DEF Meets
  <2> QED
    BY <1>3, <2>1, <2>2, RefusedKeeps
<1>4. ASSUME NEW id, id = Len(task) + 1,
             source' = [source EXCEPT !.commands = Append(@, id), !.tasks = @ \cup {id}],
             task' = Append(task, [of |-> t, st |-> "queued"]),
             client' = Say(client, OkId(id)), UNCHANGED done_queue
      PROVE  IInv'
  BY <1>2, <1>4, MadeKeeps
<1>5. \/ client' = Say(client, Err) /\ UNCHANGED <<source, task, done_queue>>
      \/ \E id : /\ id = Len(task) + 1
                 /\ source' = [source EXCEPT !.commands = Append(@, id), !.tasks = @ \cup {id}]
                 /\ task' = Append(task, [of |-> t, st |-> "queued"])
                 /\ client' = Say(client, OkId(id)) /\ UNCHANGED done_queue
  BY <1>1, Zenon DEF Command2
<1> QED
  BY <1>3, <1>4, <1>5

(* "done": the source is finished, and perhaps its cycle with it.          *)
LEMMA DoneFields ==
  ASSUME IInv, Lib(ClientRead), client.mode = "attached", CommandDone
  PROVE  /\ client' \in ClientT /\ source' \in SourceT
         /\ client'.txt = Append(client.txt, Ok) /\ client'.mode \in {"attached", "flush"}
         /\ UNCHANGED <<client.obj, client.off, client.wb, source.open, source.commands, source.tasks>>
         /\ source'.cyclemon => source.cyclemon
         /\ client'.objs = client.objs \/ client'.objs = Append(client.objs, CycleObj)
         /\ client'.mode = "flush" => source'.finished
         /\ source.finished => source'.finished
         /\ UNCHANGED <<task, done_queue>>
<1>1. client \in ClientT /\ source \in SourceT
  BY ReadBase
<1>2. PICK d : d = Say(client, Ok)
  OBVIOUS
<1>3. /\ d \in ClientT /\ d.txt = Append(client.txt, Ok) /\ d.mode = "attached" /\ d.objs = client.objs
      /\ d.obj = client.obj /\ d.off = client.off /\ d.wb = client.wb
  <2>1. /\ client \in ClientT /\ Ok \in Spoken /\ d = Say(client, Ok) /\ client.mode = "attached"
    BY <1>1, <1>2, SpokenCases
  <2> QED
    BY ONLY <2>1, SayFields
<1>4. client' = Finish(d, source).c /\ source' = Finish(d, source).s /\ UNCHANGED <<task, done_queue>>
  BY <1>2 DEF CommandDone
<1>5. CASE ~source.open \/ source.finished
  <2>1. client' = d /\ source' = source
    BY <1>4, <1>5 DEF Finish
  <2> QED
    BY <1>1, <1>3, <1>4, <2>1
<1>6. CASE ~(~source.open \/ source.finished)
  <2>1. PICK s : s = [source EXCEPT !.finished = TRUE]
    OBVIOUS
  <2>2. /\ s \in SourceT /\ s.finished /\ s.open = source.open /\ s.commands = source.commands
        /\ s.tasks = source.tasks /\ s.cyclemon = source.cyclemon
    BY <1>1, <2>1 DEF SourceT
  <2>3. PICK e : e = EndCycle(d, s)
    OBVIOUS
  <2>4. client' = e.c /\ source' = e.s
    BY <1>4, <1>6, <2>1, <2>3 DEF Finish
  <2>5. /\ e.c \in ClientT /\ e.s \in SourceT
        /\ e.c.txt = d.txt /\ e.c.obj = d.obj /\ e.c.off = d.off /\ e.c.wb = d.wb
        /\ e.s.open = s.open /\ e.s.commands = s.commands /\ e.s.tasks = s.tasks
        /\ e.s.finished = s.finished
        /\ \/ e.c.objs = d.objs /\ e.c.mode = d.mode /\ e.s.cyclemon = s.cyclemon
           \/ s.cyclemon /\ e.c.objs = Append(d.objs, CycleObj) /\ e.c.mode = "flush" /\ ~e.s.cyclemon
    <3>1. d \in ClientT /\ s \in SourceT /\ e = EndCycle(d, s)
      BY <1>3, <2>2, <2>3
    <3> QED
      BY ONLY <3>1, EndCycleCases
  <2> QED
    BY <1>3, <1>4, <2>2, <2>4, <2>5
<1> QED
  BY <1>5, <1>6

(* client_attached_cb of "done": "OK", and the source is finished.         *)
LEMMA DoneKeeps ==
  ASSUME IInv, Lib(ClientRead), client.mode = "attached", Head(rx) = Done, CommandDone
  PROVE  IInv'
<1>1. /\ client \in ClientT /\ source \in SourceT /\ task \in Seq(TaskT) /\ done_queue \in Seq(Id)
      /\ rx \in Seq(Line) /\ rx # <<>> /\ rx' = Tail(rx) /\ rx' \in Seq(Line) /\ Head(rx) \in Line
      /\ UNCHANGED <<tx, shut, inst, mine, fault>>
  BY ReadBase
<1>2. /\ client' \in ClientT /\ source' \in SourceT
      /\ client'.txt = Append(client.txt, Ok) /\ client'.mode \in {"attached", "flush"}
      /\ UNCHANGED <<client.obj, client.off, client.wb, source.open, source.commands, source.tasks>>
      /\ source'.cyclemon => source.cyclemon
      /\ client'.objs = client.objs \/ client'.objs = Append(client.objs, CycleObj)
      /\ client'.mode = "flush" => source'.finished
      /\ UNCHANGED <<task, done_queue>>
  BY DoneFields
<1>3. Shapes'
  BY <1>1, <1>2, DaemonShapes
<1>4. Tasked'
  BY <1>2, TaskedKept DEF IInv
<1>5. Asked'
  <2>1. \A t : MadeOf(t)' <=> MadeOf(t)
    BY <1>2 DEF MadeOf
  <2> QED
    BY <1>1, <1>2, <2>1, ReadAsked
<1>6. Filed' /\ Late'
  BY <1>1, <1>2, DaemonRest
<1>7. Freed'
  <2>1. client'.mode # "freed" /\ client.mode # "freed"
    BY <1>2
  <2> QED
    BY <1>1, <2>1, OpenFreed
<1>8. Ends' /\ ("client" \notin shut /\ source'.finished => ~Has(Tail(rx), "task"))
  <2>1. "client" \notin shut /\ source'.cyclemon => source'.open
    BY <1>2 DEF IInv, Ends
  <2>2. client'.mode \in {"flush", "freed"} => source'.finished
    BY <1>2
  <2> QED
    BY <1>1, <2>1, <2>2, ReadEnds
<1>9. Streams'
  <2>1. ASSUME NEW K \in SUBSET Id, Owing(K) PROVE Owing(K)'
    <3>1. K \subseteq DOMAIN task /\ Owes(K, source.tasks, client.objs)
      BY <2>1 DEF Owing
    <3>2. client.objs \in Seq(Obj)
      BY <1>1 DEF ClientT
    <3>3. Owes(K, source.tasks, Append(client.objs, CycleObj))
      BY <3>1, <3>2, OwesCycle
    <3>4. Owes(K, source'.tasks, client'.objs)
      BY <1>2, <3>1, <3>3
    <3>5. K \subseteq DOMAIN task'
      BY <1>2, <3>1
    <3> QED
      BY <3>4, <3>5, OwingNext
  <2>2. \A K \in SUBSET Id : Owing(K) => \E J \in SUBSET Id : <<K, Ok, J>> \in Knows /\ Owing(J)'
    BY <2>1, OwingPlain
  <2>3. PICK y : y = Head(rx)
    OBVIOUS
  <2>4. Ok \in Spoken /\ Ok.k = "OK" /\ y.k # "task"
    BY <2>3, SpokenCases, AnswerKinds, LineHas
  <2>5. Meets(Ok, y)'
    BY <2>4 DEF Meets
  <2>6. client'.mode \in {"flush", "freed"} /\ "client" \notin shut => ~Has(Tail(rx), "task")
    BY <1>2, <1>8
  <2>7. client.mode \notin {"flush", "freed"}
    OBVIOUS
  <2>8. \A i \in DOMAIN task : /\ i \in DOMAIN task' /\ task'[i].of = task[i].of
                               /\ task[i].st = "freed" => task'[i].st = "freed"
    BY <1>2
  <2> QED
    BY <1>1, <1>2, <2>2, <2>3, <2>4, <2>5, <2>6, <2>7, <2>8, AnswerStreams
<1> QED
  BY <1>3, <1>4, <1>5, <1>6, <1>7, <1>8, <1>9 DEF IInv

(* A client in mode flush is read, and not listened to.                    *)
LEMMA UnheardKeeps ==
  ASSUME IInv, Lib(ClientRead), client.mode = "flush", UNCHANGED daemon
  PROVE  IInv'
<1>1. /\ client \in ClientT /\ source \in SourceT /\ task \in Seq(TaskT) /\ done_queue \in Seq(Id)
      /\ rx \in Seq(Line) /\ rx # <<>> /\ rx' = Tail(rx) /\ rx' \in Seq(Line) /\ Head(rx) \in Line
      /\ UNCHANGED <<tx, shut, inst, mine, fault>>
  BY ReadBase
<1>2. UNCHANGED <<client, source, task, done_queue>>
  BY DEF daemon
<1>3. Shapes'
  BY <1>1, <1>2, DaemonShapes
<1>4. Tasked'
  BY <1>2, TaskedKept DEF IInv
<1>5. Asked'
  <2>1. \A t : MadeOf(t)' <=> MadeOf(t)
    BY <1>2 DEF MadeOf
  <2> QED
    BY <1>1, <1>2, <2>1, ReadAsked
<1>6. Filed' /\ Late'
  BY <1>1, <1>2, DaemonRest
<1>7. Freed'
  BY <1>1, <1>2, OpenFreed
<1>8. Ends'
  BY <1>1, <1>2, ReadEnds DEF IInv, Ends
<1>9. Streams'
  <2>1. \A K \in SUBSET Id : Owing(K) => Owing(K)'
    BY <1>2, OwingNext DEF Owing
  <2>2. \A w \in Seq(Line) : Rest(w) =>
          IF client'.mode \in {"flush", "freed"} THEN ~Has(w, "task") ELSE w = rx'
    BY <1>2 DEF Rest
  <2>3. Streams
    BY DEF IInv
  <2> QED
    BY <1>1, <1>2, <2>1, <2>2, <2>3, QuietStreams
<1> QED
  BY <1>3, <1>4, <1>5, <1>6, <1>7, <1>8, <1>9 DEF IInv

(* Whatever line client_read reads, the invariant stays.                   *)
LEMMA ClientReadKeeps ==
  ASSUME IInv, Lib(ClientRead) PROVE IInv'
<1>1. PICK x : x = Head(rx)
  OBVIOUS
<1>2. \/ client.mode = "interactive" /\ x = Attach /\ CommandAttach
      \/ client.mode = "attached" /\ x.k = "task" /\ Command2(x.task)
      \/ client.mode = "attached" /\ x.k = "halt" /\ HaltTask(x.id)
      \/ client.mode = "attached" /\ x = Done /\ CommandDone
      \/ client.mode = "flush" /\ UNCHANGED daemon
  BY <1>1, Zenon DEF Lib, ClientRead, ClientReadLine
<1>3. CASE client.mode = "interactive" /\ x = Attach /\ CommandAttach
  BY <1>1, <1>3, AttachKeeps
<1>4. CASE client.mode = "attached" /\ x.k = "task" /\ Command2(x.task)
  BY <1>1, <1>4, CommandKeeps
<1>5. CASE client.mode = "attached" /\ x.k = "halt" /\ HaltTask(x.id)
  BY <1>1, <1>5, HaltKeeps
<1>6. CASE client.mode = "attached" /\ x = Done /\ CommandDone
  BY <1>1, <1>6, DoneKeeps
<1>7. CASE client.mode = "flush" /\ UNCHANGED daemon
  BY <1>7, UnheardKeeps
<1> QED
  BY <1>2, <1>3, <1>4, <1>5, <1>6, <1>7

(* Tasks that are freed keep what they measured.                           *)
LEMMA GoneFields ==
  ASSUME NEW q \in Seq(TaskT), NEW r, r = Gone(q)
  PROVE  /\ r \in Seq(TaskT) /\ DOMAIN r = DOMAIN q
         /\ \A i \in DOMAIN q : r[i].of = q[i].of /\ r[i].st = "freed"
<1>1. Len(q) \in Nat /\ DOMAIN q = 1 .. Len(q) /\ \A i \in DOMAIN q : q[i] \in TaskT
  BY LenProperties, ElementOfSeq
<1>2. DOMAIN r = DOMAIN q /\ \A i \in DOMAIN q : r[i] = [q[i] EXCEPT !.st = "freed"]
  BY Zenon DEF Gone
<1>5. ASSUME NEW i \in DOMAIN q
      PROVE  r[i] \in TaskT /\ r[i].of = q[i].of /\ r[i].st = "freed"
  <2>1. PICK x \in TaskT : x = q[i]
    BY <1>1
  <2>2. PICK y : y = [x EXCEPT !.st = "freed"]
    OBVIOUS
  <2>3. y \in TaskT /\ y.of = x.of /\ y.st = "freed"
    BY <2>2 DEF TaskT
  <2>4. r[i] = y
    BY <1>2, <2>1, <2>2, Zenon
  <2> QED
    BY <2>1, <2>3, <2>4
<1>6. r = [i \in 1 .. Len(q) |-> r[i]]
  BY <1>1, Zenon DEF Gone
<1>7. r \in Seq(TaskT)
  BY <1>1, <1>5, <1>6, IsASeq
<1> QED
  BY <1>2, <1>5, <1>7

(* The tasks of a source all go.                                           *)
LEMMA GoneTasked ==
  ASSUME IInv, task' = Gone(task), source'.tasks = {}, source'.commands = <<>>, done_queue' = <<>>,
         UNCHANGED <<rx, inst, mine, fault>>
  PROVE  task' \in Seq(TaskT) /\ Tasked' /\ Asked' /\ Filed' /\ Late'
<1>1. task \in Seq(TaskT)
  BY DEF IInv, Shapes
<1>2. PICK r : r = task'
  OBVIOUS
<1>3. /\ r \in Seq(TaskT) /\ DOMAIN r = DOMAIN task
      /\ \A i \in DOMAIN task : r[i].of = task[i].of /\ r[i].st = "freed"
  BY <1>1, <1>2, GoneFields
<1>4. /\ task' \in Seq(TaskT) /\ DOMAIN task' = DOMAIN task
      /\ \A i \in DOMAIN task : task'[i].of = task[i].of /\ task'[i].st = "freed"
  BY <1>2, <1>3
<1>5. Asked'
  BY <1>4, DaemonAsked DEF IInv
<1>6. Filed' /\ Late'
  BY <1>4, DaemonRest
<1>7. Tasked'
  <2>1. \A i, j \in DOMAIN task' : task'[i].of = task'[j].of => i = j
    BY <1>4 DEF IInv, Tasked
  <2>2. \A i \in Id : i \in source'.tasks <=> i \in DOMAIN task' /\ task'[i].st # "freed"
    BY <1>4
  <2>3. Apart(source'.commands) /\ Apart(done_queue')
    BY DEF Apart
  <2>4. \A i : ~In(i, source'.commands) /\ ~In(i, done_queue')
    BY DEF In
  <2> QED
    BY <2>1, <2>2, <2>3, <2>4, TaskedNext
<1> QED
  BY <1>4, <1>5, <1>6, <1>7

(* A client is freed.                                                      *)
LEMMA FreeKeeps ==
  ASSUME IInv, ClientFree, UNCHANGED <<rx, inst, mine, fault>>, tx' \in Seq(Answer),
         inst.eof => tx' = <<>>, "client" \notin shut => source.finished, Streams'
  PROVE  IInv'
<1>1. /\ client \in ClientT /\ source \in SourceT /\ shut \in SUBSET {"client", "scamper"}
      /\ rx \in Seq(Line) /\ inst \in InstT /\ mine \in [Task -> MineT]
  BY DEF IInv, Shapes
<1>2. /\ client' = [client EXCEPT !.mode = "freed", !.txt = <<>>, !.objs = <<>>, !.obj = NoObj,
                                  !.off = 0, !.wb = <<>>, !.reads = FALSE, !.writes = FALSE]
      /\ source' = [source EXCEPT !.open = FALSE, !.commands = <<>>, !.tasks = {}, !.cyclemon = FALSE]
      /\ task' = Gone(task) /\ done_queue' = <<>> /\ shut' = shut \cup {"scamper"}
  BY DEF ClientFree
<1>3. /\ client' \in ClientT /\ client'.mode = "freed" /\ client'.txt = <<>> /\ client'.objs = <<>>
      /\ client'.obj = NoObj /\ client'.off = 0 /\ client'.wb = <<>>
      /\ client'.reads = FALSE /\ client'.writes = FALSE
  <2>1. <<>> \in Seq(Spoken) /\ <<>> \in Seq(Obj) /\ <<>> \in Seq(Answer) /\ 0 \in Nat
    OBVIOUS
  <2> QED
    BY <1>1, <1>2, <2>1 DEF ClientT
<1>4. /\ source' \in SourceT /\ source'.tasks = {} /\ source'.commands = <<>> /\ source'.cyclemon = FALSE
      /\ source'.finished = source.finished
  <2>1. <<>> \in Seq(Id \cup {Cycle}) /\ {} \in SUBSET Id
    OBVIOUS
  <2> QED
    BY <1>1, <1>2, <2>1 DEF SourceT
<1>5. task' \in Seq(TaskT) /\ Tasked' /\ Asked' /\ Filed' /\ Late'
  BY <1>2, <1>4, GoneTasked
<1>6. Shapes'
  <2>1. Writing(client)'
    BY <1>3 DEF Writing
  <2>2. done_queue' \in Seq(Id) /\ shut' \in SUBSET {"client", "scamper"}
    BY <1>1, <1>2
  <2> QED
    BY <1>1, <1>3, <1>4, <1>5, <2>1, <2>2 DEF Shapes
<1>7. Freed'
  <2>1. "client" \in shut <=> "client" \in shut'
    BY <1>2
  <2>2. "scamper" \in shut'
    BY <1>2
  <2>3. inst.eof => "client" \notin shut'
    BY <2>1 DEF IInv, Freed
  <2>4. fault # "none" => "client" \in shut'
    BY <2>1 DEF IInv, Freed
  <2>5. client'.off = 0 /\ client'.mode = "freed" /\ ~client'.reads /\ ~client'.writes
    BY <1>3
  <2> QED
    BY <1>2, <1>3, <1>4, <2>2, <2>3, <2>4, <2>5 DEF Freed
<1>8. Ends'
  <2>1. "client" \notin shut' => "client" \notin shut /\ source'.finished /\ source.finished
    BY <1>2, <1>4
  <2>2. ~source'.cyclemon
    BY <1>4
  <2>3. /\ AfterDone(inst.queue) /\ AfterDone(rx)
        /\ In(Done, inst.queue) \/ In(Done, rx) => inst.done
        /\ In(Done, rx) => ~Has(inst.queue, "task")
        /\ "client" \notin shut /\ source.finished =>
             inst.done /\ ~Has(inst.queue, "task") /\ ~Has(rx, "task")
    BY DEF IInv, Ends
  <2> QED
    BY <2>1, <2>2, <2>3, EndsNext
<1> QED
  BY <1>5, <1>6, <1>7, <1>8 DEF IInv

(* client_write fails when the program has closed its end: the client is   *)
(* freed.                                                                  *)
LEMMA WriteFailsKeeps ==
  ASSUME IInv, Lib(ClientWriteFails) PROVE IInv'
<1>1. ClientFree /\ "client" \in shut /\ UNCHANGED <<rx, tx, inst, mine, fault>>
  BY DEF Lib, ClientWriteFails
<1>2. "client" \in shut'
  BY <1>1 DEF ClientFree
<1>3. Streams'
  BY <1>2, StreamsOver
<1>4. tx' \in Seq(Answer) /\ (inst.eof => tx' = <<>>)
  BY <1>1 DEF IInv, Shapes, Freed
<1> QED
  BY <1>1, <1>3, <1>4, FreeKeeps

-----------------------------------------------------------------------------

(* scamper_source_control_finish leaves the object under way alone.        *)
LEMMA FinishCases ==
  ASSUME NEW c \in ClientT, NEW s \in SourceT, NEW e, e = Finish(c, s)
  PROVE  e.c \in ClientT /\ e.s \in SourceT /\ e.c.obj = c.obj /\ e.c.off = c.off
<1>1. CASE ~s.open \/ s.finished
  <2>1. e.c = c /\ e.s = s
    BY <1>1 DEF Finish
  <2> QED
    BY <2>1
<1>2. CASE ~(~s.open \/ s.finished)
  <2>1. PICK r : r = [s EXCEPT !.finished = TRUE]
    OBVIOUS
  <2>2. r \in SourceT
    BY <2>1 DEF SourceT
  <2>3. e = EndCycle(c, r)
    BY <1>2, <2>1 DEF Finish
  <2> QED
    BY ONLY c \in ClientT, <2>2, <2>3, EndCycleCases
<1> QED
  BY <1>1, <1>2

(* scamper_source_abandon leaves the object under way alone, and the       *)
(* source no task and no command.                                          *)
LEMMA AbandonCases ==
  ASSUME NEW c \in ClientT, NEW s \in SourceT, NEW a, a = Abandon(c, s)
  PROVE  /\ a.c \in ClientT /\ a.s \in SourceT /\ a.c.obj = c.obj /\ a.c.off = c.off
         /\ a.s.tasks = {} /\ a.s.commands = <<>>
<1>1. PICK e : e = IF s.tasks = {} THEN [c |-> c, s |-> s] ELSE EndCycle(c, [s EXCEPT !.tasks = {}])
  OBVIOUS
<1>2. a = [c |-> e.c, s |-> [e.s EXCEPT !.open = FALSE, !.commands = <<>>]]
  BY <1>1 DEF Abandon
<1>3. e.c \in ClientT /\ e.s \in SourceT /\ e.c.obj = c.obj /\ e.c.off = c.off /\ e.s.tasks = {}
  <2>1. CASE s.tasks = {}
    <3>1. e.c = c /\ e.s = s
      BY <1>1, <2>1
    <3> QED
      BY <2>1, <3>1
  <2>2. CASE s.tasks # {}
    <3>1. PICK r : r = [s EXCEPT !.tasks = {}]
      OBVIOUS
    <3>2. r \in SourceT /\ r.tasks = {}
      BY <3>1 DEF SourceT
    <3>3. e = EndCycle(c, r)
      BY <1>1, <2>2, <3>1
    <3>4. e.c \in ClientT /\ e.s \in SourceT /\ e.c.obj = c.obj /\ e.c.off = c.off /\ e.s.tasks = r.tasks
      BY ONLY c \in ClientT, <3>2, <3>3, EndCycleCases
    <3> QED
      BY <3>2, <3>4
  <2> QED
    BY <2>1, <2>2
<1>4. PICK r : r = [e.s EXCEPT !.open = FALSE, !.commands = <<>>]
  OBVIOUS
<1>5. r \in SourceT /\ r.tasks = {} /\ r.commands = <<>>
  <2>1. PICK z \in SourceT : z = e.s
    BY <1>3
  <2>2. <<>> \in Seq(Id \cup {Cycle})
    OBVIOUS
  <2>3. r = [z EXCEPT !.open = FALSE, !.commands = <<>>] /\ z.tasks = {}
    BY <1>3, <1>4, <2>1
  <2> QED
    BY <2>2, <2>3 DEF SourceT
<1>6. a.c = e.c /\ a.s = r
  BY <1>2, <1>4
<1> QED
  BY <1>3, <1>5, <1>6

(* client_read at end of file: the source is abandoned, its tasks freed,   *)
(* and the client freed or flushed.                                        *)
LEMMA ClientEofKeeps ==
  ASSUME IInv, Lib(ClientEof) PROVE IInv'
<1>1. client.reads /\ rx = <<>> /\ "client" \in shut /\ UNCHANGED <<rx, tx, inst, mine, fault>>
  BY DEF Lib, ClientEof
<1>2. PICK f : f = Finish(client, source)
  OBVIOUS
<1>3. PICK a : a = Abandon(f.c, f.s)
  OBVIOUS
<1>4. \/ ClientFree
      \/ /\ client' = [a.c EXCEPT !.mode = "flush", !.reads = FALSE]
         /\ source' = a.s /\ task' = Gone(task) /\ done_queue' = <<>> /\ UNCHANGED shut
  BY <1>2, <1>3, Zenon DEF Lib, ClientEof
<1>5. CASE ClientFree
  <2>1. "client" \in shut'
    BY <1>1, <1>5 DEF ClientFree
  <2>2. Streams'
    BY <2>1, StreamsOver
  <2>3. tx' \in Seq(Answer) /\ (inst.eof => tx' = <<>>)
    BY <1>1 DEF IInv, Shapes, Freed
  <2> QED
    BY <1>1, <1>5, <2>2, <2>3, FreeKeeps
<1>6. CASE /\ client' = [a.c EXCEPT !.mode = "flush", !.reads = FALSE]
           /\ source' = a.s /\ task' = Gone(task) /\ done_queue' = <<>> /\ UNCHANGED shut
  <2>1. client \in ClientT /\ source \in SourceT /\ client.mode # "freed"
    BY <1>1 DEF IInv, Shapes, Freed
  <2>2. f.c \in ClientT /\ f.s \in SourceT /\ f.c.obj = client.obj /\ f.c.off = client.off
    BY ONLY <1>2, <2>1, FinishCases
  <2>3. /\ a.c \in ClientT /\ a.s \in SourceT /\ a.c.obj = f.c.obj /\ a.c.off = f.c.off
        /\ a.s.tasks = {} /\ a.s.commands = <<>>
    BY ONLY <1>3, <2>2, AbandonCases
  <2>4. /\ client' \in ClientT /\ client'.mode = "flush" /\ client'.obj = client.obj
        /\ client'.off = client.off
    <3>1. PICK d \in ClientT : d = a.c
      BY <2>3
    <3>2. client' = [d EXCEPT !.mode = "flush", !.reads = FALSE]
      BY <1>6, <3>1
    <3>3. client' \in ClientT /\ client'.mode = "flush" /\ client'.obj = d.obj /\ client'.off = d.off
      BY <3>2 DEF ClientT
    <3> QED
      BY <2>2, <2>3, <3>1, <3>3
  <2>5. task' \in Seq(TaskT) /\ Tasked' /\ Asked' /\ Filed' /\ Late'
    BY <1>1, <1>6, <2>3, GoneTasked
  <2>6. source' \in SourceT /\ done_queue' \in Seq(Id) /\ rx' \in Seq(Line)
    BY <1>1, <1>6, <2>3 DEF IInv, Shapes
  <2>7. Shapes'
    BY <1>1, <1>6, <2>4, <2>5, <2>6, DaemonShapes
  <2>8. Freed'
    <3>1. client'.mode # "freed"
      BY <2>4
    <3> QED
      BY <1>1, <1>6, <2>1, <3>1, OpenFreed
  <2>9. Streams'
    BY <1>1, <1>6, StreamsOver
  <2>10. Ends'
    <3>1. "client" \in shut'
      BY <1>1, <1>6
    <3>2. /\ AfterDone(inst.queue) /\ AfterDone(rx)
          /\ In(Done, inst.queue) \/ In(Done, rx) => inst.done
          /\ In(Done, rx) => ~Has(inst.queue, "task")
      BY DEF IInv, Ends
    <3> QED
      BY <1>1, <3>1, <3>2, EndsNext
  <2> QED
    BY <2>5, <2>7, <2>8, <2>9, <2>10 DEF IInv
<1> QED
  BY <1>4, <1>5, <1>6

-----------------------------------------------------------------------------
(* What is left of the object that c writes; what is on its way to the     *)
(* program when the socket holds q and the client is c.                    *)
Left(c) == IF c.off > 0 THEN c.obj.len - c.off ELSE 0

PairedFor(q, c) ==
  \E a, b, w \in Seq(Line) :
    /\ Flow(q, Pairs, inst.waitok, a) /\ Flow(c.wb, Pairs, a, b)
    /\ Flow(c.txt, Pairs, b, w) /\ Rest(w)

FramedFor(q, c) ==
  \E a \in Nat : Flow(q, Frames, inst.left, a) /\ Flow(c.wb, Frames, a, Left(c))

KnownFor(q, c) ==
  \E a, b, K \in SUBSET Id :
    /\ Flow(q, Knows, inst.tree, a) /\ Flow(c.wb, Knows, a, b)
    /\ Flow(c.txt, Knows, b, K) /\ K \subseteq DOMAIN task /\ Owes(K, source.tasks, c.objs)

StreamsFor(q, c) == PairedFor(q, c) /\ FramedFor(q, c) /\ KnownFor(q, c)

(* Streams, while the program's end is open.                               *)
LEMMA StreamsNow ==
  ASSUME Streams, "client" \notin shut PROVE StreamsFor(tx, client)
<1>1. Paired /\ Framed /\ Known
  BY DEF Streams
<1>2. PairedFor(tx, client)
  BY <1>1 DEF Paired, PairedFor
<1>3. FramedFor(tx, client)
  BY <1>1 DEF Framed, FramedFor, Remain, Left
<1>4. KnownFor(tx, client)
  BY <1>1 DEF Known, KnownFor, Owing
<1> QED
  BY <1>2, <1>3, <1>4 DEF StreamsFor

(* client_write_do: three things it may write when the buffer is empty.    *)
LEMMA WriteCases ==
  ASSUME NEW c \in ClientT, Writing(c), c.wb = <<>>, NEW r, r = WriteDo(c)
  PROVE  /\ r \in ClientT /\ Writing(r) /\ r.mode = c.mode /\ r.reads = c.reads
         /\ \/ /\ c.off = 0 /\ c.objs = <<>> /\ r.off = 0 /\ r.objs = <<>>
               /\ r.txt = <<>> /\ r.wb = c.txt
            \/ /\ c.off = 0 /\ c.objs # <<>> /\ r.objs = Tail(c.objs) /\ r.txt = <<>>
               /\ r.wb = c.txt \o <<DataHeader(Head(c.objs))>> \o <<Piece>>
               /\ Left(r) = Head(c.objs).len - 1
            \/ /\ c.off > 0 /\ r.objs = c.objs /\ r.txt = c.txt /\ r.wb = <<Piece>>
               /\ Left(c) = Left(r) + 1
<1>1. /\ c.txt \in Seq(Spoken) /\ c.objs \in Seq(Obj) /\ c.obj \in Obj \cup {NoObj} /\ c.off \in Nat
      /\ c.off > 0 <=> c.obj # NoObj
      /\ c.off > 0 => c.off < c.obj.len
  BY DEF ClientT, Writing
<1>2. c.txt \in Seq(Answer) /\ <<>> \in Seq(Spoken) /\ Piece \in Answer
  <2>1. PICK q \in Seq(Spoken) : q = c.txt
    BY <1>1
  <2>2. q \in Seq(Answer)
    BY SpokenSeq
  <2>3. <<>> \in Seq(Spoken)
    OBVIOUS
  <2> QED
    BY <2>1, <2>2, <2>3, SpokenCases
<1>3. CASE c.off = 0 /\ c.objs = <<>>
  <2>1. c.obj = NoObj /\ 0 = NoObj.len
    BY <1>1, <1>3, ObjCases
  <2>2. r = [c EXCEPT !.txt = <<>>, !.objs = c.objs, !.obj = NoObj, !.off = 0,
                      !.wb = c.txt \o <<>> \o <<>>]
    BY <1>3, <2>1, Zenon DEF WriteDo
  <2>3. c.txt \o <<>> \o <<>> = c.txt
    BY <1>2, ConcatEmptySeq
  <2>4. /\ r \in ClientT /\ r.mode = c.mode /\ r.reads = c.reads /\ r.off = 0 /\ r.objs = <<>>
        /\ r.txt = <<>> /\ r.wb = c.txt /\ r.obj = NoObj
    BY <1>1, <1>2, <1>3, <2>2, <2>3 DEF ClientT
  <2>5. Writing(r)
    BY <2>4 DEF Writing
  <2> QED
    BY <1>3, <2>4, <2>5
<1>4. CASE c.off = 0 /\ c.objs # <<>>
  <2>1. PICK o : o = Head(c.objs)
    OBVIOUS
  <2>2. o \in Obj /\ Tail(c.objs) \in Seq(Obj)
    BY <1>1, <1>4, <2>1, TailWithin
  <2>3. o # NoObj /\ o.len \in 1 .. Pieces /\ DataHeader(o) \in Answer
    BY <2>2, ObjCases
  <2>4. PICK w : w = c.txt \o <<DataHeader(o)>> \o <<Piece>>
    OBVIOUS
  <2>5. w \in Seq(Answer)
    <3>1. <<DataHeader(o)>> \in Seq(Answer) /\ <<Piece>> \in Seq(Answer)
      BY <1>2, <2>3
    <3>2. c.txt \o <<DataHeader(o)>> \in Seq(Answer)
      BY <1>2, <3>1, ConcatProperties
    <3> QED
      BY <2>4, <3>1, <3>2, ConcatProperties
  <2>6. PICK p : p = IF 1 = o.len THEN NoObj ELSE o
    OBVIOUS
  <2>7. PICK n : n = IF 1 = o.len THEN 0 ELSE 1
    OBVIOUS
  <2>8. r = [c EXCEPT !.txt = <<>>, !.objs = Tail(c.objs), !.obj = p, !.off = n, !.wb = w]
    <3>1. 0 + 1 = 1
      OBVIOUS
    <3> QED
      BY <1>4, <2>1, <2>3, <2>4, <2>6, <2>7, <3>1, Zenon DEF WriteDo
  <2>9. p \in Obj \cup {NoObj} /\ n \in Nat
    BY <2>2, <2>6, <2>7
  <2>10. /\ r \in ClientT /\ r.mode = c.mode /\ r.reads = c.reads /\ r.off = n /\ r.obj = p
         /\ r.objs = Tail(c.objs) /\ r.txt = <<>> /\ r.wb = w
    BY <1>2, <2>2, <2>5, <2>8, <2>9 DEF ClientT
  <2>11. Writing(r)
    BY <2>3, <2>6, <2>7, <2>10 DEF Writing
  <2>12. Left(r) = o.len - 1
    BY <2>3, <2>6, <2>7, <2>10 DEF Left
  <2> QED
    BY <1>4, <2>1, <2>4, <2>10, <2>11, <2>12
<1>5. CASE c.off > 0
  <2>1. c.obj \in Obj /\ c.obj # NoObj /\ c.off < c.obj.len /\ c.off \in Nat /\ c.off # 0
    BY <1>1, <1>5
  <2>2. c.obj.len \in 1 .. Pieces
    BY <2>1, ObjCases
  <2>3. PICK p : p = IF c.off + 1 = c.obj.len THEN NoObj ELSE c.obj
    OBVIOUS
  <2>4. PICK n : n = IF c.off + 1 = c.obj.len THEN 0 ELSE c.off + 1
    OBVIOUS
  <2>5. <<Piece>> \in Seq(Answer)
    BY <1>2
  <2>6. <<>> \o <<>> \o <<Piece>> = <<Piece>>
    <3>1. <<>> \in Seq(Answer) /\ <<>> \o <<>> = <<>>
      OBVIOUS
    <3> QED
      BY <2>5, <3>1, ConcatEmptySeq
  <2>7. r = [c EXCEPT !.txt = c.txt, !.objs = c.objs, !.obj = p, !.off = n,
                      !.wb = <<>> \o <<>> \o <<Piece>>]
    BY <2>1, <2>3, <2>4, Zenon DEF WriteDo
  <2>8. p \in Obj \cup {NoObj} /\ n \in Nat
    BY <2>1, <2>3, <2>4
  <2>9. /\ r \in ClientT /\ r.mode = c.mode /\ r.reads = c.reads /\ r.off = n /\ r.obj = p
        /\ r.objs = c.objs /\ r.txt = c.txt /\ r.wb = <<Piece>>
    <3>1. PICK w \in Seq(Answer) : w = <<Piece>>
      BY <2>5
    <3>2. r = [c EXCEPT !.txt = c.txt, !.objs = c.objs, !.obj = p, !.off = n, !.wb = w]
      BY <2>6, <2>7, <3>1, Zenon
    <3>3. /\ r \in ClientT /\ r.mode = c.mode /\ r.reads = c.reads /\ r.off = n /\ r.obj = p
          /\ r.objs = c.objs /\ r.txt = c.txt /\ r.wb = w
      BY <1>1, <2>8, <3>2 DEF ClientT
    <3> QED
      BY <3>1, <3>3
  <2>10. Writing(r)
    <3>1. CASE c.off + 1 = c.obj.len
      BY <2>3, <2>4, <2>9, <3>1 DEF Writing
    <3>2. CASE c.off + 1 # c.obj.len
      <4>1. n = c.off + 1 /\ n > 0 /\ n < c.obj.len /\ p = c.obj
        BY <2>1, <2>2, <2>3, <2>4, <3>2
      <4> QED
        BY <2>1, <2>9, <4>1 DEF Writing
    <3> QED
      BY <3>1, <3>2
  <2>11. Left(c) = Left(r) + 1
    <3>1. Left(c) = c.obj.len - c.off
      BY <1>5 DEF Left
    <3>2. Left(r) = IF n > 0 THEN p.len - n ELSE 0
      BY <2>9 DEF Left
    <3>3. CASE c.off + 1 = c.obj.len
      BY <2>1, <2>2, <2>4, <3>1, <3>2, <3>3
    <3>4. CASE c.off + 1 # c.obj.len
      <4>1. n = c.off + 1 /\ n > 0 /\ p = c.obj
        BY <2>1, <2>3, <2>4, <3>4
      <4> QED
        BY <2>1, <2>2, <3>1, <3>2, <4>1
    <3> QED
      BY <3>3, <3>4
  <2> QED
    BY <1>5, <2>9, <2>10, <2>11
<1> QED
  BY <1>1, <1>3, <1>4, <1>5

(* Between objects, what is said frames nothing.                           *)
LEMMA SpokenFrames ==
  ASSUME NEW q \in Seq(Spoken)
  PROVE  Flow(q, Frames, 0, 0)
<1>1. Len(q) \in Nat /\ \A i \in 1 .. Len(q) : q[i] \in Spoken
  BY LenProperties, ElementOfSeq
<1>2. PICK f : f = [i \in 0 .. Len(q) |-> 0]
  OBVIOUS
<1>3. \A i \in 1 .. Len(q) : i \in 0 .. Len(q) /\ i - 1 \in 0 .. Len(q)
  BY <1>1
<1>4. 0 \in 0 .. Len(q) /\ Len(q) \in 0 .. Len(q)
  BY <1>1
<1>5. \A x \in Spoken : <<0, x, 0>> \in Frames
  BY SpokenCases, FramesStep
<1>6. f[0] = 0 /\ f[Len(q)] = 0 /\ \A i \in 1 .. Len(q) : <<f[i - 1], q[i], f[i]>> \in Frames
  BY <1>1, <1>2, <1>3, <1>4, <1>5
<1> QED
  BY <1>6 DEF Flow

(* The data of an object is announced.                                     *)
LEMMA OwesPop ==
  ASSUME NEW K \in SUBSET Id, NEW T, NEW q \in Seq(Obj), q # <<>>, Owes(K, T, q)
  PROVE  \E J \in SUBSET Id : /\ <<K, DataHeader(Head(q)), J>> \in Knows
                              /\ J \subseteq K /\ Owes(J, T, Tail(q))
<1>1. PICK o : o = Head(q)
  OBVIOUS
<1>2. /\ o \in Obj /\ Tail(q) \in Seq(Obj) /\ In(o, q)
      /\ \A x : In(x, q) <=> x = o \/ In(x, Tail(q))
  BY <1>1, TailWithin
<1>3. PICK x \in Answer : x = DataHeader(o)
  BY <1>2, ObjCases
<1>4. x.k = "DATA" /\ x.id = o.id /\ o.id \in Id \cup {0}
  BY <1>2, <1>3, ObjCases
<1>5. /\ \A i \in Id : i \in K <=> i \in T \/ In(Result(i), q)
      /\ \A i \in Id : i \in T => ~In(Result(i), q)
      /\ \A i, j \in DOMAIN q : q[i] = q[j] /\ q[i].id # 0 => i = j
  BY DEF Owes
<1>6. /\ Len(q) \in Nat /\ Len(q) # 0 /\ DOMAIN q = 1 .. Len(q) /\ q[1] = o
      /\ DOMAIN Tail(q) = 1 .. Len(q) - 1
      /\ \A i \in 1 .. Len(q) - 1 : Tail(q)[i] = q[i + 1] /\ i + 1 \in 1 .. Len(q) /\ i + 1 # 1
  <2>1. Len(q) \in Nat /\ Len(q) # 0 /\ DOMAIN q = 1 .. Len(q)
    BY LenProperties, EmptySeq
  <2>2. /\ Len(Tail(q)) = Len(q) - 1 /\ \A i \in 1 .. Len(Tail(q)) : Tail(q)[i] = q[i + 1]
    BY HeadTailProperties
  <2>3. DOMAIN Tail(q) = 1 .. Len(Tail(q))
    BY <1>2, LenProperties
  <2>4. q[1] = o
    BY <1>1
  <2>5. \A i \in 1 .. Len(q) - 1 : i + 1 \in 1 .. Len(q) /\ i + 1 # 1
    BY <2>1
  <2> QED
    BY <2>1, <2>2, <2>3, <2>4, <2>5
<1>7. \A i, j \in DOMAIN Tail(q) : Tail(q)[i] = Tail(q)[j] /\ Tail(q)[i].id # 0 => i = j
  <2> SUFFICES ASSUME NEW i \in 1 .. Len(q) - 1, NEW j \in 1 .. Len(q) - 1,
                      Tail(q)[i] = Tail(q)[j], Tail(q)[i].id # 0
               PROVE  i = j
    BY <1>6
  <2>1. q[i + 1] = q[j + 1] /\ q[i + 1].id # 0 /\ i + 1 \in DOMAIN q /\ j + 1 \in DOMAIN q
    BY <1>6
  <2>2. i + 1 = j + 1
    BY <1>5, <2>1
  <2> QED
    BY <2>2
<1>8. o.id # 0 => ~In(o, Tail(q))
  <2> SUFFICES ASSUME o.id # 0, NEW i \in 1 .. Len(q) - 1, Tail(q)[i] = o PROVE FALSE
    BY <1>6 DEF In
  <2>1. q[i + 1] = o /\ i + 1 \in DOMAIN q /\ i + 1 # 1 /\ 1 \in DOMAIN q
    BY <1>6
  <2> QED
    BY <1>5, <1>6, <2>1
<1>9. CASE o.id = 0
  <2>1. \A i \in Id : Result(i) # o
    BY <1>9, ObjCases
  <2>2. Owes(K, T, Tail(q))
    BY <1>2, <1>5, <1>7, <2>1 DEF Owes
  <2>3. <<K, x, K>> \in Knows
    BY <1>4, <1>9, KnowsStep
  <2> QED
    BY <1>1, <1>3, <2>2, <2>3
<1>10. CASE o.id # 0
  <2>1. PICK i \in Id : o = Result(i) /\ o.id = i
    BY <1>2, <1>10, ObjCases DEF Obj
  <2>2. i \in K /\ i \notin T
    BY <1>2, <1>5, <2>1
  <2>3. PICK J \in SUBSET Id : J = K \ {i}
    OBVIOUS
  <2>4. \A j \in Id : Result(j) = o <=> j = i
    BY <2>1, ObjCases
  <2>5. Owes(J, T, Tail(q))
    BY <1>2, <1>5, <1>7, <1>8, <1>10, <2>1, <2>2, <2>3, <2>4 DEF Owes
  <2>6. <<K, x, J>> \in Knows <=>
           IF x.k = "OK id" THEN x.id \notin K /\ J = K \cup {x.id}
           ELSE IF x.k = "DATA" /\ x.id # 0 THEN x.id \in K /\ J = K \ {x.id}
           ELSE J = K
    BY ONLY KnowsStep, K \in SUBSET Id, x \in Answer, J \in SUBSET Id, Zenon
  <2>7. x.k # "OK id" /\ x.k = "DATA" /\ x.id # 0 /\ x.id \in K /\ J = K \ {x.id}
    BY <1>4, <1>10, <2>1, <2>2, <2>3
  <2>8. <<K, x, J>> \in Knows
    BY <2>6, <2>7, Zenon
  <2>9. J \subseteq K
    BY <2>3
  <2> QED
    BY <1>1, <1>3, <2>5, <2>8, <2>9
<1> QED
  BY <1>9, <1>10

(* A list of one answer is a list of answers.                              *)
LEMMA OneAnswer ==
  <<Piece>> \in Seq(Answer) /\ \A h \in Answer : <<h>> \in Seq(Answer)
<1>1. \A h \in Answer : <<h>> \in Seq(Answer)
  OBVIOUS
<1> QED
  BY <1>1, SpokenCases, Zenon

(* The buffer is filled: what is on its way stays what it was.             *)
LEMMA RefillPaired ==
  ASSUME NEW q \in Seq(Answer), NEW c \in ClientT, NEW r \in ClientT, c.wb = <<>>, PairedFor(q, c),
         \/ r.txt = <<>> /\ r.wb = c.txt
         \/ \E o \in Obj : r.txt = <<>> /\ r.wb = c.txt \o <<DataHeader(o)>> \o <<Piece>>
         \/ r.txt = c.txt /\ r.wb = <<Piece>>
  PROVE  PairedFor(q, r)
<1>1. PICK a \in Seq(Line), b \in Seq(Line), w \in Seq(Line) :
             /\ Flow(q, Pairs, inst.waitok, a) /\ Flow(<<>>, Pairs, a, b)
             /\ Flow(c.txt, Pairs, b, w) /\ Rest(w)
  BY DEF PairedFor
<1>2. a = b
  BY <1>1, FlowEmpty
<1>3. PICK t \in Seq(Answer) : t = c.txt
  <2>1. PICK t \in Seq(Spoken) : t = c.txt
    BY DEF ClientT
  <2> QED
    BY <2>1, SpokenSeq
<1>4. Flow(t, Pairs, a, w)
  BY <1>1, <1>2, <1>3
<1>5. \A u \in Seq(Line) : <<u, Piece, u>> \in Pairs
  BY SpokenCases, AnswerKinds, PairsStep
<1>6. \A u \in Seq(Line) : Flow(<<Piece>>, Pairs, u, u)
  BY <1>5, FlowOne
<1>7. CASE r.txt = <<>> /\ r.wb = c.txt
  <2>1. Flow(r.wb, Pairs, a, w) /\ Flow(r.txt, Pairs, w, w)
    BY <1>3, <1>4, <1>7, FlowEmpty
  <2> QED
    BY <1>1, <2>1 DEF PairedFor
<1>8. ASSUME NEW o \in Obj, r.txt = <<>>, r.wb = c.txt \o <<DataHeader(o)>> \o <<Piece>>
      PROVE  PairedFor(q, r)
  <2>1. PICK h \in Answer : h = DataHeader(o) /\ h.k = "DATA"
    BY ObjCases
  <2>2. <<w, h, w>> \in Pairs
    BY <2>1, PairsStep
  <2>3. Flow(<<h>>, Pairs, w, w) /\ <<h>> \in Seq(Answer) /\ <<Piece>> \in Seq(Answer)
    <3>1. Flow(<<h>>, Pairs, w, w)
      BY <2>2, FlowOne
    <3>2. <<h>> \in Seq(Answer) /\ <<Piece>> \in Seq(Answer)
      BY OneAnswer
    <3> QED
      BY <3>1, <3>2
  <2>4. Flow(t \o <<h>>, Pairs, a, w) /\ t \o <<h>> \in Seq(Answer)
    BY <1>4, <2>3, FlowConcat, ConcatProperties
  <2>5. Flow((t \o <<h>>) \o <<Piece>>, Pairs, a, w)
    BY <1>6, <2>3, <2>4, FlowConcat
  <2>6. Flow(r.wb, Pairs, a, w) /\ Flow(r.txt, Pairs, w, w)
    BY <1>3, <1>8, <2>1, <2>5, FlowEmpty
  <2> QED
    BY <1>1, <2>6 DEF PairedFor
<1>9. CASE r.txt = c.txt /\ r.wb = <<Piece>>
  <2>1. Flow(r.wb, Pairs, a, a) /\ Flow(r.txt, Pairs, a, w)
    BY <1>3, <1>4, <1>6, <1>9
  <2> QED
    BY <1>1, <2>1 DEF PairedFor
<1> QED
  BY <1>7, <1>8, <1>9

(* What client_write_do puts in the write buffer is framed: it starts an   *)
(* object only between two, and goes on with the one under way with        *)
(* nothing in between.                                                     *)
LEMMA RefillFramed ==
  ASSUME NEW q \in Seq(Answer), NEW c \in ClientT, NEW r \in ClientT, c.wb = <<>>, FramedFor(q, c),
         Left(r) \in Nat,
         \/ Left(c) = 0 /\ Left(r) = 0 /\ r.wb = c.txt
         \/ \E o \in Obj : /\ Left(c) = 0 /\ Left(r) = o.len - 1
                           /\ r.wb = c.txt \o <<DataHeader(o)>> \o <<Piece>>
         \/ Left(c) = Left(r) + 1 /\ r.wb = <<Piece>>
  PROVE  FramedFor(q, r)
<1>1. PICK a \in Nat : Flow(q, Frames, inst.left, a) /\ Flow(<<>>, Frames, a, Left(c))
  BY DEF FramedFor
<1>2. a = Left(c)
  BY <1>1, FlowEmpty
<1>3. PICK t \in Seq(Answer) : t = c.txt /\ Flow(t, Frames, 0, 0)
  <2>1. PICK t \in Seq(Spoken) : t = c.txt
    BY DEF ClientT
  <2> QED
    BY <2>1, SpokenSeq, SpokenFrames
<1>4. ASSUME NEW n \in Nat PROVE <<n + 1, Piece, n>> \in Frames
  <2>1. PICK m \in Nat : m = n + 1
    OBVIOUS
  <2>2. PICK x \in Answer : x = Piece /\ x.k = "piece"
    BY SpokenCases, AnswerKinds
  <2>3. <<m, x, n>> \in Frames
    BY <2>1, <2>2, FramesStep
  <2> QED
    BY <2>1, <2>2, <2>3
<1>5. PICK l \in Nat : l = Left(r)
  OBVIOUS
<1>6. Flow(<<Piece>>, Frames, l + 1, l)
  BY <1>4, FlowOne
<1>7. CASE Left(c) = 0 /\ Left(r) = 0 /\ r.wb = c.txt
  BY <1>1, <1>2, <1>3, <1>7 DEF FramedFor
<1>8. ASSUME NEW o \in Obj, Left(c) = 0, Left(r) = o.len - 1,
             r.wb = c.txt \o <<DataHeader(o)>> \o <<Piece>>
      PROVE  FramedFor(q, r)
  <2>1. PICK h \in Answer : h = DataHeader(o) /\ h.k = "DATA" /\ h.len = o.len
    BY ObjCases
  <2>2. o.len \in Nat /\ l + 1 = o.len
    <3>1. Pieces \in Nat /\ o.len \in 1 .. Pieces
      BY ClientAssumption, ObjCases
    <3> QED
      BY <1>5, <1>8, <3>1
  <2>3. <<0, h, l + 1>> \in Frames
    <3>1. 0 \in Nat /\ l + 1 \in Nat
      OBVIOUS
    <3>2. h.k # "piece" /\ l + 1 = h.len
      BY <2>1, <2>2
    <3> QED
      BY <2>1, <3>1, <3>2, FramesStep
  <2>4. Flow(<<h>>, Frames, 0, l + 1) /\ <<h>> \in Seq(Answer) /\ <<Piece>> \in Seq(Answer)
    <3>1. Flow(<<h>>, Frames, 0, l + 1)
      BY <2>3, FlowOne
    <3>2. <<h>> \in Seq(Answer) /\ <<Piece>> \in Seq(Answer)
      BY OneAnswer
    <3> QED
      BY <3>1, <3>2
  <2>5. Flow(t \o <<h>>, Frames, 0, l + 1) /\ t \o <<h>> \in Seq(Answer)
    BY <1>3, <2>4, FlowConcat, ConcatProperties
  <2>6. Flow((t \o <<h>>) \o <<Piece>>, Frames, 0, l)
    BY <1>6, <2>4, <2>5, FlowConcat
  <2>7. Flow(r.wb, Frames, a, Left(r))
    BY <1>2, <1>3, <1>5, <1>8, <2>1, <2>6
  <2> QED
    BY <1>1, <2>7 DEF FramedFor
<1>9. CASE Left(c) = Left(r) + 1 /\ r.wb = <<Piece>>
  <2>1. Flow(r.wb, Frames, a, Left(r))
    BY <1>2, <1>5, <1>6, <1>9
  <2> QED
    BY <1>1, <2>1 DEF FramedFor
<1> QED
  BY <1>7, <1>8, <1>9

(* What client_write_do puts in the write buffer tells each id before its  *)
(* data: answers go in before the object that is next.                     *)
LEMMA RefillKnown ==
  ASSUME NEW q \in Seq(Answer), NEW c \in ClientT, NEW r \in ClientT, c.wb = <<>>, KnownFor(q, c),
         \/ r.txt = <<>> /\ r.wb = c.txt /\ r.objs = c.objs
         \/ /\ c.objs # <<>> /\ r.objs = Tail(c.objs) /\ r.txt = <<>>
            /\ r.wb = c.txt \o <<DataHeader(Head(c.objs))>> \o <<Piece>>
         \/ r.txt = c.txt /\ r.wb = <<Piece>> /\ r.objs = c.objs
  PROVE  KnownFor(q, r)
<1>1. PICK a \in SUBSET Id, b \in SUBSET Id, K \in SUBSET Id :
             /\ Flow(q, Knows, inst.tree, a) /\ Flow(<<>>, Knows, a, b)
             /\ Flow(c.txt, Knows, b, K) /\ K \subseteq DOMAIN task /\ Owes(K, source.tasks, c.objs)
  BY DEF KnownFor
<1>2. a = b
  BY <1>1, FlowEmpty
<1>3. PICK t \in Seq(Answer) : t = c.txt
  <2>1. PICK t \in Seq(Spoken) : t = c.txt
    BY DEF ClientT
  <2> QED
    BY <2>1, SpokenSeq
<1>4. Flow(t, Knows, a, K)
  BY <1>1, <1>2, <1>3
<1>5. \A u \in SUBSET Id : <<u, Piece, u>> \in Knows
  BY SpokenCases, AnswerKinds, KnowsStep
<1>6. \A u \in SUBSET Id : Flow(<<Piece>>, Knows, u, u)
  BY <1>5, FlowOne
<1>7. CASE r.txt = <<>> /\ r.wb = c.txt /\ r.objs = c.objs
  <2>1. Flow(r.wb, Knows, a, K) /\ Flow(r.txt, Knows, K, K) /\ Owes(K, source.tasks, r.objs)
    BY <1>1, <1>3, <1>4, <1>7, FlowEmpty
  <2> QED
    BY <1>1, <2>1 DEF KnownFor
<1>8. CASE /\ c.objs # <<>> /\ r.objs = Tail(c.objs) /\ r.txt = <<>>
           /\ r.wb = c.txt \o <<DataHeader(Head(c.objs))>> \o <<Piece>>
  <2>1. PICK p \in Seq(Obj) : p = c.objs /\ p # <<>>
    BY <1>8 DEF ClientT
  <2>2. Head(p) \in Obj
    BY <2>1, TailWithin
  <2>3. PICK h \in Answer : h = DataHeader(Head(p))
    BY <2>2, ObjCases
  <2>4. Owes(K, source.tasks, p)
    BY <1>1, <2>1
  <2>5. PICK J \in SUBSET Id : <<K, h, J>> \in Knows /\ J \subseteq K /\ Owes(J, source.tasks, Tail(p))
    BY <2>1, <2>3, <2>4, OwesPop
  <2>6. Flow(<<h>>, Knows, K, J) /\ <<h>> \in Seq(Answer) /\ <<Piece>> \in Seq(Answer)
    <3>1. Flow(<<h>>, Knows, K, J)
      BY <2>5, FlowOne
    <3>2. <<h>> \in Seq(Answer) /\ <<Piece>> \in Seq(Answer)
      BY OneAnswer
    <3> QED
      BY <3>1, <3>2
  <2>7. Flow(t \o <<h>>, Knows, a, J) /\ t \o <<h>> \in Seq(Answer)
    BY <1>4, <2>6, FlowConcat, ConcatProperties
  <2>8. Flow((t \o <<h>>) \o <<Piece>>, Knows, a, J)
    BY <1>6, <2>6, <2>7, FlowConcat
  <2>9. Flow(r.wb, Knows, a, J) /\ Flow(r.txt, Knows, J, J)
    BY <1>3, <1>8, <2>1, <2>3, <2>8, FlowEmpty
  <2>10. J \subseteq DOMAIN task /\ Owes(J, source.tasks, r.objs)
    BY <1>1, <1>8, <2>1, <2>5
  <2> QED
    BY <1>1, <2>9, <2>10 DEF KnownFor
<1>9. CASE r.txt = c.txt /\ r.wb = <<Piece>> /\ r.objs = c.objs
  <2>1. Flow(r.wb, Knows, a, a) /\ Flow(r.txt, Knows, a, K) /\ Owes(K, source.tasks, r.objs)
    BY <1>1, <1>3, <1>4, <1>6, <1>9
  <2> QED
    BY <1>1, <2>1 DEF KnownFor
<1> QED
  BY <1>7, <1>8, <1>9

(* client_write_do keeps what is said of the lists of answers: it moves    *)
(* what the lists hold in the order they flow.                             *)
LEMMA RefillStreams ==
  ASSUME client \in ClientT, Writing(client), tx \in Seq(Answer), StreamsFor(tx, client),
         NEW r, r = Refilled
  PROVE  r \in ClientT /\ Writing(r) /\ r.mode = client.mode /\ r.reads = client.reads /\ StreamsFor(tx, r)
<1>1. CASE client.wb # <<>>
  <2>1. r = client
    BY <1>1 DEF Refilled
  <2> QED
    BY <2>1
<1>2. CASE client.wb = <<>>
  <2>1. r = WriteDo(client)
    BY <1>2 DEF Refilled
  <2>2. PICK c \in ClientT : c = client
    OBVIOUS
  <2>3. PICK q \in Seq(Answer) : q = tx
    OBVIOUS
  <2>4. /\ r \in ClientT /\ Writing(r) /\ r.mode = c.mode /\ r.reads = c.reads
        /\ \/ /\ c.off = 0 /\ c.objs = <<>> /\ r.off = 0 /\ r.objs = <<>>
              /\ r.txt = <<>> /\ r.wb = c.txt
           \/ /\ c.off = 0 /\ c.objs # <<>> /\ r.objs = Tail(c.objs) /\ r.txt = <<>>
              /\ r.wb = c.txt \o <<DataHeader(Head(c.objs))>> \o <<Piece>>
              /\ Left(r) = Head(c.objs).len - 1
           \/ /\ c.off > 0 /\ r.objs = c.objs /\ r.txt = c.txt /\ r.wb = <<Piece>>
              /\ Left(c) = Left(r) + 1
    <3>1. c \in ClientT /\ Writing(c) /\ c.wb = <<>> /\ r = WriteDo(c)
      BY <1>2, <2>1, <2>2
    <3> QED
      BY ONLY <3>1, WriteCases
  <2>5. c.wb = <<>> /\ PairedFor(q, c) /\ FramedFor(q, c) /\ KnownFor(q, c)
    BY <1>2, <2>2, <2>3 DEF StreamsFor
  <2>6. c.objs # <<>> => Head(c.objs) \in Obj
    <3>1. c.objs \in Seq(Obj)
      BY DEF ClientT
    <3> QED
      BY <3>1, TailWithin
  <2>7. PairedFor(q, r)
    <3>1. \/ r.txt = <<>> /\ r.wb = c.txt
          \/ \E o \in Obj : r.txt = <<>> /\ r.wb = c.txt \o <<DataHeader(o)>> \o <<Piece>>
          \/ r.txt = c.txt /\ r.wb = <<Piece>>
      BY <2>4, <2>6
    <3> QED
      BY <2>4, <2>5, <3>1, RefillPaired
  <2>8. KnownFor(q, r)
    <3>1. \/ r.txt = <<>> /\ r.wb = c.txt /\ r.objs = c.objs
          \/ /\ c.objs # <<>> /\ r.objs = Tail(c.objs) /\ r.txt = <<>>
             /\ r.wb = c.txt \o <<DataHeader(Head(c.objs))>> \o <<Piece>>
          \/ r.txt = c.txt /\ r.wb = <<Piece>> /\ r.objs = c.objs
      BY <2>4
    <3> QED
      BY <2>4, <2>5, <3>1, RefillKnown
  <2>9. FramedFor(q, r)
    <3>1. Left(r) \in Nat
      <4>1. r.off \in Nat /\ r.obj \in Obj \cup {NoObj} /\ (r.off > 0 => r.off < r.obj.len /\ r.obj # NoObj)
        BY <2>4 DEF ClientT, Writing
      <4>2. r.off > 0 => r.obj.len \in Nat
        BY <4>1, ObjCases, ClientAssumption
      <4> QED
        BY <4>1, <4>2 DEF Left
    <3>2. c.off = 0 => Left(c) = 0
      BY DEF Left
    <3>3. r.off = 0 => Left(r) = 0
      BY DEF Left
    <3>4. \/ Left(c) = 0 /\ Left(r) = 0 /\ r.wb = c.txt
          \/ \E o \in Obj : /\ Left(c) = 0 /\ Left(r) = o.len - 1
                            /\ r.wb = c.txt \o <<DataHeader(o)>> \o <<Piece>>
          \/ Left(c) = Left(r) + 1 /\ r.wb = <<Piece>>
      BY <2>4, <2>6, <3>2, <3>3
    <3> QED
      BY <2>4, <2>5, <3>1, <3>4, RefillFramed
  <2> QED
    BY <2>2, <2>3, <2>4, <2>7, <2>8, <2>9 DEF StreamsFor
<1> QED
  BY <1>1, <1>2

(* A flow of steps into U ends in U.                                       *)
LEMMA FlowInto ==
  ASSUME NEW S, NEW q \in Seq(S), NEW R, NEW U, NEW u \in U, NEW v, Flow(q, R, u, v),
         \A x, y, z : <<x, y, z>> \in R => z \in U
  PROVE  v \in U
<1>1. PICK f : /\ f[0] = u /\ f[Len(q)] = v
               /\ \A i \in 1 .. Len(q) : <<f[i - 1], q[i], f[i]>> \in R
  BY DEF Flow
<1>2. Len(q) \in Nat
  BY LenProperties
<1>3. CASE Len(q) = 0
  BY <1>1, <1>3
<1>4. CASE Len(q) # 0
  <2>1. Len(q) \in 1 .. Len(q)
    BY <1>2, <1>4
  <2> QED
    BY <1>1, <2>1
<1> QED
  BY <1>3, <1>4

(* The types of what a step goes to.                                       *)
LEMMA StepInto ==
  /\ \A x, y, z : <<x, y, z>> \in Pairs  => z \in Seq(Line)
  /\ \A x, y, z : <<x, y, z>> \in Frames => z \in Nat
  /\ \A x, y, z : <<x, y, z>> \in Knows  => z \in SUBSET Id
<1>1. ASSUME NEW x, NEW y, NEW z, <<x, y, z>> \in Pairs PROVE z \in Seq(Line)
  <2>1. PICK e : e = <<x, y, z>> /\ e \in Pairs /\ e[3] = z
    BY <1>1
  <2> QED
    BY <2>1, StepTypes
<1>2. ASSUME NEW x, NEW y, NEW z, <<x, y, z>> \in Frames PROVE z \in Nat
  <2>1. PICK e : e = <<x, y, z>> /\ e \in Frames /\ e[3] = z
    BY <1>2
  <2> QED
    BY <2>1, StepTypes
<1>3. ASSUME NEW x, NEW y, NEW z, <<x, y, z>> \in Knows PROVE z \in SUBSET Id
  <2>1. PICK e : e = <<x, y, z>> /\ e \in Knows /\ e[3] = z
    BY <1>3
  <2> QED
    BY <2>1, StepTypes
<1> QED
  BY <1>1, <1>2, <1>3

(* The socket takes the first n of what the buffer holds.                  *)
LEMMA SentStreams ==
  ASSUME inst \in InstT, NEW q \in Seq(Answer), NEW r \in ClientT, StreamsFor(q, r), NEW n \in 0 .. Len(r.wb),
         NEW c, c.wb = SubSeq(r.wb, n + 1, Len(r.wb)),
         c.off = r.off, c.obj = r.obj, c.objs = r.objs, c.txt = r.txt,
         NEW p, p = q \o SubSeq(r.wb, 1, n)
  PROVE  p \in Seq(Answer) /\ c.wb \in Seq(Answer) /\ StreamsFor(p, c)
<1>1. PICK w \in Seq(Answer) : w = r.wb
  BY DEF ClientT
<1>2. n \in 0 .. Len(w) /\ Len(w) \in Nat /\ \A i \in 1 .. Len(w) : w[i] \in Answer
  BY <1>1, LenProperties, ElementOfSeq
<1>3. SubSeq(w, 1, n) \in Seq(Answer) /\ SubSeq(w, n + 1, Len(w)) \in Seq(Answer)
  <2>1. \A i \in 1 .. n : w[i] \in Answer
    BY <1>2
  <2>2. \A i \in n + 1 .. Len(w) : w[i] \in Answer
    BY <1>2
  <2> QED
    BY <1>2, <2>1, <2>2, SubSeqProperties
<1>4. PICK z \in Seq(Answer) : z = SubSeq(w, n + 1, Len(w))
  BY <1>3
<1>6. c.wb = z /\ c.off = r.off /\ c.obj = r.obj /\ c.objs = r.objs /\ c.txt = r.txt
  BY <1>1, <1>4
<1>7. p \in Seq(Answer) /\ p = q \o SubSeq(w, 1, n)
  BY <1>1, <1>3, ConcatProperties
<1>8. PairedFor(p, c)
  <2>1. PICK a \in Seq(Line), b \in Seq(Line), v \in Seq(Line) :
               /\ Flow(q, Pairs, inst.waitok, a) /\ Flow(w, Pairs, a, b)
               /\ Flow(r.txt, Pairs, b, v) /\ Rest(v)
    BY <1>1 DEF StreamsFor, PairedFor
  <2>2. PICK x : Flow(q \o SubSeq(w, 1, n), Pairs, inst.waitok, x) /\ Flow(SubSeq(w, n + 1, Len(w)), Pairs, x, b)
    BY <1>2, <2>1, FlowShift
  <2>3. x \in Seq(Line)
    <3>1. inst.waitok \in Seq(Line)
      BY DEF InstT
    <3>2. PICK g \in Seq(Answer) : g = q \o SubSeq(w, 1, n)
      BY <1>7
    <3>3. PICK U : U = Seq(Line)
      OBVIOUS
    <3> QED
      BY <2>2, <3>1, <3>2, <3>3, StepInto, FlowInto
  <2> QED
    BY <1>4, <1>6, <1>7, <2>1, <2>2, <2>3 DEF PairedFor
<1>9. FramedFor(p, c)
  <2>1. PICK a \in Nat : Flow(q, Frames, inst.left, a) /\ Flow(w, Frames, a, Left(r))
    BY <1>1 DEF StreamsFor, FramedFor
  <2>2. PICK x : Flow(q \o SubSeq(w, 1, n), Frames, inst.left, x) /\ Flow(SubSeq(w, n + 1, Len(w)), Frames, x, Left(r))
    BY <1>2, <2>1, FlowShift
  <2>3. x \in Nat
    <3>1. inst.left \in Nat
      BY ClientAssumption DEF InstT
    <3>2. PICK g \in Seq(Answer) : g = q \o SubSeq(w, 1, n)
      BY <1>7
    <3>3. PICK U : U = Nat
      OBVIOUS
    <3> QED
      BY <2>2, <3>1, <3>2, <3>3, StepInto, FlowInto
  <2>4. Left(c) = Left(r)
    BY <1>6 DEF Left
  <2> QED
    BY <1>4, <1>6, <1>7, <2>2, <2>3, <2>4 DEF FramedFor
<1>10. KnownFor(p, c)
  <2>1. PICK a \in SUBSET Id, b \in SUBSET Id, K \in SUBSET Id :
               /\ Flow(q, Knows, inst.tree, a) /\ Flow(w, Knows, a, b)
               /\ Flow(r.txt, Knows, b, K) /\ K \subseteq DOMAIN task /\ Owes(K, source.tasks, r.objs)
    BY <1>1 DEF StreamsFor, KnownFor
  <2>2. PICK x : Flow(q \o SubSeq(w, 1, n), Knows, inst.tree, x) /\ Flow(SubSeq(w, n + 1, Len(w)), Knows, x, b)
    BY <1>2, <2>1, FlowShift
  <2>3. x \in SUBSET Id
    <3>1. inst.tree \in SUBSET Id
      BY DEF InstT
    <3>2. PICK g \in Seq(Answer) : g = q \o SubSeq(w, 1, n)
      BY <1>7
    <3>3. PICK U : U = SUBSET Id
      OBVIOUS
    <3>4. \A e, y, v : <<e, y, v>> \in Knows => v \in U
      BY <3>3, StepInto, Zenon
    <3>5. inst.tree \in U /\ Flow(g, Knows, inst.tree, x)
      BY <2>2, <3>1, <3>2, <3>3
    <3>6. x \in U
      BY <3>4, <3>5, FlowInto
    <3> QED
      BY <3>3, <3>6
  <2> QED
    BY <1>4, <1>6, <1>7, <2>1, <2>2, <2>3 DEF KnownFor
<1> QED
  BY <1>6, <1>7, <1>8, <1>9, <1>10 DEF StreamsFor

(* What is on its way when the client has written.                         *)
LEMMA WrittenStreams ==
  ASSUME NEW c, NEW p, p = tx', StreamsFor(p, c), UNCHANGED <<inst, rx, source.tasks>>,
         client'.wb = c.wb, client'.txt = c.txt, client'.off = c.off, client'.obj = c.obj,
         client'.objs = c.objs,
         client'.mode = client.mode \/ (client.mode = "flush" /\ client'.mode = "freed"),
         \A i \in DOMAIN task : /\ i \in DOMAIN task' /\ task'[i].of = task[i].of
                                /\ task[i].st = "freed" => task'[i].st = "freed"
  PROVE  Streams'
<1>1. Paired'
  <2>1. PICK a \in Seq(Line), b \in Seq(Line), w \in Seq(Line) :
               /\ Flow(p, Pairs, inst.waitok, a) /\ Flow(c.wb, Pairs, a, b)
               /\ Flow(c.txt, Pairs, b, w) /\ Rest(w)
    BY DEF StreamsFor, PairedFor
  <2>2. /\ Flow(p, Pairs', inst.waitok, a) /\ Flow(c.wb, Pairs', a, b) /\ Flow(c.txt, Pairs', b, w)
    BY <2>1, PairsKept
  <2>3. /\ Flow(tx', Pairs', inst'.waitok, a) /\ Flow(client'.wb, Pairs', a, b)
        /\ Flow(client'.txt, Pairs', b, w)
    BY <2>2
  <2>4. IF client'.mode \in {"flush", "freed"} THEN ~Has(w, "task") ELSE w = rx'
    BY <2>1 DEF Rest
  <2> QED
    BY <2>3, <2>4, PairedNext
<1>2. Framed'
  <2>1. PICK a \in Nat : Flow(p, Frames, inst.left, a) /\ Flow(c.wb, Frames, a, Left(c))
    BY DEF StreamsFor, FramedFor
  <2>2. Left(c) = Remain'
    BY DEF Left, Remain
  <2>3. Flow(tx', Frames, inst'.left, a) /\ Flow(client'.wb, Frames, a, Remain')
    BY <2>1, <2>2
  <2> QED
    BY <2>3 DEF Framed
<1>3. Known'
  <2>1. PICK a \in SUBSET Id, b \in SUBSET Id, K \in SUBSET Id :
               /\ Flow(p, Knows, inst.tree, a) /\ Flow(c.wb, Knows, a, b)
               /\ Flow(c.txt, Knows, b, K) /\ K \subseteq DOMAIN task /\ Owes(K, source.tasks, c.objs)
    BY DEF StreamsFor, KnownFor
  <2>2. K \subseteq DOMAIN task' /\ Owes(K, source'.tasks, client'.objs)
    BY <2>1
  <2>3. Owing(K)'
    BY <2>2, OwingNext
  <2>4. /\ Flow(tx', Knows, inst'.tree, a) /\ Flow(client'.wb, Knows, a, b)
        /\ Flow(client'.txt, Knows, b, K)
    BY <2>1
  <2> QED
    BY <2>3, <2>4, KnownNext
<1> QED
  BY <1>1, <1>2, <1>3 DEF Streams

(* What a write leaves behind: c, or a client that is freed.               *)
LEMMA WriteParts ==
  ASSUME IInv, Lib(ClientWrite)
  PROVE  \E c \in ClientT :
           /\ tx' \in Seq(Answer) /\ StreamsFor(tx', c) /\ Writing(c)
           /\ c.mode = client.mode
           /\ \/ /\ c.wb = <<>> /\ c.txt = <<>> /\ c.off = 0 /\ c.objs = <<>> /\ c.obj = NoObj
                 /\ client.mode = "flush" /\ source.tasks = {} /\ ClientFree
              \/ /\ client' = c \/ client' = [c EXCEPT !.writes = FALSE]
                 /\ UNCHANGED <<source, task, done_queue, shut>>
<1>1. /\ client \in ClientT /\ Writing(client) /\ tx \in Seq(Answer) /\ inst \in InstT
      /\ "client" \notin shut
  BY DEF IInv, Shapes, Lib, ClientWrite
<1>2. StreamsFor(tx, client)
  BY <1>1, StreamsNow DEF IInv
<1>3. PICK r : r = Refilled
  OBVIOUS
<1>4. r \in ClientT /\ Writing(r) /\ r.mode = client.mode /\ StreamsFor(tx, r)
  BY <1>1, <1>2, <1>3, RefillStreams
<1>5. PICK n \in {1, Len(r.wb)} \cap 0 .. Len(r.wb) :
        LET c == [r EXCEPT !.wb = SubSeq(@, n + 1, Len(@))]
            idle == c.wb = <<>> /\ c.txt = <<>> /\ c.off = 0 /\ c.objs = <<>>
        IN  /\ tx' = tx \o SubSeq(r.wb, 1, n)
            /\ IF idle /\ c.mode = "flush" /\ IsDone(c, source) THEN ClientFree
               ELSE /\ client' = IF idle THEN [c EXCEPT !.writes = FALSE] ELSE c
                    /\ UNCHANGED <<source, task, done_queue, shut>>
  BY <1>3, Zenon DEF Lib, ClientWrite
<1>6. PICK c : c = [r EXCEPT !.wb = SubSeq(@, n + 1, Len(@))]
  OBVIOUS
<1>7. PICK idle \in BOOLEAN : idle <=> c.wb = <<>> /\ c.txt = <<>> /\ c.off = 0 /\ c.objs = <<>>
  OBVIOUS
<1>8. /\ tx' = tx \o SubSeq(r.wb, 1, n)
      /\ IF idle /\ c.mode = "flush" /\ IsDone(c, source) THEN ClientFree
         ELSE /\ client' = IF idle THEN [c EXCEPT !.writes = FALSE] ELSE c
              /\ UNCHANGED <<source, task, done_queue, shut>>
  BY <1>5, <1>6, <1>7, Zenon
<1>9. PICK p : p = tx \o SubSeq(r.wb, 1, n)
  OBVIOUS
<1>10. PICK q \in Seq(Answer) : q = tx
  BY <1>1
<1>11. /\ p \in Seq(Answer) /\ c \in ClientT /\ StreamsFor(p, c)
       /\ c.mode = r.mode /\ c.off = r.off /\ c.obj = r.obj
  <2>1. PICK w \in Seq(Answer) : w = r.wb
    BY <1>4 DEF ClientT
  <2>2. SubSeq(w, n + 1, Len(w)) \in Seq(Answer)
    <3>1. Len(w) \in Nat /\ n \in Nat /\ \A i \in 1 .. Len(w) : w[i] \in Answer
      BY <2>1, LenProperties, ElementOfSeq
    <3>2. \A i \in n + 1 .. Len(w) : w[i] \in Answer
      BY <3>1
    <3> QED
      BY <3>1, <3>2, SubSeqProperties
  <2>3. PICK z \in Seq(Answer) : z = SubSeq(w, n + 1, Len(w))
    BY <2>2
  <2>4. c = [r EXCEPT !.wb = z]
    BY <1>6, <2>1, <2>3, Zenon
  <2>5. PICK s \in ClientT : s = r
    BY <1>4
  <2>6. /\ c \in ClientT /\ c.wb = z /\ c.mode = s.mode /\ c.off = s.off /\ c.obj = s.obj
        /\ c.objs = s.objs /\ c.txt = s.txt
    BY <2>4, <2>5 DEF ClientT
  <2>7. /\ inst \in InstT /\ q \in Seq(Answer) /\ s \in ClientT /\ StreamsFor(q, s)
        /\ n \in 0 .. Len(s.wb) /\ c.wb = SubSeq(s.wb, n + 1, Len(s.wb))
        /\ c.off = s.off /\ c.obj = s.obj /\ c.objs = s.objs /\ c.txt = s.txt
        /\ p = q \o SubSeq(s.wb, 1, n)
    BY <1>1, <1>4, <1>9, <1>10, <2>1, <2>3, <2>5, <2>6
  <2>8. p \in Seq(Answer) /\ StreamsFor(p, c)
    BY ONLY <2>7, SentStreams
  <2> QED
    BY <2>5, <2>6, <2>8
<1>12. Writing(c)
  BY <1>4, <1>11 DEF Writing
<1>13. tx' = p
  BY <1>8, <1>9
<1>14. c.mode = client.mode
  BY <1>4, <1>11
<1>15. CASE idle /\ c.mode = "flush" /\ IsDone(c, source)
  <2>1. ClientFree
    BY <1>8, <1>15
  <2>2. c.obj = NoObj /\ source.tasks = {}
    BY <1>15 DEF IsDone, IsFinished
  <2> QED
    BY <1>7, <1>11, <1>12, <1>13, <1>14, <1>15, <2>1, <2>2
<1>16. CASE ~(idle /\ c.mode = "flush" /\ IsDone(c, source))
  <2>1. client' = IF idle THEN [c EXCEPT !.writes = FALSE] ELSE c
    BY <1>8, <1>16
  <2>2. UNCHANGED <<source, task, done_queue, shut>>
    BY <1>8, <1>16
  <2>3. client' = c \/ client' = [c EXCEPT !.writes = FALSE]
    BY <2>1
  <2> QED
    BY <1>11, <1>12, <1>13, <1>14, <2>2, <2>3
<1> QED
  BY <1>15, <1>16

(* client_write: some of the write buffer goes to the socket, and a client *)
(* in mode flush that is done is freed.                                    *)
LEMMA ClientWriteKeeps ==
  ASSUME IInv, Lib(ClientWrite) PROVE IInv'
<1>1. /\ client.writes /\ "client" \notin shut /\ UNCHANGED <<rx, inst, mine, fault>>
  BY DEF Lib, ClientWrite
<1>2. PICK c \in ClientT :
           /\ tx' \in Seq(Answer) /\ StreamsFor(tx', c) /\ Writing(c)
           /\ c.mode = client.mode
           /\ \/ /\ c.wb = <<>> /\ c.txt = <<>> /\ c.off = 0 /\ c.objs = <<>> /\ c.obj = NoObj
                 /\ client.mode = "flush" /\ source.tasks = {} /\ ClientFree
              \/ /\ client' = c \/ client' = [c EXCEPT !.writes = FALSE]
                 /\ UNCHANGED <<source, task, done_queue, shut>>
  BY WriteParts
<1>3. PICK p : p = tx' /\ StreamsFor(p, c)
  BY <1>2
<1>4. client.mode # "freed" /\ ~inst.eof
  <2>1. client.mode # "freed"
    BY <1>1 DEF IInv, Freed
  <2> QED
    BY <2>1 DEF IInv, Freed
<1>5. /\ client \in ClientT /\ source \in SourceT /\ task \in Seq(TaskT) /\ done_queue \in Seq(Id)
      /\ rx \in Seq(Line) /\ shut \in SUBSET {"client", "scamper"}
      /\ inst \in InstT /\ mine \in [Task -> MineT]
  BY DEF IInv, Shapes
<1>6. CASE /\ c.wb = <<>> /\ c.txt = <<>> /\ c.off = 0 /\ c.objs = <<>> /\ c.obj = NoObj
           /\ client.mode = "flush" /\ source.tasks = {} /\ ClientFree
  <2>1. /\ client' = [client EXCEPT !.mode = "freed", !.txt = <<>>, !.objs = <<>>, !.obj = NoObj,
                                    !.off = 0, !.wb = <<>>, !.reads = FALSE, !.writes = FALSE]
        /\ source' = [source EXCEPT !.open = FALSE, !.commands = <<>>, !.tasks = {}, !.cyclemon = FALSE]
        /\ task' = Gone(task)
    BY <1>6 DEF ClientFree
  <2>2. /\ client'.mode = "freed" /\ client'.txt = <<>> /\ client'.objs = <<>> /\ client'.obj = NoObj
        /\ client'.off = 0 /\ client'.wb = <<>>
    BY <1>5, <2>1 DEF ClientT
  <2>3. source'.tasks = {}
    BY <1>5, <2>1 DEF SourceT
  <2>4. PICK g : g = task'
    OBVIOUS
  <2>5. DOMAIN g = DOMAIN task /\ \A i \in DOMAIN task : g[i].of = task[i].of /\ g[i].st = "freed"
    BY <1>5, <2>1, <2>4, GoneFields
  <2>6. \A i \in DOMAIN task : /\ i \in DOMAIN task' /\ task'[i].of = task[i].of
                               /\ task[i].st = "freed" => task'[i].st = "freed"
    BY <2>4, <2>5
  <2>7. Streams'
    BY <1>1, <1>3, <1>6, <2>2, <2>3, <2>6, WrittenStreams
  <2>8. source.finished
    BY <1>1, <1>6 DEF IInv, Ends
  <2> QED
    BY <1>1, <1>2, <1>4, <1>6, <2>7, <2>8, FreeKeeps
<1>7. CASE /\ client' = c \/ client' = [c EXCEPT !.writes = FALSE]
           /\ UNCHANGED <<source, task, done_queue, shut>>
  <2>1. /\ client' \in ClientT /\ client'.wb = c.wb /\ client'.txt = c.txt /\ client'.off = c.off
        /\ client'.obj = c.obj /\ client'.objs = c.objs /\ client'.mode = client.mode
    BY <1>2, <1>7 DEF ClientT
  <2>2. Writing(client)'
    <3>1. Writing(c)
      BY <1>2
    <3> QED
      BY <2>1, <3>1 DEF Writing
  <2>3. Shapes'
    BY <1>1, <1>2, <1>5, <1>7, <2>1, <2>2 DEF Shapes
  <2>4. Tasked'
    BY <1>7, TaskedKept DEF IInv
  <2>5. \A i \in DOMAIN task : /\ i \in DOMAIN task' /\ task'[i].of = task[i].of
                               /\ task[i].st = "freed" => task'[i].st = "freed"
    BY <1>7
  <2>6. Asked'
    BY <1>1, <1>7, DaemonAsked DEF IInv
  <2>7. Filed' /\ Late'
    BY <1>1, <2>5, DaemonRest
  <2>8. Freed'
    <3>1. client'.mode # "freed" /\ client.mode # "freed" /\ "scamper" \notin shut' /\ "client" \notin shut'
      BY <1>1, <1>4, <1>7, <2>1 DEF IInv, Freed
    <3>2. ~inst'.eof /\ fault' = "none"
      BY <1>1, <1>4 DEF IInv, Freed
    <3> QED
      BY <3>1, <3>2 DEF Freed
  <2>9. Ends'
    <3>1. UNCHANGED <<inst.queue, inst.done, rx, shut, client.mode, source.finished, source.open, source.cyclemon>>
      BY <1>1, <1>7, <2>1
    <3> QED
      BY <3>1, EndsKept DEF IInv
  <2>10. Streams'
    BY <1>1, <1>3, <1>7, <2>1, <2>5, WrittenStreams
  <2> QED
    BY <2>3, <2>4, <2>6, <2>7, <2>8, <2>9, <2>10 DEF IInv
<1> QED
  BY <1>2, <1>6, <1>7

-----------------------------------------------------------------------------

(* Nothing is in an empty list.                                            *)
LEMMA EmptyHas ==
  \A x, k : ~In(x, <<>>) /\ ~Has(<<>>, k)
  BY DEF In, Has

(* The types hold at the start.                                            *)
LEMMA InitShapes ==
  ASSUME Init PROVE Shapes
<1>1. /\ client = [mode |-> "interactive", txt |-> <<>>, objs |-> <<>>, obj |-> NoObj,
                   off |-> 0, wb |-> <<>>, reads |-> TRUE, writes |-> FALSE]
      /\ source = [open |-> FALSE, commands |-> <<>>, tasks |-> {}, finished |-> FALSE,
                   cyclemon |-> FALSE]
      /\ task = <<>> /\ done_queue = <<>> /\ rx = <<>> /\ tx = <<>> /\ shut = {}
  BY DEF Init, ClientStart
<1>2. /\ inst = [queue |-> <<Attach>>, waitok |-> <<>>, done |-> FALSE, tree |-> {},
                 data |-> {}, left |-> 0, more |-> FALSE, asked |-> FALSE, eof |-> FALSE]
      /\ mine = [t \in Task |-> [st |-> "new", id |-> 0, halt |-> FALSE, data |-> 0]]
  BY DEF Init
<1>3. client \in ClientT
  <2>1. <<>> \in Seq(Spoken) /\ <<>> \in Seq(Obj) /\ <<>> \in Seq(Answer)
    OBVIOUS
  <2> QED
    BY <1>1, <2>1 DEF ClientT
<1>4. source \in SourceT
  <2>1. <<>> \in Seq(Id \cup {Cycle}) /\ {} \in SUBSET Id
    OBVIOUS
  <2> QED
    BY <1>1, <2>1 DEF SourceT
<1>5. inst \in InstT
  <2>1. <<>> \in Seq(Line) /\ <<Attach>> \in Seq(Line)
    <3>1. Attach \in Line
      BY LineHas
    <3> QED
      BY <3>1
  <2>2. 0 \in 0 .. Pieces
    BY ClientAssumption
  <2>3. {} \in SUBSET Id /\ {} \in SUBSET Task
    OBVIOUS
  <2> QED
    BY <1>2, <2>1, <2>2, <2>3 DEF InstT
<1>6. mine \in [Task -> MineT]
  <2>1. [st |-> "new", id |-> 0, halt |-> FALSE, data |-> 0] \in MineT
    BY DEF MineT
  <2> QED
    BY <1>2, <2>1
<1>7. Writing(client)
  BY <1>1 DEF Writing
<1>8. /\ task \in Seq(TaskT) /\ done_queue \in Seq(Id) /\ rx \in Seq(Line) /\ tx \in Seq(Answer)
      /\ shut \in SUBSET {"client", "scamper"}
  BY <1>1
<1> QED
  BY <1>3, <1>4, <1>5, <1>6, <1>7, <1>8 DEF Shapes

(* The invariant holds at the start: a program has a queue with one        *)
(* attach, and nothing is on its way.                                      *)
LEMMA InitHolds ==
  ASSUME Init PROVE IInv
<1>1. /\ client.mode = "interactive" /\ client.txt = <<>> /\ client.objs = <<>> /\ client.obj = NoObj
      /\ client.off = 0 /\ client.wb = <<>>
      /\ source.commands = <<>> /\ source.tasks = {} /\ ~source.finished /\ ~source.cyclemon
      /\ task = <<>> /\ done_queue = <<>> /\ rx = <<>> /\ tx = <<>> /\ shut = {}
  BY DEF Init, ClientStart
<1>2. /\ inst.queue = <<Attach>> /\ inst.waitok = <<>> /\ inst.tree = {} /\ inst.data = {}
      /\ inst.left = 0 /\ ~inst.eof /\ fault = "none"
  BY DEF Init
<1>3. \A t \in Task : /\ mine[t].st = "new" /\ mine[t].id = 0 /\ mine[t].data = 0
  BY DEF Init
<1>4. Shapes
  BY InitShapes
<1>5. Tasked
  <2>1. DOMAIN task = {} /\ DOMAIN source.commands = {} /\ DOMAIN done_queue = {}
    BY <1>1
  <2> QED
    BY <1>1, <2>1 DEF Tasked, Apart, In
<1>6. /\ DOMAIN inst.queue = {1} /\ inst.queue[1] = Attach
      /\ \A x : In(x, inst.queue) <=> x = Attach
      /\ ~Has(inst.queue, "task")
  <2>1. DOMAIN inst.queue = {1} /\ inst.queue[1] = Attach
    BY <1>2
  <2>2. Attach.k = "attach"
    BY LineHas
  <2> QED
    BY <2>1, <2>2 DEF In, Has
<1>7. Asked
  <2>1. Once(inst.queue)
    BY <1>6 DEF Once
  <2>2. Once(rx) /\ Once(inst.waitok)
    BY <1>1, <1>2 DEF Once
  <2>3. \A x : ~In(x, rx) /\ ~In(x, inst.waitok)
    BY <1>1, <1>2, EmptyHas
  <2>4. \A t : ~MadeOf(t)
    BY <1>1 DEF MadeOf
  <2>5. \A t \in Task : ~In(Do(t), inst.queue)
    BY <1>6, LineHas
  <2>6. \A t \in Task, i \in Id : ~In(Halt(t, i), inst.queue)
    BY <1>6, LineHas
  <2> QED
    BY <1>3, <2>1, <2>2, <2>3, <2>4, <2>5, <2>6 DEF Asked
<1>8. Filed
  BY <1>2, <1>3 DEF Filed
<1>9. Ends
  <2>1. AfterDone(inst.queue)
    BY <1>6 DEF AfterDone
  <2>2. AfterDone(rx)
    BY <1>1 DEF AfterDone
  <2>3. ~In(Done, inst.queue) /\ ~In(Done, rx)
    BY <1>1, <1>6, EmptyHas, LineHas
  <2> QED
    BY <1>1, <2>1, <2>2, <2>3 DEF Ends
<1>10. Freed
  BY <1>1, <1>2 DEF Freed
<1>11. Streams
  <2>1. <<>> \in Seq(Line) /\ {} \in SUBSET Id
    OBVIOUS
  <2>2. Flow(<<>>, Pairs, <<>>, <<>>) /\ Flow(<<>>, Frames, 0, 0) /\ Flow(<<>>, Knows, {}, {})
    BY FlowEmpty
  <2>3. Rest(rx)
    BY <1>1 DEF Rest
  <2>4. Paired
    BY <1>1, <1>2, <2>1, <2>2, <2>3 DEF Paired
  <2>5. Remain = 0
    BY <1>1 DEF Remain
  <2>6. Framed
    BY <1>1, <1>2, <2>2, <2>5 DEF Framed
  <2>7. Owes({}, {}, <<>>)
    BY EmptyHas DEF Owes
  <2>8. Owing({})
    BY <1>1, <2>7 DEF Owing
  <2>9. Known
    BY <1>1, <1>2, <2>1, <2>2, <2>8 DEF Known
  <2> QED
    BY <2>4, <2>6, <2>9 DEF Streams
<1>12. Late
  BY <1>2 DEF Late
<1> QED
  BY <1>4, <1>5, <1>7, <1>8, <1>9, <1>10, <1>11, <1>12 DEF IInv

(* fd_write, with nothing to send, ends it.                                *)
LEMMA FdSendNothingKeeps ==
  ASSUME IInv, Alive, FdSendNothing PROVE IInv'
<1>1. /\ UNCHANGED <<client, source, task, done_queue, rx, tx, inst, mine>>
      /\ shut' = shut \cup {"client"} /\ fault' = "no command"
  BY DEF FdSendNothing, Fail, daemon
<1>2. Shapes' /\ Filed' /\ Late'
  BY <1>1 DEF IInv, Shapes, Writing, Filed, Late
<1>3. Tasked'
  BY <1>1, TaskedKept DEF IInv
<1>4. Asked'
  BY <1>1, DaemonAsked DEF IInv
<1>5. Ends'
  BY <1>1, EndsNext DEF IInv, Ends
<1>6. Freed'
  BY <1>1 DEF IInv, Freed, Alive
<1>7. Streams'
  BY <1>1, StreamsOver
<1> QED
  BY <1>2, <1>3, <1>4, <1>5, <1>6, <1>7 DEF IInv

(* Every step keeps the invariant.                                         *)
LEMMA StepKeeps ==
  ASSUME IInv, [Next]_vars PROVE IInv'
<1>1. CASE Program
  BY <1>1, ProgramKeeps
<1>2. CASE InstFree
  BY <1>2, InstFreeKeeps
<1>3. CASE Library
  BY <1>3, FdSendKeeps, FdSendNothingKeeps, InstReadKeeps, InstEofKeeps DEF Library, FdWrite
<1>4. CASE Lib(Daemon)
  <2>1. \/ Lib(ClientRead) \/ Lib(ClientEof) \/ Lib(ClientWrite) \/ Lib(ClientWriteFails)
        \/ Lib(GetTask) \/ Lib(ProcessDone) \/ \E i \in DOMAIN task : Lib(TaskEnds(i))
    BY <1>4, Zenon DEF Lib, Daemon
  <2>2. CASE Lib(ClientRead)
    BY <2>2, ClientReadKeeps
  <2>3. CASE Lib(ClientEof)
    BY <2>3, ClientEofKeeps
  <2>4. CASE Lib(ClientWrite)
    BY <2>4, ClientWriteKeeps
  <2>5. CASE Lib(ClientWriteFails)
    BY <2>5, WriteFailsKeeps
  <2>6. CASE Lib(GetTask)
    BY <2>6, GetTaskKeeps
  <2>7. CASE Lib(ProcessDone)
    BY <2>7, ProcessDoneKeeps
  <2>8. ASSUME NEW i \in DOMAIN task, Lib(TaskEnds(i)) PROVE IInv'
    BY <2>8, TaskEndsKeeps
  <2> QED
    BY <2>1, <2>2, <2>3, <2>4, <2>5, <2>6, <2>7, <2>8
<1>5. CASE UNCHANGED vars
  <2>1. UNCHANGED <<client, source, task, done_queue, rx, tx, shut, inst, mine, fault>>
    BY <1>5 DEF vars, daemon
  <2>2. Shapes' /\ Filed' /\ Late'
    BY <2>1 DEF IInv, Shapes, Writing, Filed, Late
  <2>3. Tasked'
    BY <2>1, TaskedKept DEF IInv
  <2>4. Asked'
    BY <2>1, DaemonAsked DEF IInv
  <2>5. Ends' /\ Freed'
    BY <2>1, EndsKept, FreedKept DEF IInv
  <2>6. Streams'
    BY <2>1, StreamsKept DEF IInv
  <2> QED
    BY <2>2, <2>3, <2>4, <2>5, <2>6 DEF IInv
<1> QED
  BY <1>1, <1>2, <1>3, <1>4, <1>5 DEF Next

(* The invariant holds of every run of a program and scamper, for any      *)
(* tasks and any number of pieces.                                         *)
THEOREM InvariantHolds == Spec => []IInv
<1>1. Init => IInv
  BY InitHolds
<1>2. IInv /\ [Next]_vars => IInv'
  BY StepKeeps
<1> QED
  BY <1>1, <1>2, PTL DEF Spec

-----------------------------------------------------------------------------

(* What is polled for writing has a command to send, unless a task was     *)
(* halted that still waited in the queue.                                  *)
TookBack == \E t \in MayHalt : mine[t].st = "dropped"

WriteInv ==
  /\ write \in BOOLEAN
  /\ inst.queue # <<>> => write
  /\ write /\ inst.queue = <<>> => TookBack
  /\ fault = "no command" => inst.queue = <<>> /\ TookBack

(* A task that was taken back stays so.                                    *)
LEMMA TookBackKept ==
  ASSUME \A t \in Task : mine[t].st = "dropped" => mine'[t].st = "dropped"
  PROVE  TookBack => TookBack'
<1> SUFFICES ASSUME TookBack PROVE TookBack'
  OBVIOUS
<1>1. PICK t \in MayHalt : mine[t].st = "dropped"
  BY DEF TookBack
<1>2. t \in Task
  BY InstAssumption
<1> QED
  BY <1>1, <1>2 DEF TookBack

(* Nothing that is read touches the queue, nor a task that was taken back. *)
LEMMA ReadTook ==
  ASSUME IInv, InstRead
  PROVE  /\ inst'.queue = inst.queue /\ write' = write /\ fault' # "no command"
         /\ TookBack => TookBack'
<1>1. /\ inst \in InstT /\ mine \in [Task -> MineT] /\ inst.waitok \in Seq(Line) /\ fault = "none"
      /\ write' = write
  BY DEF IInv, Shapes, InstT, InstRead, Alive
<1>2. ASSUME inst.waitok # <<>>, inst.waitok[1].k = "task"
      PROVE  \E t \in Task : t = inst.waitok[1].task /\ mine[t].st = "waitok"
  <2>1. PICK w \in Seq(Line) : w = inst.waitok
    BY <1>1
  <2>2. w[1] \in Line /\ In(w[1], w)
    BY <1>2, <2>1 DEF In
  <2>3. PICK t \in Task : w[1] = Do(t) /\ t = w[1].task
    BY <1>2, <2>1, <2>2, LineCases
  <2>4. In(Do(t), inst.waitok) <=> mine[t].st = "waitok"
    BY DEF IInv, Asked
  <2> QED
    BY <2>1, <2>2, <2>3, <2>4
<1>3. \/ RxPiece \/ (\E x \in {Head(tx)} : RxOkId(x.id) \/ RxOk \/ RxErr \/ RxMore \/ RxData(x))
      \/ Fail("lost in data")
  BY DEF InstRead
<1>4. ASSUME NEW what \in {"answer", "no task", "halt", "attach", "done", "lost in data"}, Fail(what)
      PROVE  /\ inst'.queue = inst.queue /\ fault' # "no command"
             /\ \A t \in Task : mine[t].st = "dropped" => mine'[t].st = "dropped"
  BY <1>4 DEF Fail
<1>5. ASSUME NEW x, RxOkId(x.id)
      PROVE  /\ inst'.queue = inst.queue /\ fault' # "no command"
             /\ \A t \in Task : mine[t].st = "dropped" => mine'[t].st = "dropped"
  <2>1. CASE Fail("answer")
    BY <2>1, <1>4
  <2>2. CASE ~Fail("answer")
    <3>1. PICK u \in Task : u = inst.waitok[1].task /\ mine[u].st = "waitok"
      BY <1>2, <1>5, <2>2 DEF RxOkId
    <3>2. Head(inst.waitok) = inst.waitok[1]
      BY <1>1, <1>5, <2>2 DEF RxOkId
    <3>3. /\ mine' = [mine EXCEPT ![u].st = "gotid", ![u].id = x.id]
          /\ inst' = [inst EXCEPT !.waitok = Tail(@), !.tree = @ \cup {x.id}]
          /\ fault' = fault
      BY <1>5, <2>2, <3>1, <3>2 DEF RxOkId, Works
    <3>4. \A t \in Task : t # u => mine'[t] = mine[t]
      BY <1>1, <3>3
    <3> QED
      BY <1>1, <3>1, <3>3, <3>4 DEF InstT
  <2> QED
    BY <2>1, <2>2
<1>6. ASSUME RxErr
      PROVE  /\ inst'.queue = inst.queue /\ fault' # "no command"
             /\ \A t \in Task : mine[t].st = "dropped" => mine'[t].st = "dropped"
  <2>1. CASE inst.waitok = <<>>
    BY <1>4, <1>6, <2>1 DEF RxErr
  <2>2. CASE inst.waitok # <<>> /\ inst.waitok[1].k # "task"
    <3>1. inst.waitok[1] \in Line
      BY <1>1, <2>2
    <3>2. inst.waitok[1].k \in {"halt", "attach", "done"}
      BY <2>2, <3>1, LineCases, LineHas
    <3> QED
      BY <1>4, <1>6, <2>2, <3>2 DEF RxErr
  <2>3. CASE inst.waitok # <<>> /\ inst.waitok[1].k = "task"
    <3>1. PICK u \in Task : u = inst.waitok[1].task /\ mine[u].st = "waitok"
      BY <1>2, <2>3
    <3>2. /\ mine' = [mine EXCEPT ![u].st = "refused"]
          /\ inst' = [inst EXCEPT !.waitok = Tail(@), !.more = TRUE] /\ fault' = fault
      BY <1>6, <2>3, <3>1 DEF RxErr, Works
    <3>3. \A t \in Task : t # u => mine'[t] = mine[t]
      BY <1>1, <3>2
    <3> QED
      BY <1>1, <3>1, <3>2, <3>3 DEF InstT
  <2> QED
    BY <2>1, <2>2, <2>3
<1>7. ASSUME RxOk \/ RxMore
      PROVE  /\ inst'.queue = inst.queue /\ fault' # "no command"
             /\ \A t \in Task : mine[t].st = "dropped" => mine'[t].st = "dropped"
  <2>1. CASE Fail("answer")
    BY <2>1, <1>4
  <2>2. CASE ~Fail("answer")
    BY <1>1, <1>7, <2>2 DEF RxOk, RxMore, Works, InstT
  <2> QED
    BY <2>1, <2>2
<1>8. ASSUME NEW x, RxData(x)
      PROVE  /\ inst'.queue = inst.queue /\ fault' # "no command"
             /\ \A t \in Task : mine[t].st = "dropped" => mine'[t].st = "dropped"
  <2>1. CASE Fail("no task")
    BY <2>1, <1>4
  <2>2. CASE ~Fail("no task")
    BY <1>1, <1>8, <2>2 DEF RxData, Works, InstT
  <2> QED
    BY <2>1, <2>2
<1>9. ASSUME RxPiece
      PROVE  /\ inst'.queue = inst.queue /\ fault' # "no command"
             /\ \A t \in Task : mine[t].st = "dropped" => mine'[t].st = "dropped"
  <2>1. \A t \in inst.data : t \in Task => mine[t].st = "gotid"
    BY DEF IInv, Filed
  <2>2. inst'.queue = inst.queue /\ fault' = fault
    BY <1>1, <1>9 DEF RxPiece, Works, InstT
  <2>3. \A t \in Task : t \notin inst.data => mine'[t] = mine[t]
    BY <1>1, <1>9 DEF RxPiece
  <2> QED
    BY <1>1, <2>1, <2>2, <2>3
<1> QED
  BY <1>1, <1>3, <1>4, <1>5, <1>6, <1>7, <1>8, <1>9, TookBackKept

(* A call of the program.                                                  *)
LEMMA ProgramWrites ==
  ASSUME IInv, WriteInv, Program PROVE WriteInv'
<1>1. inst \in InstT /\ mine \in [Task -> MineT] /\ fault = "none" /\ fault' = fault
      /\ inst.queue \in Seq(Line)
  BY DEF IInv, Shapes, InstT, Program, Alive
<1>2. ASSUME inst'.queue # <<>>, write' = TRUE PROVE WriteInv'
  BY <1>1, <1>2 DEF WriteInv
<1>3. \A x : Append(inst.queue, x) # <<>>
  BY <1>1
<1>4. CASE InstDone
  BY <1>1, <1>2, <1>3, <1>4 DEF InstDone, InstT
<1>5. ASSUME NEW t \in Task, InstDo(t) PROVE WriteInv'
  BY <1>1, <1>2, <1>3, <1>5 DEF InstDo, InstT
<1>6. ASSUME NEW t \in Task, TaskHalt(t) PROVE WriteInv'
  <2>1. CASE mine[t].st = "queue"
    <3>1. t \in MayHalt /\ mine' = [mine EXCEPT ![t].st = "dropped", ![t].halt = TRUE] /\ write' = write
      BY <1>6, <2>1 DEF TaskHalt
    <3>2. mine'[t].st = "dropped"
      <4>1. PICK m \in MineT : m = mine[t]
        BY <1>1
      <4>2. mine'[t] = [m EXCEPT !.st = "dropped", !.halt = TRUE]
        BY <1>1, <3>1, <4>1, Zenon
      <4> QED
        BY <4>1, <4>2 DEF MineT
    <3>3. TookBack'
      BY <3>1, <3>2 DEF TookBack
    <3>4. In(Do(t), inst.queue)
      BY <2>1 DEF IInv, Asked
    <3>5. inst.queue # <<>>
      BY <3>4 DEF In
    <3> QED
      BY <1>1, <3>1, <3>3, <3>5 DEF WriteInv
  <2>2. CASE mine[t].st = "waitok"
    <3>1. mine' = [mine EXCEPT ![t].halt = TRUE] /\ inst' = inst /\ write' = write
      BY <1>6, <2>2 DEF TaskHalt
    <3>2. \A u \in Task : mine[u].st = "dropped" => mine'[u].st = "dropped"
      <4>1. \A u \in Task : u # t => mine'[u] = mine[u]
        BY <1>1, <3>1
      <4> QED
        BY <2>2, <4>1
    <3> QED
      BY <1>1, <3>1, <3>2, TookBackKept DEF WriteInv
  <2>3. CASE mine[t].st = "gotid"
    BY <1>1, <1>2, <1>3, <1>6, <2>3 DEF TaskHalt, InstT
  <2> QED
    BY <1>6, <2>1, <2>2, <2>3 DEF TaskHalt
<1> QED
  BY <1>4, <1>5, <1>6 DEF Program

(* fd_write.                                                               *)
LEMMA FdWrites ==
  ASSUME IInv, WriteInv, FdWrite PROVE WriteInv'
<1>1. /\ inst \in InstT /\ mine \in [Task -> MineT] /\ inst.queue \in Seq(Line)
      /\ Alive /\ write /\ fault = "none"
  BY DEF IInv, Shapes, InstT, FdWrite, Alive
<1>2. CASE FdSend
  <2>1. fault' = fault /\ write' = (inst'.queue # <<>>)
    BY <1>2, Zenon DEF FdSend
  <2> QED
    BY <1>1, <2>1 DEF WriteInv
<1>3. CASE FdSendNothing
  BY <1>1, <1>3 DEF FdSendNothing, Fail, WriteInv, TookBack
<1> QED
  BY <1>2, <1>3 DEF FdWrite

LEMMA WriteStep ==
  ASSUME IInv, WriteInv, [Next]_vars PROVE WriteInv'
<1>1. CASE Program
  BY <1>1, ProgramWrites
<1>2. CASE FdWrite
  BY <1>2, FdWrites
<1>3. CASE InstRead
  <2>1. /\ inst'.queue = inst.queue /\ write' = write /\ fault' # "no command"
        /\ TookBack => TookBack'
    BY <1>3, ReadTook
  <2>2. write' /\ inst'.queue = <<>> => TookBack'
    BY <2>1, Zenon DEF WriteInv
  <2> QED
    BY <2>1, <2>2, Zenon DEF WriteInv
<1>4. CASE InstEof
  <2>1. inst \in InstT /\ inst' = [inst EXCEPT !.eof = TRUE] /\ UNCHANGED <<write, mine, fault>>
    BY <1>4 DEF InstEof, IInv, Shapes
  <2> QED
    BY <2>1 DEF WriteInv, TookBack, InstT
<1>5. CASE InstFree \/ Lib(Daemon) \/ UNCHANGED vars
  <2>1. UNCHANGED <<inst, write, mine, fault>>
    BY <1>5 DEF InstFree, Lib, vars
  <2> QED
    BY <2>1 DEF WriteInv, TookBack
<1> QED
  BY <1>1, <1>2, <1>3, <1>4, <1>5 DEF Next, Library

(* A descriptor is polled for writing while it has a command to send, for  *)
(* any tasks and any number of pieces.                                     *)
LEMMA WriteHolds == Spec => []WriteInv
<1>1. Init => WriteInv
  BY DEF Init, WriteInv
<1>2. IInv /\ WriteInv /\ [Next]_vars => WriteInv'
  BY WriteStep
<1> QED
  BY <1>1, <1>2, InvariantHolds, PTL DEF Spec

(* Every variable of the client, its source and the library has its type,  *)
(* and its bounds: no more ids are given than there are tasks, and an      *)
(* object is under way only while some of it is left (client_write_do's    *)
(* sof_off). The first follows from Tasked, the last from Writing.         *)
THEOREM TypeOKHolds == Spec => []TypeOK
<1>1. IInv /\ WriteInv => TypeOK
  <2> SUFFICES ASSUME IInv, WriteInv PROVE TypeOK
    OBVIOUS
  <2>1. /\ client \in ClientT /\ source \in SourceT /\ task \in Seq(TaskT)
        /\ done_queue \in Seq(Id) /\ rx \in Seq(Line) /\ tx \in Seq(Answer)
        /\ shut \in SUBSET {"client", "scamper"}
        /\ inst \in InstT /\ Writing(client)
    BY DEF IInv, Shapes
  <2>2. client.txt \in Seq(Answer)
    <3>1. PICK q \in Seq(Spoken) : q = client.txt
      BY <2>1 DEF ClientT
    <3> QED
      BY <3>1, SpokenSeq
  <2>3. /\ client.off \in 0 .. Pieces - 1 /\ (client.off > 0) = (client.obj # NoObj)
    <3>1. client.off \in Nat /\ client.obj \in Obj \cup {NoObj}
      BY <2>1 DEF ClientT
    <3>2. client.off > 0 <=> client.obj # NoObj
      BY <2>1 DEF Writing
    <3>3. client.off > 0 => client.off < client.obj.len /\ client.obj.len \in 1 .. Pieces
      BY <2>1, <3>1, <3>2, ObjCases DEF Writing
    <3> QED
      BY <3>1, <3>2, <3>3, ClientAssumption
  <2>4. Len(task) <= Cardinality(Task)
    <3>1. \A i, j \in DOMAIN task : task[i].of = task[j].of => i = j
      BY DEF IInv, Tasked
    <3> QED
      BY <2>1, <3>1, TasksBound
  <2>5. source.tasks \subseteq DOMAIN task
    BY <2>1 DEF IInv, Tasked, SourceT
  <2>6. inst.tree \subseteq DOMAIN task
    BY DEF IInv, Filed
  <2>7. /\ client.mode \in {"interactive", "attached", "flush", "freed"}
        /\ client.reads \in BOOLEAN /\ client.writes \in BOOLEAN /\ client.wb \in Seq(Answer)
        /\ client.objs \in Seq(Obj) /\ client.obj \in Obj \cup {NoObj}
    BY <2>1 DEF ClientT
  <2>8. source.commands \in Seq(Id \cup {Cycle})
    BY <2>1 DEF SourceT
  <2>9. inst.queue \in Seq(Line) /\ inst.waitok \in Seq(Line) /\ inst.left \in 0 .. Pieces
    BY <2>1 DEF InstT
  <2>10. write \in BOOLEAN
    BY DEF WriteInv
  <2> QED
    BY <2>1, <2>2, <2>3, <2>4, <2>5, <2>6, <2>7, <2>8, <2>9, <2>10 DEF TypeOK
<1> QED
  BY <1>1, InvariantHolds, WriteHolds, PTL

(* However reads, writes, results, halts and the end of the connection     *)
(* fall, the library fails only in a program that halts a task, and in two *)
(* ways: inst_rx meets the ERR that scamper_source_halttask gives to the   *)
(* halt of a task that was freed while the halt was on its way; or fd_write*)
(* is called with nothing to send, after scamper_task_halt took the last   *)
(* command out of the queue. The first is Late, the second WriteInv.       *)
THEOREM OnlyHaltsFailHolds == Spec => []OnlyHaltsFail
<1>1. IInv /\ WriteInv => OnlyHaltsFail
  <2> SUFFICES ASSUME IInv, WriteInv, fault # "none", fault # "no command"
               PROVE  fault = "halt" /\ task[inst.waitok[1].id].st = "freed"
    BY DEF OnlyHaltsFail, WriteInv, TookBack
  <2>1. /\ fault = "halt" /\ inst.waitok # <<>> /\ task[Head(inst.waitok).id].st = "freed"
    BY DEF IInv, Late
  <2>2. inst.waitok \in Seq(Line)
    BY DEF IInv, Shapes, InstT
  <2>3. Head(inst.waitok) = inst.waitok[1]
    BY <2>1, <2>2
  <2> QED
    BY <2>1, <2>3
<1> QED
  BY <1>1, InvariantHolds, WriteHolds, PTL

(* The id under which the library files a task is the one command_task     *)
(* gave it, so that no DATA reaches the program as the result of another   *)
(* task: answers carry no command, and inst_rx takes the oldest of waitok. *)
(* This is part of Filed, which Paired keeps.                              *)
THEOREM IdsAgreeHolds == Spec => []IdsAgree
<1>1. IInv => IdsAgree
  BY DEF IInv, Filed, IdsAgree
<1> QED
  BY <1>1, InvariantHolds, PTL

(* When a program reads the end of the connection, every task it asked for *)
(* has its result, once, or was refused or dropped: client_free comes only *)
(* when client_isdone, which the source is not while a task or a result is *)
(* left. By Freed there are then no tasks and nothing is on its way, so by *)
(* Known the tree is empty and by Paired no command waits for an answer.   *)
THEOREM AllAnsweredHolds == Spec => []AllAnswered
<1>1. IInv => AllAnswered
  <2> SUFFICES ASSUME IInv, inst.eof, NEW t \in Task
               PROVE  /\ mine[t].st \in {"new", "data", "refused", "dropped"}
                      /\ mine[t].data = IF mine[t].st = "data" THEN 1 ELSE 0
    BY DEF AllAnswered
  <2>1. /\ tx = <<>> /\ "client" \notin shut /\ client.mode = "freed"
        /\ client.wb = <<>> /\ client.txt = <<>> /\ client.objs = <<>> /\ client.off = 0
        /\ source.tasks = {}
    BY DEF IInv, Freed
  <2>2. ~Has(inst.queue, "task")
    BY <2>1 DEF IInv, Ends
  <2>3. ~Has(inst.waitok, "task")
    <3>1. PICK a \in Seq(Line), b \in Seq(Line), w \in Seq(Line) :
            /\ Flow(<<>>, Pairs, inst.waitok, a) /\ Flow(<<>>, Pairs, a, b)
            /\ Flow(<<>>, Pairs, b, w) /\ Rest(w)
      BY <2>1 DEF IInv, Streams, Paired
    <3>2. w = inst.waitok
      BY <3>1, FlowEmpty
    <3> QED
      BY <2>1, <3>1, <3>2 DEF Rest
  <2>4. inst.left = 0
    <3>1. Remain = 0
      BY <2>1 DEF Remain
    <3>2. PICK a \in Nat : Flow(<<>>, Frames, inst.left, a) /\ Flow(<<>>, Frames, a, 0)
      BY <2>1, <3>1 DEF IInv, Streams, Framed
    <3> QED
      BY <3>2, FlowEmpty
  <2>5. inst.tree = {}
    <3>1. PICK a \in SUBSET Id, b \in SUBSET Id, K \in SUBSET Id :
            /\ Flow(<<>>, Knows, inst.tree, a) /\ Flow(<<>>, Knows, a, b)
            /\ Flow(<<>>, Knows, b, K) /\ Owing(K)
      BY <2>1 DEF IInv, Streams, Known
    <3>2. K = inst.tree
      BY <3>1, FlowEmpty
    <3>3. \A i \in Id : i \notin K
      BY <2>1, <3>1, EmptyHas DEF Owing, Owes
    <3> QED
      BY <3>2, <3>3
  <2>6. mine[t].st # "gotid"
    <3>1. mine[t].st = "gotid" => mine[t].id \in inst.tree \/ t \in inst.data
      BY DEF IInv, Filed
    <3>2. t \in inst.data => inst.left > 0
      BY DEF IInv, Filed
    <3> QED
      BY <2>4, <2>5, <3>1, <3>2
  <2>7. mine[t].st # "queue" /\ mine[t].st # "waitok"
    <3>1. ~In(Do(t), inst.queue) /\ ~In(Do(t), inst.waitok)
      BY <2>2, <2>3, LineHas DEF In, Has
    <3> QED
      BY <3>1 DEF IInv, Asked
  <2>8. mine[t].st \in {"new", "queue", "waitok", "gotid", "data", "refused", "dropped"}
    BY DEF IInv, Shapes, MineT
  <2>9. mine[t].data = IF mine[t].st = "data" THEN 1 ELSE 0
    BY DEF IInv, Filed
  <2> QED
    BY <2>6, <2>7, <2>8, <2>9
<1> QED
  BY <1>1, InvariantHolds, PTL

-----------------------------------------------------------------------------
(* A source that may want a command, and that the program knows it.        *)
Idle ==
  /\ client.mode = "attached" /\ ~source.finished /\ source.commands = <<>>
  /\ ~Has(inst.queue, "task") /\ ~Has(rx, "task")
  /\ \A t \in Task : ~mine[t].halt

Wanted(k, q, c) == Has(c.txt, k) \/ Has(c.wb, k) \/ Has(q, k)

Told ==
  \/ inst.more \/ fault # "none" \/ "client" \in shut
  \/ Wanted("MORE", tx, client) \/ Wanted("ERR", tx, client)

(* MoreWhenIdle, in the words of this proof.                               *)
LEMMA MoreIs ==
  MoreWhenIdle <=> (Idle => Told)
<1>1. (\E q \in {client.txt, client.wb, tx} : Has(q, "MORE") \/ Has(q, "ERR"))
      <=> Wanted("MORE", tx, client) \/ Wanted("ERR", tx, client)
  BY Zenon DEF Wanted
<1> QED
  BY <1>1, Zenon DEF MoreWhenIdle, Idle, Told

(* A line is in a concatenation when it is in one of its parts.            *)
LEMMA HasConcat ==
  ASSUME NEW S, NEW p \in Seq(S), NEW q \in Seq(S), NEW k
  PROVE  Has(p \o q, k) <=> Has(p, k) \/ Has(q, k)
<1>1. /\ Len(p) \in Nat /\ Len(q) \in Nat /\ Len(p \o q) = Len(p) + Len(q)
      /\ \A i \in 1 .. Len(p) + Len(q) :
           (p \o q)[i] = IF i <= Len(p) THEN p[i] ELSE q[i - Len(p)]
      /\ DOMAIN p = 1 .. Len(p) /\ DOMAIN q = 1 .. Len(q) /\ p \o q \in Seq(S)
  BY LenProperties, ConcatProperties
<1>2. DOMAIN (p \o q) = 1 .. Len(p) + Len(q)
  BY <1>1, LenProperties
<1>3. ASSUME NEW i \in 1 .. Len(p), p[i].k = k PROVE Has(p \o q, k)
  <2>1. i \in 1 .. Len(p) + Len(q) /\ (p \o q)[i] = p[i]
    BY <1>1
  <2> QED
    BY <1>2, <1>3, <2>1 DEF Has
<1>4. ASSUME NEW i \in 1 .. Len(q), q[i].k = k PROVE Has(p \o q, k)
  <2>1. PICK j \in 1 .. Len(p) + Len(q) : j = Len(p) + i /\ ~(j <= Len(p)) /\ j - Len(p) = i
    <3>1. Len(p) + i \in 1 .. Len(p) + Len(q) /\ ~(Len(p) + i <= Len(p)) /\ (Len(p) + i) - Len(p) = i
      BY <1>1
    <3> QED
      BY <3>1
  <2>2. (p \o q)[j] = q[i]
    BY <1>1, <2>1
  <2> QED
    BY <1>2, <1>4, <2>2 DEF Has
<1>5. ASSUME NEW i \in 1 .. Len(p) + Len(q), (p \o q)[i].k = k PROVE Has(p, k) \/ Has(q, k)
  <2>1. CASE i <= Len(p)
    <3>1. i \in DOMAIN p /\ p[i].k = k
      BY <1>1, <1>5, <2>1
    <3> QED
      BY <3>1 DEF Has
  <2>2. CASE ~(i <= Len(p))
    <3>1. i - Len(p) \in DOMAIN q /\ q[i - Len(p)].k = k
      BY <1>1, <1>5, <2>2
    <3> QED
      BY <3>1 DEF Has
  <2> QED
    BY <2>1, <2>2
<1> QED
  BY <1>1, <1>2, <1>3, <1>4, <1>5 DEF Has

(* A line of a list is before or after any place in it.                    *)
LEMMA HasParts ==
  ASSUME NEW S, NEW q \in Seq(S), NEW n \in 0 .. Len(q), NEW k, Has(q, k)
  PROVE  Has(SubSeq(q, 1, n), k) \/ Has(SubSeq(q, n + 1, Len(q)), k)
<1>1. Len(q) \in Nat /\ DOMAIN q = 1 .. Len(q) /\ \A i \in 1 .. Len(q) : q[i] \in S
  BY LenProperties, ElementOfSeq
<1>2. PICK i \in 1 .. Len(q) : q[i].k = k
  BY <1>1 DEF Has
<1>3. CASE i <= n
  <2>1. PICK p : p = SubSeq(q, 1, n)
    OBVIOUS
  <2>2. \A j \in 1 .. n : q[j] \in S
    BY <1>1
  <2>3. p \in Seq(S) /\ Len(p) = n /\ p[i] = q[i]
    <3>1. /\ SubSeq(q, 1, n) \in Seq(S)
          /\ Len(SubSeq(q, 1, n)) = IF 1 <= n THEN n - 1 + 1 ELSE 0
          /\ \A j \in 1 .. n - 1 + 1 : SubSeq(q, 1, n)[j] = q[1 + j - 1]
      BY <1>1, <2>2, SubSeqProperties
    <3>2. i \in 1 .. n - 1 + 1 /\ 1 + i - 1 = i /\ n - 1 + 1 = n /\ 1 <= n
      BY <1>1, <1>3
    <3> QED
      BY <2>1, <3>1, <3>2
  <2>4. i \in DOMAIN p
    BY <1>3, <2>3, LenProperties
  <2>5. Has(p, k)
    BY <1>2, <2>3, <2>4 DEF Has
  <2> QED
    BY <2>1, <2>5
<1>4. CASE ~(i <= n)
  <2>1. PICK p : p = SubSeq(q, n + 1, Len(q))
    OBVIOUS
  <2>2. \A j \in n + 1 .. Len(q) : q[j] \in S
    BY <1>1
  <2>3. PICK j \in 1 .. Len(q) - n : i = n + j
    <3>1. i - n \in 1 .. Len(q) - n /\ i = n + (i - n)
      BY <1>1, <1>4
    <3> QED
      BY <3>1
  <2>4. p \in Seq(S) /\ Len(p) = Len(q) - n /\ p[j] = q[i]
    <3>1. /\ SubSeq(q, n + 1, Len(q)) \in Seq(S)
          /\ Len(SubSeq(q, n + 1, Len(q))) = IF n + 1 <= Len(q) THEN Len(q) - (n + 1) + 1 ELSE 0
          /\ \A x \in 1 .. Len(q) - (n + 1) + 1 : SubSeq(q, n + 1, Len(q))[x] = q[(n + 1) + x - 1]
      BY <1>1, <2>2, SubSeqProperties
    <3>2. /\ j \in 1 .. Len(q) - (n + 1) + 1 /\ (n + 1) + j - 1 = i
          /\ Len(q) - (n + 1) + 1 = Len(q) - n /\ n + 1 <= Len(q)
      BY <1>1, <1>4, <2>3
    <3> QED
      BY <2>1, <3>1, <3>2
  <2>5. j \in DOMAIN p
    BY <2>4, LenProperties
  <2>6. Has(p, k)
    BY <1>2, <2>4, <2>5 DEF Has
  <2> QED
    BY <2>1, <2>6
<1> QED
  BY <1>3, <1>4

(* An answer that is on its way stays so when the client writes.           *)
LEMMA WriteWanted ==
  ASSUME IInv, Lib(ClientWrite), NEW k, Wanted(k, tx, client), client'.mode # "freed"
  PROVE  Wanted(k, tx', client')
<1>1. client \in ClientT /\ Writing(client) /\ tx \in Seq(Answer)
  BY DEF IInv, Shapes
<1>2. PICK r : r = Refilled
  OBVIOUS
<1>3. r \in ClientT /\ Wanted(k, tx, r)
  <2>1. CASE client.wb # <<>>
    <3>1. r = client
      BY <1>2, <2>1 DEF Refilled
    <3> QED
      BY <1>1, <3>1
  <2>2. CASE client.wb = <<>>
    <3>1. PICK c \in ClientT : c = client
      BY <1>1
    <3>2. c \in ClientT /\ Writing(c) /\ c.wb = <<>> /\ r = WriteDo(c)
      BY <1>1, <1>2, <2>2, <3>1 DEF Refilled
    <3>3. /\ r \in ClientT
          /\ \/ /\ c.off = 0 /\ c.objs = <<>> /\ r.off = 0 /\ r.objs = <<>>
                /\ r.txt = <<>> /\ r.wb = c.txt
             \/ /\ c.off = 0 /\ c.objs # <<>> /\ r.objs = Tail(c.objs) /\ r.txt = <<>>
                /\ r.wb = c.txt \o <<DataHeader(Head(c.objs))>> \o <<Piece>>
                /\ Left(r) = Head(c.objs).len - 1
             \/ /\ c.off > 0 /\ r.objs = c.objs /\ r.txt = c.txt /\ r.wb = <<Piece>>
                /\ Left(c) = Left(r) + 1
      BY ONLY <3>2, WriteCases
    <3>4. Has(c.txt, k) \/ Has(tx, k)
      BY <2>2, <3>1, EmptyHas DEF Wanted
    <3>5. CASE r.wb = c.txt \/ r.txt = c.txt
      BY <3>3, <3>4, <3>5 DEF Wanted
    <3>6. CASE /\ c.objs # <<>>
               /\ r.wb = c.txt \o <<DataHeader(Head(c.objs))>> \o <<Piece>>
      <4>1. PICK t \in Seq(Answer) : t = c.txt
        <5>1. PICK t \in Seq(Spoken) : t = c.txt
          BY DEF ClientT
        <5> QED
          BY <5>1, SpokenSeq
      <4>2. Head(c.objs) \in Obj
        <5>1. c.objs \in Seq(Obj)
          BY DEF ClientT
        <5> QED
          BY <3>6, <5>1, TailWithin
      <4>3. PICK h \in Answer : h = DataHeader(Head(c.objs))
        BY <4>2, ObjCases
      <4>4. <<h>> \in Seq(Answer) /\ <<Piece>> \in Seq(Answer)
        BY OneAnswer
      <4>5. t \o <<h>> \in Seq(Answer) /\ (Has(t, k) => Has(t \o <<h>>, k))
        BY <4>4, HasConcat, ConcatProperties
      <4>6. Has(t, k) => Has((t \o <<h>>) \o <<Piece>>, k)
        BY <4>4, <4>5, HasConcat
      <4>7. Has(c.txt, k) => Has(r.wb, k)
        BY <3>6, <4>1, <4>3, <4>6
      <4> QED
        BY <3>3, <3>4, <4>7 DEF Wanted
    <3> QED
      BY <3>3, <3>5, <3>6
  <2> QED
    BY <2>1, <2>2
<1>4. PICK n \in {1, Len(r.wb)} \cap 0 .. Len(r.wb) :
        LET c == [r EXCEPT !.wb = SubSeq(@, n + 1, Len(@))]
            idle == c.wb = <<>> /\ c.txt = <<>> /\ c.off = 0 /\ c.objs = <<>>
        IN  /\ tx' = tx \o SubSeq(r.wb, 1, n)
            /\ IF idle /\ c.mode = "flush" /\ IsDone(c, source) THEN ClientFree
               ELSE /\ client' = IF idle THEN [c EXCEPT !.writes = FALSE] ELSE c
                    /\ UNCHANGED <<source, task, done_queue, shut>>
  BY <1>2, Zenon DEF Lib, ClientWrite
<1>5. PICK w \in Seq(Answer) : w = r.wb
  BY <1>3 DEF ClientT
<1>6. /\ n \in 0 .. Len(w) /\ SubSeq(w, 1, n) \in Seq(Answer) /\ SubSeq(w, n + 1, Len(w)) \in Seq(Answer)
  <2>1. Len(w) \in Nat /\ n \in 0 .. Len(w) /\ \A i \in 1 .. Len(w) : w[i] \in Answer
    BY <1>5, LenProperties, ElementOfSeq
  <2>2. \A i \in 1 .. n : w[i] \in Answer
    BY <2>1
  <2>3. \A i \in n + 1 .. Len(w) : w[i] \in Answer
    BY <2>1
  <2> QED
    BY <2>1, <2>2, <2>3, SubSeqProperties
<1>7. PICK z \in Seq(Answer) : z = SubSeq(w, n + 1, Len(w))
  BY <1>6
<1>8. PICK c : c = [r EXCEPT !.wb = SubSeq(@, n + 1, Len(@))]
  OBVIOUS
<1>9. c \in ClientT /\ c.wb = z /\ c.txt = r.txt
  <2>1. PICK s \in ClientT : s = r
    BY <1>3
  <2>2. c = [s EXCEPT !.wb = z]
    BY <1>5, <1>7, <1>8, <2>1, Zenon
  <2>3. c \in ClientT /\ c.wb = z /\ c.txt = s.txt
    BY <2>2 DEF ClientT
  <2> QED
    BY <2>1, <2>3
<1>10. tx' = tx \o SubSeq(w, 1, n)
  BY <1>4, <1>5
<1>11. ClientFree \/ client' = c \/ client' = [c EXCEPT !.writes = FALSE]
  BY <1>4, <1>8, Zenon
<1>12. ~ClientFree
  <2> SUFFICES ASSUME ClientFree PROVE FALSE
    OBVIOUS
  <2>1. client' = [client EXCEPT !.mode = "freed", !.txt = <<>>, !.objs = <<>>, !.obj = NoObj,
                                 !.off = 0, !.wb = <<>>, !.reads = FALSE, !.writes = FALSE]
    BY DEF ClientFree
  <2>2. client'.mode = "freed"
    BY <1>1, <2>1 DEF ClientT
  <2> QED
    BY <2>2
<1>13. client'.wb = z /\ client'.txt = r.txt
  BY <1>9, <1>11, <1>12 DEF ClientT
<1>14. Has(w, k) => Has(SubSeq(w, 1, n), k) \/ Has(z, k)
  BY <1>6, <1>7, HasParts
<1>15. Has(tx, k) \/ Has(SubSeq(w, 1, n), k) => Has(tx', k)
  <2>1. PICK q \in Seq(Answer) : q = tx
    BY <1>1
  <2>2. PICK v \in Seq(Answer) : v = SubSeq(w, 1, n)
    BY <1>6
  <2>3. Has(q \o v, k) <=> Has(q, k) \/ Has(v, k)
    BY HasConcat
  <2> QED
    BY <1>10, <2>1, <2>2, <2>3
<1>16. Has(r.txt, k) \/ Has(w, k) \/ Has(tx, k)
  BY <1>3, <1>5 DEF Wanted
<1> QED
  BY <1>13, <1>14, <1>15, <1>16 DEF Wanted

(* A call of the program: if it is idle now it was, as what it asked is    *)
(* still in the queue.                                                     *)
LEMMA ProgramMore ==
  ASSUME IInv, Idle => Told, Program, Idle' PROVE Told'
<1>1. /\ inst \in InstT /\ mine \in [Task -> MineT] /\ inst.queue \in Seq(Line) /\ rx \in Seq(Line)
      /\ UNCHANGED <<client, source, task, done_queue, rx, tx, shut, fault>>
  BY DEF IInv, Shapes, InstT, Program, daemon
<1>2. CASE InstDone
  <2>1. mine' = mine /\ inst'.queue = Append(inst.queue, Done) /\ inst'.more = inst.more
    BY <1>1, <1>2 DEF InstDone, InstT
  <2>2. Done \in Line
    BY LineHas
  <2>3. Has(inst'.queue, "task") <=> Has(inst.queue, "task")
    <3>1. PICK q \in Seq(Line) : q = inst.queue
      BY <1>1
    <3>2. Has(Append(q, Done), "task") <=> Has(q, "task") \/ Done.k = "task"
      BY <2>2, MoreIn
    <3> QED
      BY <2>1, <3>1, <3>2, LineHas
  <2>4. Idle
    BY <1>1, <2>1, <2>3 DEF Idle
  <2> QED
    BY <1>1, <2>1, <2>4 DEF Told, Wanted
<1>3. ASSUME NEW t \in Task, InstDo(t) PROVE FALSE
  <2>1. inst'.queue = Append(inst.queue, Do(t))
    BY <1>1, <1>3 DEF InstDo, InstT
  <2>2. PICK q \in Seq(Line) : q = inst.queue
    BY <1>1
  <2>3. Do(t) \in Line /\ Do(t).k = "task"
    BY LineHas
  <2>4. Has(Append(q, Do(t)), "task") <=> Has(q, "task") \/ Do(t).k = "task"
    BY <2>3, MoreIn
  <2>5. Has(inst'.queue, "task")
    BY <2>1, <2>2, <2>3, <2>4
  <2> QED
    BY <2>5 DEF Idle
<1>4. ASSUME NEW t \in Task, TaskHalt(t) PROVE FALSE
  <2>1. mine'[t].halt
    <3>1. PICK m \in MineT : m = mine[t]
      BY <1>1
    <3>2. \/ mine' = [mine EXCEPT ![t].st = "dropped", ![t].halt = TRUE]
          \/ mine' = [mine EXCEPT ![t].halt = TRUE]
      BY <1>4, Zenon DEF TaskHalt
    <3>3. CASE mine' = [mine EXCEPT ![t].st = "dropped", ![t].halt = TRUE]
      <4>1. mine'[t] = [m EXCEPT !.st = "dropped", !.halt = TRUE]
        BY <1>1, <3>1, <3>3
      <4> QED
        BY <4>1 DEF MineT
    <3>4. CASE mine' = [mine EXCEPT ![t].halt = TRUE]
      <4>1. mine'[t] = [m EXCEPT !.halt = TRUE]
        BY <1>1, <3>1, <3>4
      <4> QED
        BY <4>1 DEF MineT
    <3> QED
      BY <3>2, <3>3, <3>4
  <2> QED
    BY <2>1 DEF Idle
<1> QED
  BY <1>2, <1>3, <1>4 DEF Program

(* fd_write: a task that left the queue is on its way to scamper.          *)
LEMMA FdSendMore ==
  ASSUME IInv, Idle => Told, FdSend, Idle' PROVE Told'
<1>1. /\ inst \in InstT /\ mine \in [Task -> MineT] /\ inst.queue \in Seq(Line) /\ rx \in Seq(Line)
      /\ UNCHANGED <<client, source, task, done_queue, tx, shut, fault>> /\ inst.queue # <<>>
  BY DEF IInv, Shapes, InstT, FdSend, daemon
<1>2. PICK q \in Seq(Line) : q = inst.queue /\ q # <<>>
  BY <1>1
<1>3. PICK x \in Line : x = Head(q)
  BY <1>2, TailWithin
<1>4. /\ rx' = Append(rx, x) /\ inst' = [inst EXCEPT !.queue = Tail(q), !.waitok = Append(@, x)]
      /\ mine' = IF x.k = "task" THEN [mine EXCEPT ![x.task].st = "waitok"] ELSE mine
  BY <1>2, <1>3, Zenon DEF FdSend
<1>5. inst'.queue = Tail(q) /\ inst'.more = inst.more
  BY <1>1, <1>4 DEF InstT
<1>6. Has(rx', "task") <=> Has(rx, "task") \/ x.k = "task"
  BY <1>1, <1>4, MoreIn
<1>7. Has(q, "task") <=> x.k = "task" \/ Has(Tail(q), "task")
  BY <1>2, <1>3, TailWithin
<1>8. x.k # "task"
  BY <1>6 DEF Idle
<1>9. mine' = mine
  BY <1>4, <1>8
<1>10. Idle
  BY <1>1, <1>2, <1>5, <1>6, <1>7, <1>8, <1>9 DEF Idle
<1> QED
  BY <1>1, <1>5, <1>10 DEF Told, Wanted

(* scamper_inst_read changes no queue, forgets no halt, and asks the       *)
(* program for a command on MORE and ERR.                                  *)
LEMMA ReadHalts ==
  ASSUME IInv, InstRead
  PROVE  \/ "client" \in shut'
         \/ /\ inst'.queue = inst.queue /\ \A t \in Task : mine[t].halt => mine'[t].halt
            /\ UNCHANGED <<shut, fault>>
            /\ inst.more \/ Head(tx).k \in {"MORE", "ERR"} => inst'.more
<1>1. /\ inst \in InstT /\ mine \in [Task -> MineT] /\ inst.waitok \in Seq(Line)
      /\ inst.waitok # <<>> => /\ inst.waitok[1] = Head(inst.waitok) /\ Head(inst.waitok) \in Line
  BY ReadTypes
<1>2. PICK x : x = Head(tx)
  OBVIOUS
<1>3. ASSUME NEW what, Fail(what) PROVE "client" \in shut'
  BY <1>3 DEF Fail
<1>4. CASE \/ x.k = "OK id" /\ RxOkId(x.id)
  <2>1. PICK t : t = Head(inst.waitok).task
    OBVIOUS
  <2>2. CASE Fail("answer")
    BY <1>3, <2>2
  <2>3. CASE ~Fail("answer")
    <3>1. /\ mine' = [mine EXCEPT ![t].st = "gotid", ![t].id = x.id]
          /\ inst' = [inst EXCEPT !.waitok = Tail(@), !.tree = @ \cup {x.id}] /\ Works
      BY <1>4, <2>1, <2>3, Zenon DEF RxOkId
    <3>2. inst'.queue = inst.queue /\ inst'.more = inst.more
      BY <1>1, <3>1 DEF InstT
    <3>3. ASSUME NEW u \in Task PROVE mine'[u].halt = mine[u].halt
      <4>1. PICK m \in MineT : m = mine[u]
        BY <1>1
      <4>2. CASE u = t
        <5>1. mine'[u] = [m EXCEPT !.st = "gotid", !.id = x.id]
          BY <1>1, <3>1, <4>1, <4>2
        <5> QED
          BY <4>1, <5>1 DEF MineT
      <4>3. CASE u # t
        BY <1>1, <3>1, <4>3
      <4> QED
        BY <4>2, <4>3
    <3> QED
      BY <1>2, <1>4, <3>1, <3>2, <3>3 DEF Works
  <2> QED
    BY <2>2, <2>3
<1>5. CASE x.k = "OK" /\ RxOk
  <2>1. CASE Fail("answer")
    BY <1>3, <2>1
  <2>2. CASE ~Fail("answer")
    <3>1. inst' = [inst EXCEPT !.waitok = Tail(@)] /\ Works /\ UNCHANGED mine
      BY <1>5, <2>2 DEF RxOk
    <3>2. inst'.queue = inst.queue /\ inst'.more = inst.more
      BY <1>1, <3>1 DEF InstT
    <3> QED
      BY <1>2, <1>5, <3>1, <3>2 DEF Works
  <2> QED
    BY <2>1, <2>2
<1>6. CASE x.k = "ERR" /\ RxErr
  <2>1. CASE \E what : Fail(what)
    BY <1>3, <2>1
  <2>2. CASE ~\E what : Fail(what)
    <3>1. PICK t : t = inst.waitok[1].task
      OBVIOUS
    <3>2. /\ mine' = [mine EXCEPT ![t].st = "refused"]
          /\ inst' = [inst EXCEPT !.waitok = Tail(@), !.more = TRUE] /\ Works
      BY <1>6, <2>2, <3>1 DEF RxErr
    <3>3. inst'.queue = inst.queue /\ inst'.more
      BY <1>1, <3>2 DEF InstT
    <3>4. ASSUME NEW u \in Task PROVE mine'[u].halt = mine[u].halt
      <4>1. PICK m \in MineT : m = mine[u]
        BY <1>1
      <4>2. CASE u = t
        <5>1. mine'[u] = [m EXCEPT !.st = "refused"]
          BY <1>1, <3>2, <4>1, <4>2
        <5> QED
          BY <4>1, <5>1 DEF MineT
      <4>3. CASE u # t
        BY <1>1, <3>2, <4>3
      <4> QED
        BY <4>2, <4>3
    <3> QED
      BY <3>2, <3>3, <3>4 DEF Works
  <2> QED
    BY <2>1, <2>2
<1>7. CASE x.k = "MORE" /\ RxMore
  <2>1. inst' = [inst EXCEPT !.more = TRUE, !.asked = TRUE] /\ Works /\ UNCHANGED mine
    BY <1>7 DEF RxMore
  <2>2. inst'.queue = inst.queue /\ inst'.more
    BY <1>1, <2>1 DEF InstT
  <2> QED
    BY <2>1, <2>2 DEF Works
<1>8. CASE x.k = "DATA" /\ RxData(x)
  <2>1. CASE Fail("no task")
    BY <1>3, <2>1
  <2>2. CASE ~Fail("no task")
    <3>1. PICK d : d = {t \in Task : mine[t].id = x.id /\ x.id # 0}
      OBVIOUS
    <3>2. inst' = [inst EXCEPT !.left = x.len, !.tree = @ \ {x.id}, !.data = d] /\ Works /\ UNCHANGED mine
      BY <1>8, <2>2, <3>1, Zenon DEF RxData
    <3>3. inst'.queue = inst.queue /\ inst'.more = inst.more
      BY <1>1, <3>2 DEF InstT
    <3> QED
      BY <1>2, <1>8, <3>2, <3>3 DEF Works
  <2> QED
    BY <2>1, <2>2
<1>9. CASE x.k = "piece" /\ RxPiece
  <2>1. PICK d : d = IF inst.left = 1 THEN {} ELSE inst.data
    OBVIOUS
  <2>2. inst' = [inst EXCEPT !.left = @ - 1, !.data = d] /\ Works
    BY <2>1, <1>9, Zenon DEF RxPiece
  <2>3. inst'.queue = inst.queue /\ inst'.more = inst.more
    BY <1>1, <2>2 DEF InstT
  <2>4. ASSUME NEW u \in Task PROVE mine'[u].halt = mine[u].halt
    <3>1. PICK m \in MineT : m = mine[u]
      BY <1>1
    <3>2. PICK n : n = m.data + 1
      OBVIOUS
    <3>3. mine'[u] = m \/ mine'[u] = [m EXCEPT !.st = "data", !.data = n]
      BY <1>9, <3>1, <3>2, Zenon DEF RxPiece
    <3>4. CASE mine'[u] = m
      BY <3>1, <3>4
    <3>5. CASE mine'[u] = [m EXCEPT !.st = "data", !.data = n]
      <4>1. PICK e : e = [m EXCEPT !.st = "data", !.data = n]
        OBVIOUS
      <4>2. e.halt = m.halt
        BY <4>1 DEF MineT
      <4> QED
        BY <3>1, <3>5, <4>1, <4>2
    <3> QED
      BY <3>3, <3>4, <3>5
  <2> QED
    BY <1>2, <1>9, <2>2, <2>3, <2>4 DEF Works
<1>10. \/ x.k = "piece" /\ RxPiece
       \/ Fail("lost in data")
       \/ x.k = "OK id" /\ RxOkId(x.id)
       \/ x.k = "OK" /\ RxOk
       \/ x.k = "ERR" /\ RxErr
       \/ x.k = "MORE" /\ RxMore
       \/ x.k = "DATA" /\ RxData(x)
  BY <1>2, Zenon DEF InstRead
<1> QED
  BY <1>2, <1>3, <1>4, <1>5, <1>6, <1>7, <1>8, <1>9, <1>10

(* scamper_inst_read: MORE and ERR are read, and then the program is       *)
(* asked.                                                                  *)
LEMMA ReadMore ==
  ASSUME IInv, Idle => Told, InstRead, Idle' PROVE Told'
<1>1. tx \in Seq(Answer) /\ tx # <<>> /\ tx' = Tail(tx) /\ UNCHANGED <<client, source, rx>>
  BY DEF IInv, Shapes, InstRead, daemon
<1>2. PICK q \in Seq(Answer) : q = tx /\ q # <<>>
  BY <1>1
<1>3. \A k : Has(q, k) <=> Head(q).k = k \/ Has(Tail(q), k)
  BY <1>2, TailWithin
<1>4. CASE "client" \in shut'
  BY <1>4 DEF Told
<1>5. CASE /\ inst'.queue = inst.queue /\ \A t \in Task : mine[t].halt => mine'[t].halt
           /\ UNCHANGED <<shut, fault>>
           /\ inst.more \/ Head(tx).k \in {"MORE", "ERR"} => inst'.more
  <2>1. Idle
    BY <1>1, <1>5 DEF Idle
  <2>2. Told
    BY <2>1
  <2>3. \A k \in {"MORE", "ERR"} : Wanted(k, tx, client) => Wanted(k, tx', client') \/ inst'.more
    BY <1>1, <1>2, <1>3, <1>5 DEF Wanted
  <2> QED
    BY <1>5, <2>2, <2>3 DEF Told
<1> QED
  BY <1>4, <1>5, ReadHalts

(* What client_send says is on its way.                                    *)
LEMMA SaidWanted ==
  ASSUME client \in ClientT, NEW x \in Spoken, client'.txt = Append(client.txt, x), UNCHANGED client.wb
  PROVE  /\ x.k = "ERR" => Wanted("ERR", tx, client')
         /\ x.k = "MORE" => Wanted("MORE", tx, client')
         /\ \A k : Wanted(k, tx, client) => Wanted(k, tx, client')
<1>1. PICK q \in Seq(Spoken) : q = client.txt
  BY DEF ClientT
<1>2. \A k : Has(Append(q, x), k) <=> Has(q, k) \/ x.k = k
  BY MoreIn
<1> QED
  BY <1>1, <1>2 DEF Wanted

(* client_free leaves a client that is freed.                              *)
LEMMA FreedIs ==
  ASSUME client \in ClientT, ClientFree PROVE client'.mode = "freed"
<1>1. client' = [client EXCEPT !.mode = "freed", !.txt = <<>>, !.objs = <<>>, !.obj = NoObj,
                               !.off = 0, !.wb = <<>>, !.reads = FALSE, !.writes = FALSE]
  BY DEF ClientFree
<1> QED
  BY <1>1 DEF ClientT

(* client_read: a task that is refused is told with ERR; one that is made  *)
(* is a command of the source; one that is halted is excluded.             *)
LEMMA ClientReadMore ==
  ASSUME IInv, Idle => Told, Lib(ClientRead), Idle' PROVE Told'
<1>1. /\ client \in ClientT /\ source \in SourceT /\ task \in Seq(TaskT)
      /\ rx \in Seq(Line) /\ rx # <<>> /\ rx' = Tail(rx) /\ Head(rx) \in Line
      /\ In(Head(rx), rx) /\ UNCHANGED <<tx, shut, inst, mine, fault>>
  BY ReadBase
<1>2. PICK x \in Line : x = Head(rx)
  BY <1>1
<1>3. \/ client.mode = "interactive" /\ x = Attach /\ CommandAttach
      \/ client.mode = "attached" /\ x.k = "task" /\ Command2(x.task)
      \/ client.mode = "attached" /\ x.k = "halt" /\ HaltTask(x.id)
      \/ client.mode = "attached" /\ x = Done /\ CommandDone
      \/ client.mode = "flush" /\ UNCHANGED daemon
  BY <1>2, Zenon DEF Lib, ClientRead, ClientReadLine
<1>4. CASE CommandAttach
  <2>1. source'.commands = <<Cycle>>
    BY <1>1, <1>4 DEF CommandAttach, SourceT
  <2> QED
    BY <2>1 DEF Idle
<1>5. CASE x.k = "task" /\ Command2(x.task)
  <2>1. PICK n : n = Len(task) + 1
    OBVIOUS
  <2>2. \/ source' = [source EXCEPT !.commands = Append(@, n), !.tasks = @ \cup {n}]
        \/ client' = Say(client, Err)
    BY <1>5, <2>1, Zenon DEF Command2
  <2>3. CASE source' = [source EXCEPT !.commands = Append(@, n), !.tasks = @ \cup {n}]
    <3>1. PICK q \in Seq(Id \cup {Cycle}) : q = source.commands
      BY <1>1 DEF SourceT
    <3>2. source'.commands = Append(q, n)
      BY <1>1, <2>3, <3>1 DEF SourceT
    <3>3. Append(q, n) # <<>>
      <4>1. PICK S : S = Id \cup {Cycle} \cup {n}
        OBVIOUS
      <4>2. q \in Seq(S) /\ n \in S
        BY <4>1, SeqMonotonic
      <4> QED
        BY <4>2, AppendProperties
    <3> QED
      BY <3>2, <3>3 DEF Idle
  <2>4. CASE client' = Say(client, Err)
    <3>1. /\ Err \in Spoken /\ Err.k = "ERR"
      BY SpokenCases, AnswerKinds
    <3>2. client'.txt = Append(client.txt, Err) /\ UNCHANGED client.wb
      BY <1>1, <2>4, <3>1, SayFields
    <3>3. Wanted("ERR", tx, client')
      BY <1>1, <3>1, <3>2, SaidWanted
    <3> QED
      BY <1>1, <3>3 DEF Told
  <2> QED
    BY <2>2, <2>3, <2>4
<1>6. CASE x.k = "halt"
  <2>1. x.task \in Task /\ x.id \in Id /\ x = Halt(x.task, x.id)
    BY <1>6, LineCases, LineHas
  <2>2. mine[x.task].halt
    BY <1>1, <1>2, <2>1 DEF IInv, Asked
  <2> QED
    BY <1>1, <2>1, <2>2 DEF Idle
<1>7. CASE client.mode = "attached" /\ x = Done /\ CommandDone
  <2>1. /\ client'.txt = Append(client.txt, Ok)
        /\ UNCHANGED <<client.wb, source.commands>>
        /\ source.finished => source'.finished
    BY <1>7, DoneFields
  <2>2. Ok \in Spoken
    BY SpokenCases
  <2>3. \A k : Wanted(k, tx, client) => Wanted(k, tx, client')
    BY <1>1, <2>1, <2>2, SaidWanted
  <2>4. Has(rx, "task") <=> x.k = "task" \/ Has(rx', "task")
    BY <1>1, <1>2, TailWithin
  <2>5. x.k # "task"
    BY <1>7, LineHas
  <2>6. Idle
    BY <1>1, <1>7, <2>1, <2>4, <2>5 DEF Idle
  <2> QED
    BY <1>1, <2>3, <2>6 DEF Told
<1>8. CASE client.mode = "flush" /\ UNCHANGED daemon
  BY <1>8 DEF Idle, daemon
<1> QED
  BY <1>3, <1>4, <1>5, <1>6, <1>7, <1>8

(* scamper_sources_gettask: ssc_take says MORE with the last command.      *)
LEMMA GetTaskMore ==
  ASSUME IInv, Idle => Told, Lib(GetTask), Idle' PROVE Told'
<1>1. /\ client \in ClientT /\ source \in SourceT
      /\ source.commands # <<>> /\ UNCHANGED <<inst, mine, fault, rx, tx, shut>>
  BY DEF IInv, Shapes, Lib, GetTask
<1>2. PICK q \in Seq(Id \cup {Cycle}) : q = source.commands /\ q # <<>>
  BY <1>1 DEF SourceT
<1>3. source' = [source EXCEPT !.commands = Tail(q)]
  BY <1>2 DEF Lib, GetTask
<1>4. source'.commands = Tail(q) /\ source'.finished = source.finished
  BY <1>1, <1>3 DEF SourceT
<1>5. Len(q) = 1
  <2>1. Tail(q) = <<>>
    BY <1>4 DEF Idle
  <2>2. Len(q) \in Nat /\ Len(Tail(q)) = Len(q) - 1
    BY <1>2, LenProperties, HeadTailProperties
  <2>3. Len(Tail(q)) = 0
    BY ONLY <2>1, EmptySeq
  <2> QED
    BY <2>2, <2>3
<1>6. PICK c : c = Take(client, source)
  OBVIOUS
<1>7. c = Say(client, More)
  BY <1>2, <1>4, <1>5, <1>6 DEF Take, Idle
<1>8. More \in Spoken /\ More.k = "MORE"
  BY SpokenCases, AnswerKinds
<1>9. c \in ClientT /\ c.txt = Append(client.txt, More) /\ c.wb = client.wb
  BY <1>1, <1>7, <1>8, SayFields
<1>10. client' = c \/ client' = DataSend(c, CycleObj, FALSE)
  BY <1>6, Zenon DEF Lib, GetTask
<1>11. client'.txt = c.txt /\ client'.wb = c.wb
  <2>1. CASE client' = DataSend(c, CycleObj, FALSE)
    <3>1. client' = [c EXCEPT !.objs = Append(@, CycleObj), !.writes = TRUE, !.mode = c.mode]
      BY <2>1 DEF DataSend
    <3> QED
      BY <1>9, <3>1 DEF ClientT
  <2> QED
    BY <1>10, <2>1
<1>12. Wanted("MORE", tx, client')
  BY <1>1, <1>8, <1>9, <1>11, SaidWanted
<1> QED
  BY <1>1, <1>12 DEF Told

(* scamper_process_done takes no command from a source and keeps txt.      *)
LEMMA ProcessDoneMore ==
  ASSUME IInv, Idle => Told, Lib(ProcessDone), Idle' PROVE Told'
<1>1. /\ client \in ClientT /\ source \in SourceT /\ done_queue \in Seq(Id) /\ done_queue # <<>>
      /\ UNCHANGED <<inst, mine, fault, rx, tx, shut>>
  BY DEF IInv, Shapes, Lib, ProcessDone
<1>2. PICK i \in Id : i = Head(done_queue)
  BY <1>1, TailWithin
<1>3. PICK c : c = DataSend(client, Result(i), FALSE)
  OBVIOUS
<1>4. PICK s : s = [source EXCEPT !.tasks = @ \ {i}]
  OBVIOUS
<1>5. PICK e : e = EndCycle(c, s)
  OBVIOUS
<1>6. client' = e.c /\ source' = e.s
  BY <1>2, <1>3, <1>4, <1>5, Zenon DEF Lib, ProcessDone
<1>7. /\ c \in ClientT /\ c.txt = client.txt /\ c.mode = client.mode /\ c.wb = client.wb
  <2>1. client.objs \in Seq(Obj)
    BY <1>1 DEF ClientT
  <2>2. PICK o \in Seq(Obj) : o = Append(client.objs, Result(i))
    BY <2>1, ObjCases, AppendProperties
  <2>3. c = [client EXCEPT !.objs = o, !.writes = TRUE, !.mode = client.mode]
    BY <1>3, <2>2 DEF DataSend
  <2> QED
    BY <1>1, <2>3 DEF ClientT
<1>8. s \in SourceT /\ s.commands = source.commands /\ s.finished = source.finished
  BY <1>1, <1>4 DEF SourceT
<1>9. /\ e.c.txt = c.txt /\ e.c.wb = c.wb /\ e.s.commands = s.commands /\ e.s.finished = s.finished
      /\ e.c.mode = c.mode \/ e.c.mode = "flush"
  <2>1. c \in ClientT /\ s \in SourceT /\ e = EndCycle(c, s)
    BY <1>5, <1>7, <1>8
  <2> QED
    BY ONLY <2>1, EndCycleCases
<1>10. client'.mode = client.mode
  BY <1>6, <1>7, <1>9 DEF Idle
<1>11. Idle
  BY <1>1, <1>6, <1>8, <1>9, <1>10 DEF Idle
<1> QED
  BY <1>1, <1>6, <1>7, <1>9, <1>11 DEF Told, Wanted

(* client_write moves MORE and ERR on: from txt to the write buffer, from  *)
(* there to the socket.                                                    *)
LEMMA WriteMore ==
  ASSUME IInv, Idle => Told, Lib(ClientWrite), Idle' PROVE Told'
<1>1. client \in ClientT /\ UNCHANGED <<rx, inst, mine, fault>>
  BY DEF IInv, Shapes, Lib, ClientWrite
<1>2. PICK c \in ClientT :
           /\ c.mode = client.mode
           /\ \/ ClientFree
              \/ /\ client' = c \/ client' = [c EXCEPT !.writes = FALSE]
                 /\ UNCHANGED <<source, task, done_queue, shut>>
  BY WriteParts
<1>3. client'.mode = "attached"
  BY DEF Idle
<1>4. ~ClientFree
  BY <1>1, <1>3, FreedIs
<1>5. client'.mode = client.mode
  BY <1>2, <1>4 DEF ClientT
<1>6. Idle
  BY <1>1, <1>2, <1>4, <1>5 DEF Idle
<1>7. \A k : Wanted(k, tx, client) => Wanted(k, tx', client')
  BY <1>3, WriteWanted
<1> QED
  BY <1>1, <1>2, <1>4, <1>6, <1>7 DEF Told

(* Every step keeps it.                                                    *)
LEMMA MoreStep ==
  ASSUME IInv, Idle => Told, [Next]_vars, Idle' PROVE Told'
<1>1. client \in ClientT
  BY DEF IInv, Shapes
<1>2. CASE Program
  BY <1>2, ProgramMore
<1>3. CASE InstFree
  BY <1>3 DEF InstFree, Told
<1>4. CASE FdWrite
  <2>1. CASE FdSend
    BY <2>1, FdSendMore
  <2>2. CASE FdSendNothing
    BY <2>2 DEF FdSendNothing, Fail, Told
  <2> QED
    BY <1>4, <2>1, <2>2 DEF FdWrite
<1>5. CASE InstRead
  BY <1>5, ReadMore
<1>6. CASE InstEof
  <2>1. /\ UNCHANGED <<client, source, rx, tx, shut, mine, fault>> /\ inst' = [inst EXCEPT !.eof = TRUE]
    BY <1>6 DEF InstEof, daemon
  <2>2. inst'.queue = inst.queue /\ inst'.more = inst.more
    BY <2>1 DEF IInv, Shapes, InstT
  <2> QED
    BY <2>1, <2>2 DEF Idle, Told, Wanted
<1>7. CASE Lib(ClientRead)
  BY <1>7, ClientReadMore
<1>8. CASE Lib(ClientEof)
  <2>1. "client" \in shut'
    BY <1>8, Zenon DEF Lib, ClientEof, ClientFree
  <2> QED
    BY <2>1 DEF Told
<1>9. CASE Lib(ClientWrite)
  BY <1>9, WriteMore
<1>10. CASE Lib(ClientWriteFails)
  <2>1. ClientFree
    BY <1>10 DEF Lib, ClientWriteFails
  <2>2. client'.mode = "freed"
    BY <1>1, <2>1, FreedIs
  <2> QED
    BY <2>2 DEF Idle
<1>11. CASE Lib(GetTask)
  BY <1>11, GetTaskMore
<1>12. CASE Lib(ProcessDone)
  BY <1>12, ProcessDoneMore
<1>13. ASSUME NEW i \in DOMAIN task, Lib(TaskEnds(i)) PROVE Told'
  BY <1>13 DEF Lib, TaskEnds, Idle, Told, Wanted
<1>14. CASE UNCHANGED vars
  BY <1>14 DEF vars, daemon, Idle, Told, Wanted
<1>15. Lib(Daemon) => \/ Lib(ClientRead) \/ Lib(ClientEof) \/ Lib(ClientWrite) \/ Lib(ClientWriteFails)
                      \/ Lib(GetTask) \/ Lib(ProcessDone) \/ \E i \in DOMAIN task : Lib(TaskEnds(i))
  BY Zenon DEF Lib, Daemon
<1> QED
  BY <1>2, <1>3, <1>4, <1>5, <1>6, <1>7, <1>8, <1>9, <1>10, <1>11, <1>12, <1>13, <1>14, <1>15
     DEF Next, Library

(* A source that is not finished and has no command, for which none is on  *)
(* its way and none was halted, has said MORE (ssc_take) or ERR            *)
(* (command_task), and the program knows or will read it, for any tasks    *)
(* and any number of pieces: a program that sends a command when asked for *)
(* one is never left waiting. A command leaves a source only in            *)
(* scamper_sources_gettask, which calls ssc_take, or by a halt.            *)
THEOREM MoreWhenIdleHolds == Spec => []MoreWhenIdle
<1>1. Init => (Idle => Told)
  <2> SUFFICES ASSUME Init PROVE ~Idle
    OBVIOUS
  <2>1. client.mode = "interactive"
    BY DEF Init, ClientStart
  <2> QED
    BY <2>1 DEF Idle
<1>2. IInv /\ (Idle => Told) /\ [Next]_vars => (Idle => Told)'
  BY MoreStep
<1>3. (Idle => Told) => MoreWhenIdle
  BY MoreIs
<1> QED
  BY <1>1, <1>2, <1>3, InvariantHolds, PTL DEF Spec
=============================================================================
