------------------------ MODULE SteeredThread_proofs ------------------------
(***************************************************************************)
(* Proofs about SteeredThread and the operators of Thread: what a replay   *)
(* finds in a transcript of any length, the types of the loop and its      *)
(* files, that steers reach the model in the order they were sent in, that *)
(* Thread, queue and worker together are the mailbox a sender is promised, *)
(* that every request is one an endpoint accepts, and that the history a   *)
(* request shows only grows.  For any number of steers, turns, crashes,    *)
(* relaunches and resumes.                                                 *)
(***************************************************************************)
EXTENDS SteeredThread, FiniteSetTheorems, SequenceTheorems, TLAPS

-----------------------------------------------------------------------------
(* Induction, from the well-foundedness of the finite sets 0..n.           *)
LEMMA LeastOf == ASSUME NEW T, T \subseteq Nat, T # {}
                 PROVE  \E x \in T : \A y \in T : x <= y
  <1> DEFINE R == StrictSubsetOrdering(Nat)
             F == {0..n : n \in T}
  <1>1. IsWellFoundedOn(R, FiniteSubsetsOf(Nat)) BY FS_StrictSubsetOrderingWellFounded
  <1>2. F \subseteq FiniteSubsetsOf(Nat)
    <2> SUFFICES ASSUME NEW n \in T PROVE 0..n \in FiniteSubsetsOf(Nat) OBVIOUS
    <2>1. IsFiniteSet(0..n) BY FS_Interval
    <2>2. 0..n \subseteq Nat OBVIOUS
    <2> QED BY <2>1, <2>2 DEF FiniteSubsetsOf
  <1>3. F # {} OBVIOUS
  <1> HIDE DEF F, R
  <1>4. PICK s \in F : \A t \in F : <<t, s>> \notin R
     BY <1>1, <1>2, <1>3, WFMin
  <1> USE DEF F, R
  <1>5. PICK x \in T : s = 0..x OBVIOUS
  <1>6. ASSUME NEW y \in T, y < x PROVE FALSE
    <2>1. 0..y \subseteq 0..x /\ 0..y # 0..x BY <1>6
    <2>2. 0..y \subseteq Nat /\ 0..x \subseteq Nat OBVIOUS
    <2>3. <<0..y, 0..x>> \in R BY <2>1, <2>2 DEF StrictSubsetOrdering
    <2> QED BY <2>3, <1>4, <1>5
  <1> QED BY <1>6

LEMMA Induction == ASSUME NEW S, NEW m \in Nat, 0 \in S,
                          \A n \in 0..(m - 1) : n \in S => n + 1 \in S
                   PROVE  \A n \in 0..m : n \in S
  <1> SUFFICES ASSUME NEW k \in 0..m, k \notin S PROVE FALSE OBVIOUS
  <1> DEFINE T == (0..m) \ S
  <1>1. T \subseteq Nat /\ k \in T OBVIOUS
  <1>2. PICK x \in T : \A y \in T : x <= y BY <1>1, LeastOf
  <1>3. x \in 0..m /\ x \notin S BY <1>2
  <1>4. x # 0 BY <1>3
  <1>5. x - 1 \in 0..(m - 1) /\ (x - 1) + 1 = x BY <1>3, <1>4
  <1>6. x - 1 \in S BY <1>2, <1>5
  <1> QED BY <1>3, <1>5, <1>6

(* A recursive function on 0..n exists, and the one for a longer interval  *)
(* agrees with it.                                                         *)
Folds(f, A, base, n, op) ==
    /\ f \in [0..n -> A] /\ f[0] = base
    /\ \A i \in 1..n : f[i] = op[<<i, f[i - 1]>>]
StaysIn(A, n, op) == \A i \in 1..n, a \in A : op[<<i, a>>] \in A

LEMMA FoldExists ==
  ASSUME NEW A, NEW base \in A, NEW n \in Nat, NEW op, StaysIn(A, n, op)
  PROVE  \E f : Folds(f, A, base, n, op)
  <1> USE DEF StaysIn
  <1> DEFINE Good(k) == \E f \in [0..k -> A] :
                            f[0] = base /\ \A i \in 1..k : f[i] = op[<<i, f[i - 1]>>]
             S == {k \in Nat : Good(k)}
  <1>1. 0 \in S
    <2> DEFINE f == [i \in 0..0 |-> base]
    <2>1. f \in [0..0 -> A] /\ f[0] = base OBVIOUS
    <2>2. \A i \in 1..0 : f[i] = op[<<i, f[i - 1]>>] OBVIOUS
    <2> HIDE DEF f
    <2>3. Good(0) BY <2>1, <2>2
    <2> QED BY <2>3
  <1>2. ASSUME NEW k \in 0..(n - 1), k \in S PROVE k + 1 \in S
    <2>1. PICK f \in [0..k -> A] : f[0] = base /\ \A i \in 1..k : f[i] = op[<<i, f[i - 1]>>]
      BY <1>2
    <2> DEFINE g == [i \in 0..(k + 1) |-> IF i = k + 1 THEN op[<<k + 1, f[k]>>] ELSE f[i]]
    <2>2. g \in [0..(k + 1) -> A]
      <3>1. op[<<k + 1, f[k]>>] \in A OBVIOUS
      <3> QED BY <3>1
    <2>3. g[0] = base BY <2>1
    <2>4. ASSUME NEW i \in 1..(k + 1) PROVE g[i] = op[<<i, g[i - 1]>>]
      <3>1. g[i - 1] = f[i - 1] OBVIOUS
      <3>2. CASE i = k + 1
        <4>1. g[i] = op[<<k + 1, f[k]>>] /\ i - 1 = k BY <3>2
        <4> QED BY <3>1, <3>2, <4>1
      <3>3. CASE i # k + 1
        <4>1. i \in 1..k /\ g[i] = f[i] BY <3>3
        <4> QED BY <2>1, <3>1, <4>1
      <3> QED BY <3>2, <3>3
    <2> HIDE DEF g
    <2> QED BY <2>2, <2>3, <2>4
  <1> HIDE DEF S
  <1>3. \A k \in 0..n : k \in S BY <1>1, <1>2, Induction
  <1>4. n \in S BY <1>3
  <1> QED BY <1>4 DEF S, Folds

Alongside(f, g, n) == /\ f[0] = g[0]
                      /\ \A i \in 1..n : f[i - 1] = g[i - 1] => f[i] = g[i]
LEMMA Agree ==
  ASSUME NEW n \in Nat, NEW f, NEW g, Alongside(f, g, n)
  PROVE  f[n] = g[n]
  <1> USE DEF Alongside
  <1> DEFINE S == {k \in Nat : f[k] = g[k]}
  <1>1. 0 \in S OBVIOUS
  <1>2. ASSUME NEW k \in 0..(n - 1), k \in S PROVE k + 1 \in S
    <2>1. k + 1 \in 1..n /\ (k + 1) - 1 = k OBVIOUS
    <2>2. f[k] = g[k] BY <1>2
    <2>3. f[k + 1] = g[k + 1] BY <2>1, <2>2
    <2> QED BY <2>3
  <1> HIDE DEF S
  <1>3. \A k \in 0..n : k \in S BY <1>1, <1>2, Induction
  <1>4. n \in S BY <1>3
  <1> QED BY <1>4 DEF S

LEMMA SeqInduction ==
  ASSUME NEW A, NEW S, <<>> \in S,
         \A s \in Seq(A), e \in A : s \in S => Append(s, e) \in S
  PROVE  Seq(A) \subseteq S
  <1> SUFFICES ASSUME NEW s \in Seq(A) PROVE s \in S OBVIOUS
  <1> DEFINE G == {k \in Nat : \A t \in Seq(A) : Len(t) = k => t \in S}
  <1>1. 0 \in G BY EmptySeq
  <1>2. ASSUME NEW k \in 0..(Len(s) - 1), k \in G PROVE k + 1 \in G
    <2> SUFFICES ASSUME NEW t \in Seq(A), Len(t) = k + 1 PROVE t \in S BY LenProperties
    <2>1. t # <<>> BY <1>2, LenProperties
    <2>2. PICK u \in Seq(A), e \in A : t = Append(u, e) BY <2>1, SequenceEmptyOrAppend
    <2>3. Len(u) = k BY <2>2, AppendProperties
    <2> QED BY <1>2, <2>2, <2>3
  <1> HIDE DEF G
  <1>3. Len(s) \in Nat BY LenProperties
  <1>4. \A k \in 0..Len(s) : k \in G BY <1>1, <1>2, <1>3, Induction
  <1>5. Len(s) \in G BY <1>3, <1>4
  <1> QED BY <1>5 DEF G

-----------------------------------------------------------------------------
(* What the recursive operators of Thread compute, one step at a time.     *)
Selects(f, s, set) ==
    /\ f[0] = <<>> /\ Selected(s, set) = f[Len(s)]
    /\ \A i \in 1..Len(s) :
          f[i] = IF s[i] \in set THEN Append(f[i - 1], s[i]) ELSE f[i - 1]

LEMMA SelectedIs ==
  ASSUME NEW A, NEW s \in Seq(A), NEW set
  PROVE  \E f \in [0..Len(s) -> Seq(A \cap set)] : Selects(f, s, set)
  <1> DEFINE n == Len(s)
             R == Seq(A \cap set)
             Step(i, a) == IF s[i] \in set THEN Append(a, s[i]) ELSE a
             op == [p \in (1..n) \X R |-> Step(p[1], p[2])]
  <1>1. ASSUME NEW i \in 1..n, NEW a \in R PROVE op[<<i, a>>] = Step(i, a) /\ Step(i, a) \in R
    <2>1. s[i] \in A OBVIOUS
    <2>2. Step(i, a) \in R BY <2>1
    <2> QED BY <2>2
  <1>2. n \in Nat /\ <<>> \in R OBVIOUS
  <1> HIDE DEF op, n, R
  <1>3. PICK f \in [0..n -> R] : f[0] = <<>> /\ \A i \in 1..n : f[i] = op[<<i, f[i - 1]>>]
    <2>1. StaysIn(R, n, op) BY <1>1 DEF StaysIn
    <2>2. \E f : Folds(f, R, <<>>, n, op) BY <2>1, <1>2, FoldExists
    <2> QED BY <2>2 DEF Folds
  <1>4. \A i \in 1..n : i - 1 \in 0..n /\ f[i - 1] \in R BY <1>2
  <1>5. \A i \in 1..n : f[i] = Step(i, f[i - 1]) BY <1>1, <1>3, <1>4
  <1> DEFINE F(g) == [i \in 0..n |-> IF i = 0 THEN <<>>
                                     ELSE IF s[i] \in set THEN Append(g[i - 1], s[i])
                                     ELSE g[i - 1]]
             h == CHOOSE g : g = F(g)
  <1>6. f = F(f)
    <2>1. ASSUME NEW i \in 0..n PROVE f[i] = F(f)[i]
      <3>1. CASE i = 0 BY <1>2, <1>3, <3>1
      <3>2. CASE i # 0
        <4>1. i \in 1..n BY <1>2, <3>2
        <4> QED BY <1>5, <3>2, <4>1
      <3> QED BY <3>1, <3>2
    <2> QED BY <2>1
  <1>7. h = F(h) BY <1>6
  <1>8. Selected(s, set) = h[n] BY DEF Selected, n
  <1> HIDE DEF h
  <1>9. h[0] = f[0] BY <1>2, <1>3, <1>7
  <1>10. ASSUME NEW i \in 1..n, h[i - 1] = f[i - 1] PROVE h[i] = f[i]
    <2>1. i \in 0..n /\ i # 0 BY <1>2
    <2>2. h[i] = Step(i, h[i - 1]) BY <1>7, <2>1
    <2> QED BY <1>5, <1>10, <2>2
  <1>11. h[n] = f[n]
    <2>1. Alongside(h, f, n) BY <1>9, <1>10 DEF Alongside
    <2> QED BY <1>2, <2>1, Agree
  <1> QED BY <1>3, <1>5, <1>8, <1>11 DEF n, R, Selects

LEMMA SelectedNone == ASSUME NEW set PROVE Selected(<<>>, set) = <<>>
  <1>1. <<>> \in Seq({}) /\ Len(<<>>) = 0 OBVIOUS
  <1>2. PICK f : Selects(f, <<>>, set) BY <1>1, SelectedIs
  <1> QED BY <1>1, <1>2 DEF Selects

LEMMA SelectedType == ASSUME NEW A, NEW s \in Seq(A), NEW set
                      PROVE  Selected(s, set) \in Seq(A \cap set)
  <1>1. Len(s) \in 0..Len(s) OBVIOUS
  <1>2. PICK f \in [0..Len(s) -> Seq(A \cap set)] : Selects(f, s, set) BY SelectedIs
  <1> QED BY <1>1, <1>2 DEF Selects

LEMMA SelectedIn == ASSUME NEW A, NEW s \in Seq(A), NEW set
                    PROVE  Selected(s, set) \in Seq(set)
  <1>1. Selected(s, set) \in Seq(A \cap set) BY SelectedType
  <1>2. A \cap set \subseteq set OBVIOUS
  <1>3. Seq(A \cap set) \subseteq Seq(set) BY <1>2, SeqMonotonic
  <1> QED BY <1>1, <1>3

LEMMA SelectedAppend ==
  ASSUME NEW A, NEW s \in Seq(A), NEW x \in A, NEW set
  PROVE  Selected(Append(s, x), set) =
             IF x \in set THEN Append(Selected(s, set), x) ELSE Selected(s, set)
  <1> DEFINE n == Len(s)
             t == Append(s, x)
             Step(u, i, a) == IF u[i] \in set THEN Append(a, u[i]) ELSE a
  <1>1. n \in Nat /\ t \in Seq(A) /\ Len(t) = n + 1 /\ t[n + 1] = x
        /\ \A i \in 1..n : t[i] = s[i]
    BY AppendProperties, LenProperties
  <1> HIDE DEF t
  <1>a. PICK f : Selects(f, s, set) BY SelectedIs
  <1>b. PICK g : Selects(g, t, set) BY <1>1, SelectedIs
  <1>2. /\ f[0] = <<>> /\ Selected(s, set) = f[n]
        /\ \A i \in 1..n : f[i] = Step(s, i, f[i - 1])
    BY <1>a DEF Selects
  <1>3. /\ g[0] = <<>> /\ Selected(t, set) = g[n + 1]
        /\ \A i \in 1..n + 1 : g[i] = Step(t, i, g[i - 1])
    BY <1>1, <1>b DEF Selects
  <1> HIDE DEF n
  <1>4. ASSUME NEW i \in 1..n, f[i - 1] = g[i - 1] PROVE f[i] = g[i]
    <2>1. i \in 1..n + 1 BY <1>1
    <2> QED BY <1>1, <1>2, <1>3, <1>4, <2>1
  <1>5. f[n] = g[n]
    <2>1. Alongside(f, g, n) BY <1>2, <1>3, <1>4 DEF Alongside
    <2> QED BY <1>1, <2>1, Agree
  <1>6. g[n + 1] = Step(t, n + 1, g[n])
    <2>1. n + 1 \in 1..n + 1 /\ (n + 1) - 1 = n BY <1>1
    <2> QED BY <1>3, <2>1
  <1> QED BY <1>1, <1>2, <1>3, <1>5, <1>6 DEF t

LEMMA CatAppend ==
  ASSUME NEW A, NEW s \in Seq(A), NEW t \in Seq(A), NEW x \in A
  PROVE  s \o Append(t, x) = Append(s \o t, x)
  <1>1. Append(t, x) = t \o <<x>> /\ <<x>> \in Seq(A) /\ s \o t \in Seq(A)
    BY AppendIsConcat, ConcatProperties
  <1>2. Append(s \o t, x) = (s \o t) \o <<x>> BY <1>1, AppendIsConcat
  <1> QED BY <1>1, <1>2, ConcatAssociative

LEMMA SelectedCat ==
  ASSUME NEW A, NEW s \in Seq(A), NEW t \in Seq(A), NEW set
  PROVE  Selected(s \o t, set) = Selected(s, set) \o Selected(t, set)
  <1> DEFINE S == {u \in Seq(A) : Selected(s \o u, set) = Selected(s, set) \o Selected(u, set)}
             B == A \cap set
  <1>1. Selected(s, set) \in Seq(B) BY SelectedType
  <1>2. <<>> \in S BY <1>1, SelectedNone, ConcatEmptySeq, EmptySeq
  <1>3. ASSUME NEW u \in Seq(A), NEW e \in A, u \in S PROVE Append(u, e) \in S
    <2>1. /\ Append(u, e) \in Seq(A) /\ s \o u \in Seq(A)
          /\ s \o Append(u, e) = Append(s \o u, e)
      BY AppendProperties, ConcatProperties, CatAppend
    <2>2. Selected(u, set) \in Seq(B) BY SelectedType
    <2>3. Selected(s \o u, set) = Selected(s, set) \o Selected(u, set) BY <1>3
    <2>4. Selected(s \o Append(u, e), set) = Selected(s, set) \o Selected(Append(u, e), set)
      <3>1. CASE e \in set
        <4>1. e \in B BY <3>1
        <4>2. Selected(Append(u, e), set) = Append(Selected(u, set), e) BY <3>1, SelectedAppend
        <4>3. Selected(Append(s \o u, e), set) = Append(Selected(s \o u, set), e)
          BY <2>1, <3>1, SelectedAppend
        <4> HIDE DEF B
        <4>4. Selected(s, set) \o Append(Selected(u, set), e)
              = Append(Selected(s, set) \o Selected(u, set), e)
          BY <1>1, <2>2, <4>1, CatAppend
        <4> QED BY <2>1, <2>3, <4>2, <4>3, <4>4
      <3>2. CASE e \notin set
        <4>1. Selected(Append(u, e), set) = Selected(u, set) BY <3>2, SelectedAppend
        <4>2. Selected(Append(s \o u, e), set) = Selected(s \o u, set)
          BY <2>1, <3>2, SelectedAppend
        <4> QED BY <2>1, <2>3, <4>1, <4>2
      <3> QED BY <3>1, <3>2
    <2> QED BY <2>1, <2>4
  <1> HIDE DEF S
  <1>4. t \in S BY <1>2, <1>3, SeqInduction
  <1> QED BY <1>4 DEF S

LEMMA FrontLast ==
  ASSUME NEW A, NEW s \in Seq(A), s # <<>>
  PROVE  Front(s) \in Seq(A) /\ Last(s) \in A /\ s = Append(Front(s), Last(s))
  <1>1. PICK t \in Seq(A), x \in A : s = Append(t, x) BY SequenceEmptyOrAppend
  <1>2. Len(t) \in Nat /\ Len(s) = Len(t) + 1 /\ s[Len(t) + 1] = x
    BY <1>1, AppendProperties, LenProperties
  <1>3. Last(s) = x BY <1>2 DEF Last
  <1>4. Front(s) = SubSeq(s, 1, Len(t)) BY <1>2 DEF Front
  <1>5. SubSeq(s, 1, Len(t)) = t BY <1>1, <1>2
  <1> QED BY <1>1, <1>3, <1>4, <1>5

-----------------------------------------------------------------------------
(* What lines and histories are made of.                                   *)
Kinds == UseKinds \cup ResultKinds \cup {"text", "steer"}
Blocks == [kind : Kinds, id : Nat]
Contents == Seq(Blocks) \ {<<>>}
Messages == [role : {"user", "assistant"}, blocks : Contents]

LEMMA BlockType == ASSUME NEW kind \in Kinds, NEW id \in Nat
                   PROVE  /\ Block(kind, id) \in Blocks
                          /\ Block(kind, id).kind = kind /\ Block(kind, id).id = id
  BY DEF Block, Blocks

LEMMA MessageType ==
  ASSUME NEW role \in {"user", "assistant"}, NEW blocks \in Seq(Blocks), blocks # <<>>
  PROVE  /\ Message(role, blocks) \in Messages
         /\ Message(role, blocks).role = role /\ Message(role, blocks).blocks = blocks
  BY DEF Message, Messages, Contents

LEMMA MessageParts ==
  ASSUME NEW m \in Messages
  PROVE  /\ m.role \in {"user", "assistant"} /\ m.blocks \in Seq(Blocks) /\ m.blocks # <<>>
         /\ m = Message(m.role, m.blocks)
  BY DEF Message, Messages, Contents

LEMMA UserType ==
  ASSUME NEW blocks \in Seq(Blocks), blocks # <<>>
  PROVE  User(blocks) \in Messages /\ User(blocks).role = "user" /\ User(blocks).blocks = blocks
  BY MessageType DEF User

LEMMA CatType ==
  ASSUME NEW a \in Seq(Blocks), NEW b \in Seq(Blocks)
  PROVE  a \o b \in Seq(Blocks) /\ (b # <<>> => a \o b # <<>>) /\ (a # <<>> => a \o b # <<>>)
  BY ConcatProperties, ConcatEqualIffEmpty

SteerBlocks == [kind : {"steer"}, id : Nat]
LEMMA SteersInType == ASSUME NEW b \in Seq(Blocks) PROVE SteersIn(b) \in Seq(Nat)
  <1> DEFINE t == Selected(b, SteerBlocks)
  <1>1. t \in Seq(SteerBlocks) BY SelectedIn
  <1> HIDE DEF t
  <1>2. ASSUME NEW i \in DOMAIN t PROVE t[i].id \in Nat
    <2>1. t[i] \in SteerBlocks BY <1>1
    <2> QED BY <2>1 DEF SteerBlocks
  <1>3. [i \in DOMAIN t |-> t[i].id] \in Seq(Nat) BY <1>1, <1>2
  <1> QED BY <1>3 DEF SteersIn, SteerBlocks, t

LEMMA SteersInCat ==
  ASSUME NEW a \in Seq(Blocks), NEW b \in Seq(Blocks)
  PROVE  SteersIn(a \o b) = SteersIn(a) \o SteersIn(b)
  <1> DEFINE S == SteerBlocks
             s == Selected(a, S)
             t == Selected(b, S)
             Names(u) == [i \in DOMAIN u |-> u[i].id]
  <1>1. s \in Seq(S) /\ t \in Seq(S) BY SelectedIn
  <1>2. Selected(a \o b, S) = s \o t BY SelectedCat
  <1> HIDE DEF s, t, S
  <1>3. Names(s \o t) = Names(s) \o Names(t)
    <2>1. /\ Len(s) \in Nat /\ Len(t) \in Nat /\ Len(s \o t) = Len(s) + Len(t)
          /\ DOMAIN s = 1..Len(s) /\ DOMAIN t = 1..Len(t)
          /\ s \o t \in Seq(S) /\ DOMAIN (s \o t) = 1..(Len(s) + Len(t))
          /\ \A i \in 1..(Len(s) + Len(t)) :
                (s \o t)[i] = IF i <= Len(s) THEN s[i] ELSE t[i - Len(s)]
      BY <1>1, ConcatProperties, LenProperties
    <2> DEFINE p == Names(s)
               q == Names(t)
               r == Names(s \o t)
               B == {s[i].id : i \in DOMAIN s} \cup {t[i].id : i \in DOMAIN t}
    <2>2. p \in Seq(B) /\ Len(p) = Len(s) /\ \A i \in 1..Len(s) : p[i] = s[i].id BY <2>1
    <2>3. q \in Seq(B) /\ Len(q) = Len(t) /\ \A i \in 1..Len(t) : q[i] = t[i].id BY <2>1
    <2>4. r = [i \in 1..(Len(s) + Len(t)) |-> (s \o t)[i].id] BY <2>1
    <2> HIDE DEF p, q, r, B
    <2>5. /\ p \o q \in Seq(B) /\ Len(p \o q) = Len(s) + Len(t)
          /\ \A i \in 1..(Len(s) + Len(t)) :
                (p \o q)[i] = IF i <= Len(s) THEN p[i] ELSE q[i - Len(s)]
      <3>1. /\ p \o q \in Seq(B) /\ Len(p \o q) = Len(p) + Len(q)
            /\ \A i \in 1..(Len(p) + Len(q)) :
                  (p \o q)[i] = IF i <= Len(p) THEN p[i] ELSE q[i - Len(p)]
        <4>1. p \in Seq(B) /\ q \in Seq(B) BY <2>2, <2>3
        <4> QED BY <4>1, ConcatProperties
      <3> QED BY <2>2, <2>3, <3>1
    <2>6. DOMAIN (p \o q) = 1..(Len(s) + Len(t)) BY <2>5, LenProperties
    <2>7. ASSUME NEW i \in 1..(Len(s) + Len(t)) PROVE (p \o q)[i] = (s \o t)[i].id
      <3>1. CASE i <= Len(s) BY <2>1, <2>2, <2>5, <3>1
      <3>2. CASE ~(i <= Len(s))
        <4>1. i - Len(s) \in 1..Len(t) BY <2>1, <3>2
        <4> QED BY <2>1, <2>3, <2>5, <3>2, <4>1
      <3> QED BY <3>1, <3>2
    <2>8. p \o q = [i \in 1..(Len(s) + Len(t)) |-> (s \o t)[i].id] 
      <3>1. p \o q = [i \in DOMAIN (p \o q) |-> (p \o q)[i]]
        <4>1. p \o q \in Seq(B) BY <2>5
        <4> DEFINE w == p \o q
        <4> HIDE DEF w
        <4>2. w \in Seq(B) => w = [i \in DOMAIN w |-> w[i]] OBVIOUS
        <4> QED BY <4>1, <4>2 DEF w
      <3> QED BY <2>6, <2>7, <3>1
    <2> QED BY <2>4, <2>8 DEF p, q, r
  <1> QED BY <1>2, <1>3 DEF SteersIn, SteerBlocks, s, t, S

LEMMA SteersInNone == SteersIn(<<>>) = <<>>
  <1>1. Selected(<<>>, SteerBlocks) = <<>> BY SelectedNone
  <1> QED BY <1>1 DEF SteersIn, SteerBlocks

(* A block that is no steer adds none.                                     *)
LEMMA SteersInOne ==
  ASSUME NEW b \in Blocks
  PROVE  SteersIn(<<b>>) = IF b.kind = "steer" THEN <<b.id>> ELSE <<>>
  <1> DEFINE S == SteerBlocks
  <1>1. <<b>> = Append(<<>>, b) /\ <<>> \in Seq(Blocks) OBVIOUS
  <1>2. Selected(<<b>>, S) = IF b \in S THEN Append(<<>>, b) ELSE <<>>
    <2>1. Selected(<<>>, S) = <<>> BY SelectedNone
    <2>2. Selected(Append(<<>>, b), S) = IF b \in S THEN Append(Selected(<<>>, S), b)
                                                   ELSE Selected(<<>>, S)
      BY <1>1, SelectedAppend
    <2> QED BY <1>1, <2>1, <2>2
  <1>3. b \in S <=> b.kind = "steer" BY DEF Blocks, SteerBlocks
  <1>4. Selected(<<b>>, S) = IF b.kind = "steer" THEN <<b>> ELSE <<>> BY <1>1, <1>2, <1>3
  <1> QED BY <1>4 DEF SteersIn, SteerBlocks

LEMMA NoSteersIn ==
  ASSUME NEW s \in Seq(Blocks), \A i \in DOMAIN s : s[i].kind # "steer"
  PROVE  SteersIn(s) = <<>>
  <1> DEFINE S == [kind : {"steer"}, id : Nat]
             G == {t \in Seq(Blocks) : (\A i \in DOMAIN t : t[i].kind # "steer")
                                           => Selected(t, S) = <<>>}
  <1>1. <<>> \in G BY SelectedNone, EmptySeq
  <1>2. ASSUME NEW t \in Seq(Blocks), NEW b \in Blocks, t \in G PROVE Append(t, b) \in G
    <2>1. Append(t, b) \in Seq(Blocks) BY AppendProperties
    <2> SUFFICES ASSUME \A i \in DOMAIN Append(t, b) : Append(t, b)[i].kind # "steer"
                 PROVE  Selected(Append(t, b), S) = <<>>
      BY <2>1
    <2>2. /\ Len(t) \in Nat /\ DOMAIN t = 1..Len(t) /\ DOMAIN Append(t, b) = 1..(Len(t) + 1)
          /\ Append(t, b)[Len(t) + 1] = b /\ \A i \in 1..Len(t) : Append(t, b)[i] = t[i]
      BY <2>1, AppendProperties, LenProperties
    <2>3. b.kind # "steer" /\ \A i \in DOMAIN t : t[i].kind # "steer" BY <2>2
    <2>4. Selected(t, S) = <<>> BY <1>2, <2>3
    <2>5. b \notin S BY <2>3
    <2> QED BY <2>4, <2>5, SelectedAppend
  <1> HIDE DEF G
  <1>3. s \in G BY <1>1, <1>2, SeqInduction
  <1>4. Selected(s, S) = <<>> BY <1>3 DEF G
  <1> QED BY <1>4 DEF SteersIn

-----------------------------------------------------------------------------
(* The steers of a history, message by message.                            *)
Reads(f, messages) ==
    /\ f[0] = <<>> /\ SteersOf(messages) = f[Len(messages)]
    /\ \A i \in 1..Len(messages) : f[i] = f[i - 1] \o SteersIn(messages[i].blocks)

LEMMA SteersOfIs ==
  ASSUME NEW s \in Seq(Messages)
  PROVE  \E f \in [0..Len(s) -> Seq(Nat)] : Reads(f, s)
  <1> DEFINE n == Len(s)
             R == Seq(Nat)
             Step(i, a) == a \o SteersIn(s[i].blocks)
             op == [p \in (1..n) \X R |-> Step(p[1], p[2])]
  <1>1. ASSUME NEW i \in 1..n, NEW a \in R PROVE op[<<i, a>>] = Step(i, a) /\ Step(i, a) \in R
    <2>1. s[i] \in Messages OBVIOUS
    <2>2. SteersIn(s[i].blocks) \in R BY <2>1, MessageParts, SteersInType
    <2>3. Step(i, a) \in R BY <2>2, ConcatProperties
    <2> QED BY <2>3
  <1>2. n \in Nat /\ <<>> \in R OBVIOUS
  <1> HIDE DEF op, n, R
  <1>3. PICK f \in [0..n -> R] : f[0] = <<>> /\ \A i \in 1..n : f[i] = op[<<i, f[i - 1]>>]
    <2>1. StaysIn(R, n, op) BY <1>1 DEF StaysIn
    <2>2. \E f : Folds(f, R, <<>>, n, op) BY <2>1, <1>2, FoldExists
    <2> QED BY <2>2 DEF Folds
  <1>4. \A i \in 1..n : i - 1 \in 0..n /\ f[i - 1] \in R BY <1>2
  <1>5. \A i \in 1..n : f[i] = Step(i, f[i - 1]) BY <1>1, <1>3, <1>4
  <1> DEFINE F(g) == [i \in 0..n |-> IF i = 0 THEN <<>>
                                     ELSE g[i - 1] \o SteersIn(s[i].blocks)]
             h == CHOOSE g : g = F(g)
  <1>6. f = F(f)
    <2>1. ASSUME NEW i \in 0..n PROVE f[i] = F(f)[i]
      <3>1. CASE i = 0 BY <1>2, <1>3, <3>1
      <3>2. CASE i # 0
        <4>1. i \in 1..n BY <1>2, <3>2
        <4> QED BY <1>5, <3>2, <4>1
      <3> QED BY <3>1, <3>2
    <2> QED BY <2>1
  <1>7. h = F(h) BY <1>6
  <1>8. SteersOf(s) = h[n] BY DEF SteersOf, n
  <1> HIDE DEF h
  <1>9. h[0] = f[0] BY <1>2, <1>3, <1>7
  <1>10. ASSUME NEW i \in 1..n, h[i - 1] = f[i - 1] PROVE h[i] = f[i]
    <2>1. i \in 0..n /\ i # 0 BY <1>2
    <2>2. h[i] = Step(i, h[i - 1]) BY <1>7, <2>1
    <2> QED BY <1>5, <1>10, <2>2
  <1>11. h[n] = f[n]
    <2>1. Alongside(h, f, n) BY <1>9, <1>10 DEF Alongside
    <2> QED BY <1>2, <2>1, Agree
  <1> QED BY <1>3, <1>5, <1>8, <1>11 DEF n, R, Reads

LEMMA SteersOfNone == SteersOf(<<>>) = <<>>
  <1>1. <<>> \in Seq(Messages) /\ Len(<<>>) = 0 OBVIOUS
  <1>2. PICK f : Reads(f, <<>>) BY <1>1, SteersOfIs
  <1> QED BY <1>1, <1>2 DEF Reads

LEMMA SteersOfType == ASSUME NEW s \in Seq(Messages) PROVE SteersOf(s) \in Seq(Nat)
  <1>1. Len(s) \in 0..Len(s) OBVIOUS
  <1>2. PICK f \in [0..Len(s) -> Seq(Nat)] : Reads(f, s) BY SteersOfIs
  <1> QED BY <1>1, <1>2 DEF Reads

LEMMA SteersOfAppend ==
  ASSUME NEW s \in Seq(Messages), NEW m \in Messages
  PROVE  SteersOf(Append(s, m)) = SteersOf(s) \o SteersIn(m.blocks)
  <1> DEFINE n == Len(s)
             t == Append(s, m)
             Step(u, i, a) == a \o SteersIn(u[i].blocks)
  <1>1. n \in Nat /\ t \in Seq(Messages) /\ Len(t) = n + 1 /\ t[n + 1] = m
        /\ \A i \in 1..n : t[i] = s[i]
    BY AppendProperties, LenProperties
  <1> HIDE DEF t
  <1>a. PICK f : Reads(f, s) BY SteersOfIs
  <1>b. PICK g : Reads(g, t) BY <1>1, SteersOfIs
  <1>2. /\ f[0] = <<>> /\ SteersOf(s) = f[n]
        /\ \A i \in 1..n : f[i] = Step(s, i, f[i - 1])
    BY <1>a DEF Reads
  <1>3. /\ g[0] = <<>> /\ SteersOf(t) = g[n + 1]
        /\ \A i \in 1..n + 1 : g[i] = Step(t, i, g[i - 1])
    BY <1>1, <1>b DEF Reads
  <1> HIDE DEF n
  <1>4. ASSUME NEW i \in 1..n, f[i - 1] = g[i - 1] PROVE f[i] = g[i]
    <2>1. i \in 1..n + 1 BY <1>1
    <2> QED BY <1>1, <1>2, <1>3, <1>4, <2>1
  <1>5. f[n] = g[n]
    <2>1. Alongside(f, g, n) BY <1>2, <1>3, <1>4 DEF Alongside
    <2> QED BY <1>1, <2>1, Agree
  <1>6. g[n + 1] = Step(t, n + 1, g[n])
    <2>1. n + 1 \in 1..n + 1 /\ (n + 1) - 1 = n BY <1>1
    <2> QED BY <1>3, <2>1
  <1> QED BY <1>1, <1>2, <1>3, <1>5, <1>6 DEF t

(* Blocks that ride a user turn add their steers at the end.               *)
LEMMA RideFacts ==
  ASSUME NEW s \in Seq(Messages), NEW b \in Seq(Blocks), b # <<>>
  PROVE  /\ Ride(s, b) \in Seq(Messages) /\ Ride(s, b) # <<>>
         /\ SteersOf(Ride(s, b)) = SteersOf(s) \o SteersIn(b)
  <1>1. CASE s # <<>> /\ Last(s).role = "user"
    <2>1. Front(s) \in Seq(Messages) /\ Last(s) \in Messages /\ s = Append(Front(s), Last(s))
      BY <1>1, FrontLast
    <2>2. Last(s).blocks \in Seq(Blocks) BY <2>1, MessageParts
    <2> DEFINE c == Last(s).blocks \o b
    <2>3. c \in Seq(Blocks) /\ c # <<>> BY <2>2, CatType
    <2>4. SteersIn(c) = SteersIn(Last(s).blocks) \o SteersIn(b) BY <2>2, SteersInCat
    <2>5. Ride(s, b) = Append(Front(s), User(c)) BY <1>1 DEF Ride
    <2> HIDE DEF c
    <2>6. User(c) \in Messages /\ User(c).blocks = c BY <2>3, UserType
    <2>7. SteersOf(Ride(s, b)) = SteersOf(Front(s)) \o SteersIn(c)
      BY <2>1, <2>5, <2>6, SteersOfAppend
    <2>8. SteersOf(s) = SteersOf(Front(s)) \o SteersIn(Last(s).blocks)
      BY <2>1, SteersOfAppend
    <2>9. /\ SteersOf(Front(s)) \in Seq(Nat) /\ SteersIn(b) \in Seq(Nat)
          /\ SteersIn(Last(s).blocks) \in Seq(Nat)
      BY <2>1, <2>2, SteersOfType, SteersInType
    <2>10. SteersOf(Ride(s, b)) = SteersOf(s) \o SteersIn(b)
      <3>1. (SteersOf(Front(s)) \o SteersIn(Last(s).blocks)) \o SteersIn(b)
            = SteersOf(Front(s)) \o (SteersIn(Last(s).blocks) \o SteersIn(b))
        BY <2>9, ConcatAssociative
      <3> QED BY <2>4, <2>7, <2>8, <3>1
    <2> QED BY <2>1, <2>5, <2>6, <2>10, AppendProperties
  <1>2. CASE ~(s # <<>> /\ Last(s).role = "user")
    <2>1. Ride(s, b) = Append(s, User(b)) BY <1>2 DEF Ride
    <2>2. User(b) \in Messages /\ User(b).blocks = b BY UserType
    <2>3. SteersOf(Append(s, User(b))) = SteersOf(s) \o SteersIn(b) BY <2>2, SteersOfAppend
    <2> QED BY <2>1, <2>2, <2>3, AppendProperties
  <1> QED BY <1>1, <1>2

-----------------------------------------------------------------------------
(* `coalesce_user_turns` and `repair_messages`, message by message.        *)
Joins(f, s) ==
    /\ f[0] = <<>> /\ Coalesce(s) = f[Len(s)]
    /\ \A i \in 1..Len(s) :
          f[i] = IF s[i].role = "user" THEN Ride(f[i - 1], s[i].blocks)
                                       ELSE Append(f[i - 1], s[i])

LEMMA CoalesceIs ==
  ASSUME NEW s \in Seq(Messages)
  PROVE  \E f \in [0..Len(s) -> Seq(Messages)] : Joins(f, s)
  <1> DEFINE n == Len(s)
             R == Seq(Messages)
             Step(i, a) == IF s[i].role = "user" THEN Ride(a, s[i].blocks) ELSE Append(a, s[i])
             op == [p \in (1..n) \X R |-> Step(p[1], p[2])]
  <1>1. ASSUME NEW i \in 1..n, NEW a \in R PROVE op[<<i, a>>] = Step(i, a) /\ Step(i, a) \in R
    <2>1. s[i] \in Messages OBVIOUS
    <2>2. s[i].blocks \in Seq(Blocks) /\ s[i].blocks # <<>> BY <2>1, MessageParts
    <2>3. Ride(a, s[i].blocks) \in R BY <2>2, RideFacts
    <2>4. Append(a, s[i]) \in R BY <2>1, AppendProperties
    <2> QED BY <2>3, <2>4
  <1>2. n \in Nat /\ <<>> \in R OBVIOUS
  <1> HIDE DEF op, n, R
  <1>3. PICK f \in [0..n -> R] : f[0] = <<>> /\ \A i \in 1..n : f[i] = op[<<i, f[i - 1]>>]
    <2>1. StaysIn(R, n, op) BY <1>1 DEF StaysIn
    <2>2. \E f : Folds(f, R, <<>>, n, op) BY <2>1, <1>2, FoldExists
    <2> QED BY <2>2 DEF Folds
  <1>4. \A i \in 1..n : i - 1 \in 0..n /\ f[i - 1] \in R BY <1>2
  <1>5. \A i \in 1..n : f[i] = Step(i, f[i - 1]) BY <1>1, <1>3, <1>4
  <1> DEFINE F(g) == [i \in 0..n |-> IF i = 0 THEN <<>>
                                     ELSE IF s[i].role = "user" THEN Ride(g[i - 1], s[i].blocks)
                                     ELSE Append(g[i - 1], s[i])]
             h == CHOOSE g : g = F(g)
  <1>6. f = F(f)
    <2>1. ASSUME NEW i \in 0..n PROVE f[i] = F(f)[i]
      <3>1. CASE i = 0 BY <1>2, <1>3, <3>1
      <3>2. CASE i # 0
        <4>1. i \in 1..n BY <1>2, <3>2
        <4> QED BY <1>5, <3>2, <4>1
      <3> QED BY <3>1, <3>2
    <2> QED BY <2>1
  <1>7. h = F(h) BY <1>6
  <1>8. Coalesce(s) = h[n] BY DEF Coalesce, n
  <1> HIDE DEF h
  <1>9. h[0] = f[0] BY <1>2, <1>3, <1>7
  <1>10. ASSUME NEW i \in 1..n, h[i - 1] = f[i - 1] PROVE h[i] = f[i]
    <2>1. i \in 0..n /\ i # 0 BY <1>2
    <2>2. h[i] = Step(i, h[i - 1]) BY <1>7, <2>1
    <2> QED BY <1>5, <1>10, <2>2
  <1>11. h[n] = f[n]
    <2>1. Alongside(h, f, n) BY <1>9, <1>10 DEF Alongside
    <2> QED BY <1>2, <2>1, Agree
  <1> QED BY <1>3, <1>5, <1>8, <1>11 DEF n, R, Joins

(* What the i-th message leaves open.                                      *)
Left(s, i) == IF i = 0 THEN <<>> ELSE Pending(s[i], Answered(s))
Mends(f, s) ==
    /\ f[0] = <<>> /\ Repair(s) = Close(f[Len(s)], Left(s, Len(s)))
    /\ \A i \in 1..Len(s) :
          f[i] = IF s[i].role = "user"
                 THEN Append(f[i - 1], User(Left(s, i - 1) \o s[i].blocks))
                 ELSE Append(Close(f[i - 1], Left(s, i - 1)), s[i])

LEMMA PendingType ==
  ASSUME NEW m \in Messages, NEW answered
  PROVE  /\ Pending(m, answered) \in Seq(Blocks)
         /\ \A i \in DOMAIN Pending(m, answered) :
               Pending(m, answered)[i].kind \in {"reported", "interrupted"}
  <1> DEFINE S == [kind : UseKinds, id : Nat \ answered]
             open == Selected(m.blocks, S)
  <1>1. m.blocks \in Seq(Blocks) BY MessageParts
  <1>2. open \in Seq(S) BY <1>1, SelectedIn
  <1> HIDE DEF open
  <1> DEFINE p == [i \in DOMAIN open |-> SyntheticResult(open[i])]
  <1>3. ASSUME NEW i \in DOMAIN open
        PROVE  SyntheticResult(open[i]) \in Blocks
               /\ SyntheticResult(open[i]).kind \in {"reported", "interrupted"}
    <2>1. open[i] \in S
      <3> HIDE DEF S
      <3> QED BY <1>2
    <2>2. open[i].id \in Nat BY <2>1
    <2> QED BY <2>2, BlockType DEF SyntheticResult, Kinds, ResultKinds
  <1>4. p \in Seq(Blocks) BY <1>2, <1>3
  <1>5. \A i \in DOMAIN p : p[i].kind \in {"reported", "interrupted"} BY <1>3
  <1>6. Pending(m, answered) = IF m.role = "assistant" THEN p ELSE <<>>
    BY DEF Pending, open
  <1> HIDE DEF p
  <1>7. CASE m.role = "assistant" BY <1>4, <1>5, <1>6, <1>7
  <1>8. CASE m.role # "assistant" BY <1>6, <1>8
  <1> QED BY <1>7, <1>8

LEMMA LeftType ==
  ASSUME NEW s \in Seq(Messages), NEW i \in 0..Len(s)
  PROVE  /\ Left(s, i) \in Seq(Blocks) /\ SteersIn(Left(s, i)) = <<>>
         /\ \A k \in DOMAIN Left(s, i) : Left(s, i)[k].kind \in {"reported", "interrupted"}
  <1>1. CASE i = 0
    <2>1. Left(s, i) = <<>> BY <1>1 DEF Left
    <2>2. SteersIn(<<>>) = <<>> BY SteersInNone
    <2> QED BY <2>1, <2>2
  <1>2. CASE i # 0
    <2>1. s[i] \in Messages BY <1>2
    <2>2. Left(s, i) = Pending(s[i], Answered(s)) BY <1>2 DEF Left
    <2>3. /\ Left(s, i) \in Seq(Blocks)
          /\ \A k \in DOMAIN Left(s, i) : Left(s, i)[k].kind \in {"reported", "interrupted"}
      BY <2>1, <2>2, PendingType
    <2>4. \A k \in DOMAIN Left(s, i) : Left(s, i)[k].kind # "steer" BY <2>3
    <2> QED BY <2>3, <2>4, NoSteersIn
  <1> QED BY <1>1, <1>2

LEMMA CloseFacts ==
  ASSUME NEW s \in Seq(Messages), NEW p \in Seq(Blocks), SteersIn(p) = <<>>
  PROVE  Close(s, p) \in Seq(Messages) /\ SteersOf(Close(s, p)) = SteersOf(s)
  <1>1. CASE p = <<>> BY <1>1 DEF Close
  <1>2. CASE p # <<>>
    <2>1. User(p) \in Messages /\ User(p).blocks = p BY <1>2, UserType
    <2>2. Close(s, p) = Append(s, User(p)) BY <1>2 DEF Close
    <2>3. SteersOf(Close(s, p)) = SteersOf(s) \o <<>> BY <2>1, <2>2, SteersOfAppend
    <2>4. SteersOf(s) \o <<>> = SteersOf(s) BY SteersOfType, ConcatEmptySeq
    <2> QED BY <2>1, <2>2, <2>3, <2>4, AppendProperties
  <1> QED BY <1>1, <1>2

LEMMA RepairIs ==
  ASSUME NEW s \in Seq(Messages)
  PROVE  \E f \in [0..Len(s) -> Seq(Messages)] : Mends(f, s)
  <1> DEFINE n == Len(s)
             R == Seq(Messages)
             Step(i, a) == IF s[i].role = "user"
                           THEN Append(a, User(Left(s, i - 1) \o s[i].blocks))
                           ELSE Append(Close(a, Left(s, i - 1)), s[i])
             op == [p \in (1..n) \X R |-> Step(p[1], p[2])]
  <1>1. ASSUME NEW i \in 1..n, NEW a \in R PROVE op[<<i, a>>] = Step(i, a) /\ Step(i, a) \in R
    <2>1. s[i] \in Messages /\ i - 1 \in 0..Len(s) OBVIOUS
    <2>2. s[i].blocks \in Seq(Blocks) /\ s[i].blocks # <<>> BY <2>1, MessageParts
    <2>3. Left(s, i - 1) \in Seq(Blocks) /\ SteersIn(Left(s, i - 1)) = <<>> BY <2>1, LeftType
    <2>4. User(Left(s, i - 1) \o s[i].blocks) \in Messages BY <2>2, <2>3, CatType, UserType
    <2>5. Close(a, Left(s, i - 1)) \in R BY <2>3, CloseFacts
    <2>6. Step(i, a) \in R BY <2>1, <2>4, <2>5, AppendProperties
    <2> QED BY <2>6
  <1>2. n \in Nat /\ <<>> \in R OBVIOUS
  <1> HIDE DEF op, n, R
  <1>3. PICK f \in [0..n -> R] : f[0] = <<>> /\ \A i \in 1..n : f[i] = op[<<i, f[i - 1]>>]
    <2>1. StaysIn(R, n, op) BY <1>1 DEF StaysIn
    <2>2. \E f : Folds(f, R, <<>>, n, op) BY <2>1, <1>2, FoldExists
    <2> QED BY <2>2 DEF Folds
  <1>4. \A i \in 1..n : i - 1 \in 0..n /\ f[i - 1] \in R BY <1>2
  <1>5. \A i \in 1..n : f[i] = Step(i, f[i - 1]) BY <1>1, <1>3, <1>4
  <1> DEFINE left(i) == IF i = 0 THEN <<>> ELSE Pending(s[i], Answered(s))
             F(g) == [i \in 0..n |->
                        IF i = 0 THEN <<>>
                        ELSE IF s[i].role = "user"
                        THEN Append(g[i - 1], User(left(i - 1) \o s[i].blocks))
                        ELSE Append(Close(g[i - 1], left(i - 1)), s[i])]
             h == CHOOSE g : g = F(g)
  <1>6. f = F(f)
    <2>1. ASSUME NEW i \in 0..n PROVE f[i] = F(f)[i]
      <3>1. CASE i = 0 BY <1>2, <1>3, <3>1
      <3>2. CASE i # 0
        <4>1. i \in 1..n BY <1>2, <3>2
        <4> QED BY <1>5, <3>2, <4>1 DEF Left
      <3> QED BY <3>1, <3>2
    <2> QED BY <2>1
  <1>7. h = F(h) BY <1>6
  <1>8. Repair(s) = Close(h[n], left(n)) BY DEF Repair, n
  <1> HIDE DEF h
  <1>9. h[0] = f[0] BY <1>2, <1>3, <1>7
  <1>10. ASSUME NEW i \in 1..n, h[i - 1] = f[i - 1] PROVE h[i] = f[i]
    <2>1. i \in 0..n /\ i # 0 BY <1>2
    <2>2. h[i] = Step(i, h[i - 1]) BY <1>7, <2>1 DEF Left
    <2> QED BY <1>5, <1>10, <2>2
  <1>11. h[n] = f[n]
    <2>1. Alongside(h, f, n) BY <1>9, <1>10 DEF Alongside
    <2> QED BY <1>2, <2>1, Agree
  <1>12. Repair(s) = Close(f[n], Left(s, n)) BY <1>8, <1>11 DEF Left
  <1> QED BY <1>3, <1>5, <1>12 DEF n, R, Mends

-----------------------------------------------------------------------------
(* A replay reads the same steers as the lines it is made from.            *)
LEMMA RepairFacts ==
  ASSUME NEW s \in Seq(Messages)
  PROVE  Repair(s) \in Seq(Messages) /\ SteersOf(Repair(s)) = SteersOf(s)
  <1> DEFINE n == Len(s)
  <1>1. n \in Nat BY LenProperties
  <1>2. PICK f \in [0..n -> Seq(Messages)] : Mends(f, s) BY RepairIs
  <1>3. PICK g \in [0..n -> Seq(Nat)] : Reads(g, s) BY SteersOfIs
  <1> HIDE DEF n
  <1> DEFINE h == [i \in 0..n |-> SteersOf(f[i])]
  <1>4. ASSUME NEW i \in 1..n, h[i - 1] = g[i - 1] PROVE h[i] = g[i]
    <2>1. i - 1 \in 0..n /\ i \in 0..n BY <1>1
    <2>2. s[i] \in Messages /\ i - 1 \in 0..Len(s) BY <1>1 DEF n
    <2>3. s[i].blocks \in Seq(Blocks) /\ s[i].blocks # <<>> BY <2>2, MessageParts
    <2> DEFINE p == Left(s, i - 1)
    <2>4. p \in Seq(Blocks) /\ SteersIn(p) = <<>> BY <2>2, LeftType
    <2>5. f[i - 1] \in Seq(Messages) /\ g[i] = g[i - 1] \o SteersIn(s[i].blocks)
      BY <1>3, <2>1 DEF Reads, n
    <2>6. f[i] = IF s[i].role = "user" THEN Append(f[i - 1], User(p \o s[i].blocks))
                                       ELSE Append(Close(f[i - 1], p), s[i])
      BY <1>2 DEF Mends, n
    <2> HIDE DEF p
    <2>7. SteersOf(f[i]) = SteersOf(f[i - 1]) \o SteersIn(s[i].blocks)
      <3>1. CASE s[i].role = "user"
        <4> DEFINE c == p \o s[i].blocks
        <4>1. c \in Seq(Blocks) /\ c # <<>> BY <2>3, <2>4, CatType
        <4>2. SteersIn(c) = SteersIn(s[i].blocks)
          <5>1. SteersIn(c) = <<>> \o SteersIn(s[i].blocks) BY <2>3, <2>4, SteersInCat
          <5> QED BY <5>1, <2>3, SteersInType, ConcatEmptySeq
        <4> HIDE DEF c
        <4>3. User(c) \in Messages /\ User(c).blocks = c BY <4>1, UserType
        <4>4. f[i] = Append(f[i - 1], User(c)) BY <2>6, <3>1 DEF c
        <4> QED BY <2>5, <4>2, <4>3, <4>4, SteersOfAppend
      <3>2. CASE s[i].role # "user"
        <4>1. Close(f[i - 1], p) \in Seq(Messages)
              /\ SteersOf(Close(f[i - 1], p)) = SteersOf(f[i - 1])
          BY <2>4, <2>5, CloseFacts
        <4>2. f[i] = Append(Close(f[i - 1], p), s[i]) BY <2>6, <3>2
        <4> QED BY <2>2, <4>1, <4>2, SteersOfAppend
      <3> QED BY <3>1, <3>2
    <2> QED BY <1>4, <2>1, <2>5, <2>7
  <1>5. h[0] = g[0] BY <1>1, <1>2, <1>3, SteersOfNone DEF Mends, Reads
  <1> HIDE DEF h
  <1>6. h[n] = g[n]
    <2>1. Alongside(h, g, n) BY <1>4, <1>5 DEF Alongside
    <2> QED BY <1>1, <2>1, Agree
  <1>7. SteersOf(f[n]) = SteersOf(s) /\ f[n] \in Seq(Messages)
    BY <1>1, <1>3, <1>6 DEF h, Reads, n
  <1>8. n \in 0..Len(s) /\ Repair(s) = Close(f[n], Left(s, n)) BY <1>1, <1>2 DEF Mends, n
  <1>9. Left(s, n) \in Seq(Blocks) /\ SteersIn(Left(s, n)) = <<>> BY <1>8, LeftType
  <1> QED BY <1>7, <1>8, <1>9, CloseFacts

LEMMA CoalesceFacts ==
  ASSUME NEW s \in Seq(Messages)
  PROVE  Coalesce(s) \in Seq(Messages) /\ SteersOf(Coalesce(s)) = SteersOf(s)
  <1> DEFINE n == Len(s)
  <1>1. n \in Nat BY LenProperties
  <1>2. PICK f \in [0..n -> Seq(Messages)] : Joins(f, s) BY CoalesceIs
  <1>3. PICK g \in [0..n -> Seq(Nat)] : Reads(g, s) BY SteersOfIs
  <1> HIDE DEF n
  <1> DEFINE h == [i \in 0..n |-> SteersOf(f[i])]
  <1>4. ASSUME NEW i \in 1..n, h[i - 1] = g[i - 1] PROVE h[i] = g[i]
    <2>1. i - 1 \in 0..n /\ i \in 0..n BY <1>1
    <2>2. s[i] \in Messages BY <1>1 DEF n
    <2>3. s[i].blocks \in Seq(Blocks) /\ s[i].blocks # <<>> BY <2>2, MessageParts
    <2>4. f[i - 1] \in Seq(Messages) /\ g[i] = g[i - 1] \o SteersIn(s[i].blocks)
      BY <1>3, <2>1 DEF Reads, n
    <2>5. f[i] = IF s[i].role = "user" THEN Ride(f[i - 1], s[i].blocks)
                                       ELSE Append(f[i - 1], s[i])
      BY <1>2 DEF Joins, n
    <2>6. SteersOf(f[i]) = SteersOf(f[i - 1]) \o SteersIn(s[i].blocks)
      <3>1. CASE s[i].role = "user" BY <2>3, <2>4, <2>5, <3>1, RideFacts
      <3>2. CASE s[i].role # "user" BY <2>2, <2>4, <2>5, <3>2, SteersOfAppend
      <3> QED BY <3>1, <3>2
    <2> QED BY <1>4, <2>1, <2>4, <2>6
  <1>5. h[0] = g[0] BY <1>1, <1>2, <1>3, SteersOfNone DEF Joins, Reads
  <1> HIDE DEF h
  <1>6. h[n] = g[n]
    <2>1. Alongside(h, g, n) BY <1>4, <1>5 DEF Alongside
    <2> QED BY <1>1, <2>1, Agree
  <1> QED BY <1>1, <1>2, <1>3, <1>6 DEF h, Reads, Joins, n

LineType == [role : {"user", "assistant", "none"}, blocks : Seq(Blocks),
             steer : {0} \cup Steers, whole : BOOLEAN]
LinesOK(lines) ==
    /\ lines \in Seq(LineType)
    /\ \A i \in DOMAIN lines :
          lines[i].whole => lines[i].role # "none" /\ lines[i].blocks # <<>>

LEMMA ReadType ==
  ASSUME NEW lines, LinesOK(lines), Parses(lines)
  PROVE  ReadMessages(lines) \in Seq(Messages)
  <1> DEFINE w == WholeLines(lines)
  <1>1. lines \in Seq(LineType) /\ Len(lines) \in Nat /\ DOMAIN lines = 1..Len(lines)
    BY DEF LinesOK
  <1>2. /\ w \in Seq(LineType)
        /\ \A i \in DOMAIN w : w[i].whole /\ i \in DOMAIN lines /\ w[i] = lines[i]
    <2>1. CASE lines # <<>> /\ ~Last(lines).whole
      <3>1. w = SubSeq(lines, 1, Len(lines) - 1) BY <2>1 DEF WholeLines, Front
      <3>2. /\ Len(lines) - 1 \in Nat /\ w \in Seq(LineType) /\ Len(w) = Len(lines) - 1
            /\ \A i \in 1..Len(lines) - 1 : w[i] = lines[i]
        BY <1>1, <2>1, <3>1
      <3>3. DOMAIN w = 1..Len(lines) - 1 BY <3>2
      <3>4. ASSUME NEW i \in 1..Len(lines) - 1
            PROVE  i \in 1..Len(lines) /\ i # Len(lines) /\ lines[i].whole
        <4>1. i \in 1..Len(lines) /\ i # Len(lines)
          <5>1. PICK n \in Nat : n = Len(lines) BY <1>1
          <5>2. \A k \in 1..n - 1 : k \in 1..n /\ k # n OBVIOUS
          <5> QED BY <5>1, <5>2
        <4> QED BY <1>1, <4>1 DEF Parses
      <3> QED BY <1>1, <3>2, <3>3, <3>4
    <2>2. CASE lines = <<>> BY <1>1, <2>2 DEF WholeLines
    <2>3. CASE lines # <<>> /\ Last(lines).whole
      <3>1. w = lines BY <2>3 DEF WholeLines
      <3> QED BY <1>1, <2>3, <3>1 DEF Parses, Last
    <2> QED BY <2>1, <2>2, <2>3
  <1> HIDE DEF w
  <1> DEFINE r == [i \in DOMAIN w |-> Message(w[i].role, w[i].blocks)]
  <1>3. ASSUME NEW i \in DOMAIN w PROVE Message(w[i].role, w[i].blocks) \in Messages
    <2>1. w[i] \in LineType /\ w[i].role # "none" /\ w[i].blocks # <<>> BY <1>2 DEF LinesOK
    <2>2. w[i].role \in {"user", "assistant"} /\ w[i].blocks \in Seq(Blocks) BY <2>1 DEF LineType
    <2> QED BY <2>1, <2>2, MessageType
  <1>4. r \in Seq(Messages) BY <1>2, <1>3
  <1> QED BY <1>4 DEF ReadMessages, w

LEMMA ReplayFacts ==
  ASSUME NEW lines, LinesOK(lines), Parses(lines)
  PROVE  /\ Replay(lines) \in Seq(Messages)
         /\ SteersOf(Replay(lines)) = SteersOf(ReadMessages(lines))
  BY ReadType, RepairFacts, CoalesceFacts DEF Replay

-----------------------------------------------------------------------------
(* Types: what holds of every state, torn Threads included.                *)
DiskOK(d) ==
    /\ d = [lines |-> d.lines, open |-> d.open]
    /\ LinesOK(d.lines)
    /\ d.open \in BOOLEAN
    /\ d.open => d.lines # <<>>
FilesOK ==
    /\ queue \subseteq LandedIn /\ acked \subseteq LandedIn /\ logged \subseteq Steers
    /\ queue \cap acked = {}
WorkerType == [pc : WorkerPCs, messages : Seq(Messages),
               known : SUBSET Steers, listing : SUBSET Steers]
WorkerOK ==
    /\ worker \in WorkerType
    /\ worker.listing \subseteq queue
    /\ worker.pc = "answered" => worker.messages # <<>>
    /\ worker.pc = "flushed" => worker.listing # {}
    /\ worker.pc = "off" => worker.listing = {}
    /\ status # "running" => worker.pc = "off"
SenderType == [Steers -> [pc : SenderPCs, after : SUBSET Steers]]
CountsOK ==
    /\ status \in {"queued", "running", "interrupted", "done"}
    /\ turns \in 0..MaxTurns /\ runs \in 0..MaxRuns
    /\ seen \in Seq(Messages)
Typed == DiskOK(disk) /\ FilesOK /\ WorkerOK /\ sender \in SenderType /\ CountsOK

LineOK(line) == line \in LineType /\ (line.whole => line.role # "none" /\ line.blocks # <<>>)

LEMMA LineFacts ==
  ASSUME NEW role \in {"user", "assistant"}, NEW blocks \in Seq(Blocks), blocks # <<>>
  PROVE  /\ LineOK(Line(role, blocks)) /\ Line(role, blocks).whole
         /\ Line(role, blocks).steer = 0
         /\ Line(role, blocks).role = role /\ Line(role, blocks).blocks = blocks
  BY DEF Line, LineOK, LineType

LEMMA SteerLineFacts ==
  ASSUME NEW n \in Steers
  PROVE  /\ LineOK(SteerLine(n)) /\ SteerLine(n).whole /\ SteerLine(n).role = "user"
         /\ SteerLine(n).steer = n /\ SteerLine(n).blocks = <<Block("steer", n)>>
         /\ SteerLine(n).blocks \in Seq(Blocks) /\ SteerLine(n).blocks # <<>>
         /\ SteersIn(SteerLine(n).blocks) = <<n>>
  <1>1. n \in Nat /\ "steer" \in Kinds BY BoundsAssumption DEF Steers, Kinds
  <1>2. Block("steer", n) \in Blocks /\ Block("steer", n).kind = "steer" /\ Block("steer", n).id = n
    BY <1>1, BlockType
  <1> DEFINE b == <<Block("steer", n)>>
  <1>3. SteersIn(b) = <<n>> BY <1>2, SteersInOne
  <1>6. b \in Seq(Blocks) /\ b # <<>> BY <1>2
  <1> DEFINE l == Line("user", b)
  <1>4. LineOK(l) /\ l.whole /\ l.role = "user" /\ l.blocks = b
    <2> HIDE DEF b
    <2> QED BY <1>6, LineFacts
  <1>7. SteerLine(n) = [l EXCEPT !.steer = n] BY DEF SteerLine
  <1> HIDE DEF b, l
  <1>5. /\ LineOK(SteerLine(n)) /\ SteerLine(n).whole /\ SteerLine(n).role = "user"
        /\ SteerLine(n).steer = n /\ SteerLine(n).blocks = b
    BY <1>1, <1>4, <1>6, <1>7 DEF LineOK, LineType
  <1> QED BY <1>3, <1>5, <1>6 DEF b

LEMMA BrokenFacts == LineOK(Broken) /\ ~Broken.whole
  <1> DEFINE l == Line("none", <<>>)
  <1>1. /\ l \in LineType /\ Broken = [l EXCEPT !.whole = FALSE]
    <2>1. <<>> \in Seq(Blocks) OBVIOUS
    <2> QED BY <2>1 DEF Line, LineType, Broken
  <1> HIDE DEF l
  <1> QED BY <1>1 DEF LineOK, LineType

LEMMA LinesAppend ==
  ASSUME NEW lines, LinesOK(lines), NEW line, LineOK(line)
  PROVE  LinesOK(Append(lines, line)) /\ Append(lines, line) # <<>>
  <1>1. lines \in Seq(LineType) /\ line \in LineType BY DEF LinesOK, LineOK
  <1>2. /\ Append(lines, line) \in Seq(LineType) /\ Append(lines, line) # <<>>
        /\ Len(lines) \in Nat /\ DOMAIN Append(lines, line) = 1..(Len(lines) + 1)
        /\ DOMAIN lines = 1..Len(lines)
        /\ Append(lines, line)[Len(lines) + 1] = line
        /\ \A i \in 1..Len(lines) : Append(lines, line)[i] = lines[i]
    BY <1>1, AppendProperties, LenProperties
  <1>3. ASSUME NEW i \in DOMAIN Append(lines, line), Append(lines, line)[i].whole
        PROVE  Append(lines, line)[i].role # "none" /\ Append(lines, line)[i].blocks # <<>>
    BY <1>2, <1>3 DEF LinesOK, LineOK
  <1> QED BY <1>2, <1>3 DEF LinesOK

LEMMA LinesFront ==
  ASSUME NEW lines, LinesOK(lines), lines # <<>>
  PROVE  LinesOK(Front(lines))
  <1>1. lines \in Seq(LineType) BY DEF LinesOK
  <1>2. Front(lines) \in Seq(LineType) /\ lines = Append(Front(lines), Last(lines))
    BY <1>1, FrontLast
  <1> DEFINE u == Front(lines)
  <1> HIDE DEF u
  <1>3. PICK n \in Nat : n = Len(u) BY <1>2 DEF u
  <1>4. /\ DOMAIN u = 1..n /\ DOMAIN lines = 1..n + 1
        /\ \A i \in 1..n : lines[i] = u[i]
    BY <1>1, <1>2, <1>3, AppendProperties, LenProperties DEF u
  <1>5. \A i \in DOMAIN u : i \in DOMAIN lines /\ u[i] = lines[i] BY <1>4
  <1> QED BY <1>2, <1>5 DEF LinesOK, u

LEMMA WriteOK ==
  ASSUME NEW d, DiskOK(d), NEW line, LineOK(line)
  PROVE  DiskOK(Write(d, line)) /\ Write(d, line).lines # <<>>
  <1> DEFINE w == Write(d, line)
  <1>1. w = [lines |-> w.lines, open |-> FALSE] /\ w.open = FALSE BY DEF Write
  <1>2. w.lines = IF d.open THEN Append(Front(d.lines), Broken) ELSE Append(d.lines, line)
    BY DEF Write
  <1> HIDE DEF w
  <1>3. LinesOK(w.lines) /\ w.lines # <<>>
    <2>1. CASE d.open BY <1>2, <2>1, LinesFront, LinesAppend, BrokenFacts DEF DiskOK
    <2>2. CASE ~d.open BY <1>2, <2>2, LinesAppend DEF DiskOK
    <2> QED BY <2>1, <2>2
  <1>4. DiskOK(w) BY <1>1, <1>3 DEF DiskOK
  <1> QED BY <1>3, <1>4 DEF w

LEMMA TornOK ==
  ASSUME NEW d, DiskOK(d), NEW line, LineOK(line), NEW e \in Torn(d, line)
  PROVE  DiskOK(e)
  <1>1. CASE e = d BY <1>1
  <1>2. CASE e # d
    <2>1. PICK part \in {Broken, line} : e = [Write(d, part) EXCEPT !.open = TRUE]
      BY <1>2 DEF Torn
    <2> DEFINE w == Write(d, part)
    <2>2. LineOK(part) BY <2>1, BrokenFacts
    <2>3. DiskOK(w) /\ w.lines # <<>> BY <2>2, WriteOK
    <2>4. w = [lines |-> w.lines, open |-> w.open] BY <2>3 DEF DiskOK
    <2> HIDE DEF w
    <2>5. e = [lines |-> w.lines, open |-> TRUE] BY <2>1, <2>4 DEF w
    <2> QED BY <2>3, <2>5 DEF DiskOK
  <1> QED BY <1>1, <1>2

LEMMA TextType == Text \in Blocks /\ Text.kind = "text" /\ <<Text>> \in Seq(Blocks)
                  /\ <<Text>> # <<>> /\ SteersIn(<<Text>>) = <<>>
  <1>1. Text \in Blocks /\ Text.kind = "text"
    <2>1. "text" \in Kinds /\ 0 \in Nat BY DEF Kinds
    <2> QED BY <2>1, BlockType DEF Text
  <1>2. SteersIn(<<Text>>) = <<>> BY <1>1, SteersInOne
  <1> QED BY <1>1, <1>2

LEMMA TurnContentsType ==
  ASSUME NEW t \in Nat, NEW blocks \in TurnContents(t)
  PROVE  /\ blocks \in Seq(Blocks) /\ blocks # <<>> /\ SteersIn(blocks) = <<>>
         /\ \A i \in DOMAIN blocks : blocks[i].kind \in {"text"} \cup UseKinds
  <1> DEFINE x == Block("tool_use", 10 * t + 1)
             y == Block("tool_use", 10 * t + 2)
             p == Block("report_result", 10 * t + 1)
             q == Block("report_result", 10 * t + 2)
             B == {b \in Blocks : b.kind \in {"text"} \cup UseKinds}
  <1>1. x \in B /\ y \in B /\ p \in B /\ q \in B /\ Text \in B
    <2>1. 10 * t + 1 \in Nat /\ 10 * t + 2 \in Nat /\ UseKinds \subseteq Kinds BY DEF Kinds
    <2> QED BY <2>1, BlockType, TextType DEF UseKinds
  <1>2. blocks \in {<<Text>>, <<x>>, <<x, y>>, <<p>>, <<x, q>>} BY DEF TurnContents
  <1> HIDE DEF x, y, p, q
  <1>3. blocks \in Seq(B) /\ blocks # <<>>
    <2> HIDE DEF B
    <2>1. \A a \in B : <<a>> \in Seq(B) /\ <<a>> # <<>> OBVIOUS
    <2>2. \A a, b \in B : <<a, b>> \in Seq(B) /\ <<a, b>> # <<>> OBVIOUS
    <2> QED BY <1>1, <1>2, <2>1, <2>2
  <1>4. \A i \in DOMAIN blocks : blocks[i] \in B
    <2> HIDE DEF B
    <2> QED BY <1>3
  <1>5. blocks \in Seq(Blocks)
    <2>1. B \subseteq Blocks OBVIOUS
    <2> HIDE DEF B
    <2>2. Seq(B) \subseteq Seq(Blocks) BY <2>1, SeqMonotonic
    <2> QED BY <1>3, <2>2
  <1>6. \A i \in DOMAIN blocks : blocks[i].kind \in {"text"} \cup UseKinds BY <1>4
  <1>7. \A i \in DOMAIN blocks : blocks[i].kind # "steer" BY <1>6 DEF UseKinds
  <1> QED BY <1>3, <1>5, <1>6, <1>7, NoSteersIn

LEMMA ResultsType ==
  ASSUME NEW blocks \in Seq(Blocks), NEW kinds
  PROVE  /\ Results(blocks, kinds) \in Seq(Blocks) /\ SteersIn(Results(blocks, kinds)) = <<>>
         /\ \A i \in DOMAIN Results(blocks, kinds) : Results(blocks, kinds)[i].kind = "tool_result"
  <1> DEFINE S == [kind : kinds, id : Nat]
             uses == Selected(blocks, S)
  <1>1. uses \in Seq(S) BY SelectedIn
  <1> HIDE DEF uses
  <1> DEFINE r == [i \in DOMAIN uses |-> Block("tool_result", uses[i].id)]
  <1>2. ASSUME NEW i \in DOMAIN uses
        PROVE  Block("tool_result", uses[i].id) \in Blocks
               /\ Block("tool_result", uses[i].id).kind = "tool_result"
    <2>1. uses[i] \in S
      <3> HIDE DEF S
      <3> QED BY <1>1
    <2>2. uses[i].id \in Nat BY <2>1
    <2> QED BY <2>2, BlockType DEF Kinds, ResultKinds
  <1>3. r \in Seq(Blocks) BY <1>1, <1>2
  <1>4. \A i \in DOMAIN r : r[i].kind = "tool_result" BY <1>2
  <1>5. Results(blocks, kinds) = r BY DEF Results, uses
  <1> HIDE DEF r
  <1>6. \A i \in DOMAIN r : r[i].kind # "steer" BY <1>4
  <1> QED BY <1>3, <1>4, <1>5, <1>6, NoSteersIn

LEMMA AnswerType ==
  ASSUME WorkerOK, worker.pc = "answered", NEW accepted \in BOOLEAN
  PROVE  /\ LastTurn \in Seq(Blocks)
         /\ Answer(accepted) \in Seq(Blocks) /\ SteersIn(Answer(accepted)) = <<>>
         /\ ~accepted => Answer(accepted) # <<>>
  <1>1. LastTurn \in Seq(Blocks)
    <2>1. worker.messages \in Seq(Messages) /\ worker.messages # <<>>
      BY DEF WorkerOK, WorkerType
    <2>2. Last(worker.messages) \in Messages BY <2>1, FrontLast
    <2> QED BY <2>2, MessageParts DEF LastTurn
  <1> DEFINE all == Results(LastTurn, UseKinds)
             siblings == Results(LastTurn, {"tool_use"})
  <1>2. all \in Seq(Blocks) /\ SteersIn(all) = <<>> BY <1>1, ResultsType
  <1>3. siblings \in Seq(Blocks) /\ SteersIn(siblings) = <<>> BY <1>1, ResultsType
  <1>4. Answer(accepted) = IF accepted THEN siblings
                           ELSE IF all = <<>> THEN <<Text>> ELSE all
    BY DEF Answer
  <1> HIDE DEF all, siblings
  <1> QED BY <1>1, <1>2, <1>3, <1>4, TextType

LEMMA EldestIs ==
  ASSUME WorkerOK, worker.listing # {}
  PROVE  /\ Eldest \in worker.listing /\ Eldest \in Steers /\ Eldest \in queue
         /\ \A m \in worker.listing : Eldest <= m
  <1>1. worker.listing \subseteq Steers /\ worker.listing \subseteq queue
    BY DEF WorkerOK, WorkerType
  <1>2. Steers \subseteq Nat BY BoundsAssumption DEF Steers
  <1>3. \E n \in worker.listing : \A m \in worker.listing : n <= m BY <1>1, <1>2, LeastOf
  <1> QED BY <1>1, <1>3 DEF Eldest

(* The records that may come next: what they are, and of which role.       *)
LEMMA NextLinesFacts ==
  ASSUME Typed, NEW line \in NextLines
  PROVE  /\ LineOK(line) /\ line.whole
         /\ line.blocks \in Seq(Blocks) /\ line.blocks # <<>>
         /\ worker.pc # "calling" => line.role = "user"
         /\ worker.pc = "calling" =>
                turns < MaxTurns /\ line.role = "assistant" /\ SteersIn(line.blocks) = <<>>
         /\ Injecting => line = SteerLine(Eldest)
         /\ ~Injecting => line.steer = 0
         /\ worker.pc = "answered" =>
               \E accepted \in Acceptance : line = Line("user", Answer(accepted))
         /\ worker.pc = "seeded" => line = Line("user", <<Text>>)
  <1> USE DEF Typed
  <1>1. CASE worker.pc = "seeded"
    <2>1. ~Injecting BY <1>1 DEF Injecting
    <2>2. line = Line("user", <<Text>>) BY <1>1, <2>1 DEF NextLines
    <2> QED BY <1>1, <2>1, <2>2, TextType, LineFacts
  <1>2. CASE Injecting
    <2>1. worker.pc = "draining" /\ worker.listing # {} BY <1>2 DEF Injecting
    <2>2. line = SteerLine(Eldest) BY <1>2, <2>1 DEF NextLines
    <2>3. Eldest \in Steers BY <2>1, EldestIs
    <2> QED BY <1>2, <2>1, <2>2, <2>3, SteerLineFacts
  <1>3. CASE worker.pc = "calling"
    <2>1. ~Injecting BY <1>3 DEF Injecting
    <2>2. turns < MaxTurns /\ line \in {Line("assistant", blocks) : blocks \in TurnContents(turns + 1)}
      BY <1>3, <2>1 DEF NextLines
    <2>3. turns + 1 \in Nat BY BoundsAssumption DEF CountsOK
    <2>4. PICK blocks \in TurnContents(turns + 1) : line = Line("assistant", blocks) BY <2>2
    <2>5. blocks \in Seq(Blocks) /\ blocks # <<>> /\ SteersIn(blocks) = <<>>
      BY <2>3, TurnContentsType
    <2> QED BY <1>3, <2>1, <2>2, <2>4, <2>5, LineFacts
  <1>4. CASE worker.pc = "answered"
    <2>1. ~Injecting BY <1>4 DEF Injecting
    <2>2. line \in {l \in {Line("user", Answer(accepted)) : accepted \in Acceptance} : l.blocks # <<>>}
      BY <1>4, <2>1 DEF NextLines
    <2>3. PICK accepted \in Acceptance : line = Line("user", Answer(accepted)) BY <2>2
    <2>4. line.blocks = Answer(accepted) BY <2>3 DEF Line
    <2>5. accepted \in BOOLEAN BY DEF Acceptance
    <2>6. Answer(accepted) \in Seq(Blocks) BY <1>4, <2>5, AnswerType
    <2> QED BY <1>4, <2>1, <2>2, <2>3, <2>4, <2>6, LineFacts
  <1>5. CASE worker.pc \notin {"seeded", "calling", "answered"} /\ ~Injecting
    BY <1>5 DEF NextLines
  <1> QED BY <1>1, <1>2, <1>3, <1>4, <1>5

LEMMA LandedUnchanged == ASSUME sender' = sender PROVE LandedIn' = LandedIn
  BY DEF LandedIn

LEMMA SentFacts ==
  ASSUME sender \in SenderType
  PROVE  /\ LandedIn \subseteq Steers
         /\ \A n \in Steers : sender[n] = [pc |-> sender[n].pc, after |-> sender[n].after]
                              /\ sender[n].pc \in SenderPCs /\ sender[n].after \subseteq Steers
  BY DEF SenderType, LandedIn

LEMMA TypedInit == Init => Typed
  <1> SUFFICES ASSUME Init PROVE Typed OBVIOUS
  <1>1. DiskOK(disk)
    <2>1. disk = [lines |-> <<>>, open |-> FALSE] BY DEF Init, EmptyDisk
    <2>2. <<>> \in Seq(LineType) /\ DOMAIN <<>> = {} OBVIOUS
    <2>3. LinesOK(<<>>) BY <2>2 DEF LinesOK
    <2> QED BY <2>1, <2>3 DEF DiskOK
  <1>2. FilesOK BY DEF FilesOK, Init
  <1>3. WorkerOK
    <2>1. worker = [pc |-> "off", messages |-> <<>>, known |-> {}, listing |-> {}] BY DEF Init, Off
    <2>2. <<>> \in Seq(Messages) OBVIOUS
    <2> QED BY <2>1, <2>2 DEF WorkerOK, WorkerType, WorkerPCs
  <1>4. sender \in SenderType BY DEF Init, SenderType, SenderPCs
  <1>5. CountsOK
    <2>1. <<>> \in Seq(Messages) OBVIOUS
    <2> QED BY <2>1, BoundsAssumption DEF Init, CountsOK
  <1> QED BY <1>1, <1>2, <1>3, <1>4, <1>5 DEF Typed

(* What the steps of the worker do to its record.                          *)
LEMMA PassedType ==
  ASSUME WorkerOK
  PROVE  /\ Passed \in WorkerType /\ Passed.pc = "draining"
         /\ Passed.messages = worker.messages /\ Passed.known = worker.known
         /\ Passed.listing = worker.listing \ {Eldest}
  BY DEF WorkerOK, WorkerType, Passed, WorkerPCs

LEMMA DrainingType ==
  ASSUME NEW w \in WorkerType, queue \subseteq Steers
  PROVE  /\ Draining(w) \in WorkerType /\ Draining(w).pc = "draining"
         /\ Draining(w).messages = w.messages /\ Draining(w).known = w.known
         /\ Draining(w).listing = queue
  BY DEF WorkerType, Draining, WorkerPCs

LEMMA OffType == Off \in WorkerType /\ Off.pc = "off" /\ Off.listing = {}
                 /\ Off.messages = <<>> /\ Off.known = {}
  <1>1. <<>> \in Seq(Messages) OBVIOUS
  <1> QED BY <1>1 DEF Off, WorkerType, WorkerPCs

LEMMA ReadIdsType == ASSUME NEW lines, LinesOK(lines) PROVE ReadSteerIds(lines) \subseteq Steers
  <1> SUFFICES ASSUME NEW line \in ToSet(WholeLines(lines)), line.steer # 0
               PROVE  line.steer \in Steers
    BY DEF ReadSteerIds
  <1>1. LinesOK(WholeLines(lines)) BY LinesFront DEF WholeLines
  <1>2. line \in LineType BY <1>1 DEF LinesOK, ToSet
  <1> QED BY <1>2 DEF LineType

LEMMA CopyOK ==
  ASSUME NEW s \in Seq(Messages)
  PROVE  /\ DiskOK(CopyOf(s)) /\ CopyOf(s).open = FALSE
         /\ Len(CopyOf(s).lines) = Len(s) /\ DOMAIN CopyOf(s).lines = DOMAIN s
         /\ \A i \in DOMAIN s : /\ CopyOf(s).lines[i].whole /\ CopyOf(s).lines[i].steer = 0
                                /\ CopyOf(s).lines[i].role = s[i].role
                                /\ CopyOf(s).lines[i].blocks = s[i].blocks
  <1> DEFINE l == [i \in DOMAIN s |-> Line(s[i].role, s[i].blocks)]
  <1>1. ASSUME NEW i \in DOMAIN s
        PROVE  /\ LineOK(Line(s[i].role, s[i].blocks)) /\ Line(s[i].role, s[i].blocks).whole
               /\ Line(s[i].role, s[i].blocks).steer = 0
               /\ Line(s[i].role, s[i].blocks).role = s[i].role
               /\ Line(s[i].role, s[i].blocks).blocks = s[i].blocks
    <2>1. s[i] \in Messages OBVIOUS
    <2> QED BY <2>1, MessageParts, LineFacts
  <1>2. l \in Seq(LineType) /\ Len(l) = Len(s) /\ DOMAIN l = DOMAIN s BY <1>1 DEF LineOK
  <1>3. LinesOK(l) BY <1>1, <1>2 DEF LinesOK, LineOK
  <1>4. CopyOf(s) = [lines |-> l, open |-> FALSE] BY DEF CopyOf
  <1>5. \A i \in DOMAIN s : l[i] = Line(s[i].role, s[i].blocks) OBVIOUS
  <1> HIDE DEF l
  <1>6. DiskOK(CopyOf(s)) BY <1>3, <1>4 DEF DiskOK
  <1> QED BY <1>1, <1>2, <1>4, <1>5, <1>6

LEMMA TypedStep == Typed /\ [Next]_vars => Typed'
  <1> SUFFICES ASSUME Typed, [Next]_vars PROVE Typed' OBVIOUS
  <1> USE DEF Typed
  <1>0. queue \subseteq Steers /\ acked \subseteq Steers BY SentFacts DEF FilesOK
  <1>1. ASSUME NEW n \in Steers, SteerBegin(n) PROVE Typed'
    <2>1. UNCHANGED <<disk, files, status, worker, turns, runs, seen>> /\ sender[n].pc = "unsent"
      BY <1>1 DEF SteerBegin
    <2> DEFINE s == IF Active THEN [pc |-> "named", after |-> LandedIn]
                              ELSE [pc |-> "refused", after |-> {}]
    <2>2. sender' = [sender EXCEPT ![n] = s] BY <1>1 DEF SteerBegin
    <2>3. s.pc \in {"named", "refused"} /\ s \in [pc : SenderPCs, after : SUBSET Steers]
      BY SentFacts DEF SenderPCs
    <2> HIDE DEF s
    <2>4. sender' \in SenderType BY <2>2, <2>3 DEF SenderType
    <2>5. LandedIn' = LandedIn BY <2>1, <2>2, <2>3 DEF LandedIn, SenderType
    <2> QED BY <2>1, <2>4, <2>5 DEF files, FilesOK, WorkerOK, CountsOK
  <1>2. ASSUME NEW n \in Steers, SteerLand(n) PROVE Typed'
    <2>1. UNCHANGED <<disk, acked, logged, status, worker, turns, runs, seen>>
          /\ sender[n].pc = "named" /\ queue' = queue \cup {n}
          /\ sender' = [sender EXCEPT ![n].pc = "landed"]
      BY <1>2 DEF SteerLand
    <2>2. sender' \in SenderType BY <2>1, SentFacts DEF SenderType, SenderPCs
    <2>3. LandedIn' = LandedIn \cup {n} BY <2>1 DEF LandedIn, SenderType
    <2>4. n \notin LandedIn BY <2>1 DEF LandedIn
    <2> QED BY <2>1, <2>2, <2>3, <2>4 DEF FilesOK, WorkerOK, CountsOK
  <1>3. ASSUME NEW n \in Steers, SteerReport(n) PROVE Typed'
    <2>1. UNCHANGED <<disk, files, status, worker, turns, runs, seen>>
          /\ sender[n].pc = "landed"
      BY <1>3 DEF SteerReport
    <2> DEFINE p == IF Active THEN "queued" ELSE "late"
    <2>2. sender' = [sender EXCEPT ![n].pc = p] /\ p \in {"queued", "late"}
      BY <1>3 DEF SteerReport
    <2> HIDE DEF p
    <2>3. sender' \in SenderType BY <2>2, SentFacts DEF SenderType, SenderPCs
    <2>4. LandedIn' = LandedIn BY <2>1, <2>2 DEF LandedIn, SenderType
    <2> QED BY <2>1, <2>3, <2>4 DEF files, FilesOK, WorkerOK, CountsOK
  <1>4. CASE Start
    <2>1. UNCHANGED <<disk, files, sender, turns, seen>> /\ status' = "running"
          /\ runs < MaxRuns /\ runs' = runs + 1
          /\ worker' = IF Parses(disk.lines)
                 THEN [Off EXCEPT !.pc = "seeded", !.messages = Replay(disk.lines),
                                  !.known = ReadSteerIds(disk.lines)]
                 ELSE [Off EXCEPT !.pc = "ended"]
      BY <1>4 DEF Start, StartKnowing
    <2>2. worker' \in WorkerType /\ worker'.pc \in {"seeded", "ended"} /\ worker'.listing = {}
      <3>1. LinesOK(disk.lines) BY DEF DiskOK
      <3>2. CASE Parses(disk.lines)
        <4>1. Replay(disk.lines) \in Seq(Messages) BY <3>1, <3>2, ReplayFacts
        <4>2. ReadSteerIds(disk.lines) \subseteq Steers BY <3>1, ReadIdsType
        <4> QED BY <2>1, <3>2, <4>1, <4>2, OffType DEF WorkerType, WorkerPCs
      <3>3. CASE ~Parses(disk.lines) BY <2>1, <3>3, OffType DEF WorkerType, WorkerPCs
      <3> QED BY <3>2, <3>3
    <2>3. LandedIn' = LandedIn BY <2>1, LandedUnchanged
    <2>4. runs' \in 0..MaxRuns BY <2>1, BoundsAssumption DEF CountsOK
    <2> QED BY <2>1, <2>2, <2>3, <2>4 DEF files, FilesOK, WorkerOK, CountsOK
  <1>5. CASE Open
    <2>1. UNCHANGED <<files, status, sender, turns, runs, seen>> /\ worker.pc = "seeded"
      BY <1>5 DEF Open
    <2>2. /\ DiskOK(disk') /\ worker' \in WorkerType /\ worker'.pc = "draining"
          /\ worker'.listing = queue
      <3>1. CASE worker.messages = <<>>
        <4>1. PICK line \in NextLines :
                /\ disk' = Write(disk, line)
                /\ worker' = Draining([worker EXCEPT !.messages = <<User(line.blocks)>>])
          BY <1>5, <3>1 DEF Open
        <4>2. LineOK(line) /\ line.blocks \in Seq(Blocks) /\ line.blocks # <<>> BY NextLinesFacts
        <4>3. User(line.blocks) \in Messages BY <4>2, UserType
        <4> DEFINE w == [worker EXCEPT !.messages = <<User(line.blocks)>>]
        <4>4. w \in WorkerType
          <5>1. <<User(line.blocks)>> \in Seq(Messages) BY <4>3
          <5> QED BY <5>1 DEF WorkerOK, WorkerType
        <4> HIDE DEF w
        <4>5. worker' = Draining(w) BY <4>1 DEF w
        <4> QED BY <1>0, <4>1, <4>2, <4>4, <4>5, DrainingType, WriteOK
      <3>2. CASE worker.messages # <<>>
        <4>1. worker' = Draining(worker) /\ disk' = disk BY <1>5, <3>2 DEF Open
        <4> QED BY <1>0, <4>1, DrainingType DEF WorkerOK
      <3> QED BY <3>1, <3>2
    <2>3. LandedIn' = LandedIn BY <2>1, LandedUnchanged
    <2> QED BY <2>1, <2>2, <2>3 DEF files, FilesOK, WorkerOK, CountsOK
  <1>6. CASE Inject
    <2>1. UNCHANGED <<files, status, sender, turns, runs, seen>> /\ Injecting BY <1>6 DEF Inject
    <2>2. PICK line \in NextLines :
           /\ disk' = Write(disk, line)
           /\ worker' = [worker EXCEPT !.pc = "flushed",
                                       !.messages = Ride(@, line.blocks),
                                       !.known = @ \cup {line.steer}]
      BY <1>6 DEF Inject
    <2>3. /\ LineOK(line) /\ line = SteerLine(Eldest)
          /\ line.blocks \in Seq(Blocks) /\ line.blocks # <<>>
      BY <2>1, NextLinesFacts
    <2>4. worker.pc = "draining" /\ worker.listing # {} /\ Eldest \in Steers
      BY <2>1, EldestIs DEF Injecting
    <2>5. line.steer = Eldest BY <2>3, <2>4, SteerLineFacts
    <2>6. Ride(worker.messages, line.blocks) \in Seq(Messages)
      BY <2>3, RideFacts DEF WorkerOK, WorkerType
    <2>7. worker' \in WorkerType /\ worker'.pc = "flushed" /\ worker'.listing = worker.listing
      BY <2>2, <2>4, <2>5, <2>6 DEF WorkerOK, WorkerType, WorkerPCs
    <2>8. DiskOK(disk') BY <2>2, <2>3, WriteOK
    <2>9. LandedIn' = LandedIn BY <2>1, LandedUnchanged
    <2> QED BY <2>1, <2>4, <2>7, <2>8, <2>9 DEF files, FilesOK, WorkerOK, CountsOK
  <1>7. CASE Acknowledge
    <2>1. UNCHANGED <<disk, logged, status, sender, turns, runs, seen>> /\ worker' = Passed
          /\ worker.pc \in {"flushed", "draining"} /\ worker.listing # {}
      BY <1>7 DEF Acknowledge, WorkerOK
    <2>2. \/ queue' = queue \ {Eldest} /\ acked' = acked \cup {Eldest}
          \/ UNCHANGED <<queue, acked>>
      BY <1>7 DEF Acknowledge
    <2>3. LandedIn' = LandedIn BY <2>1, LandedUnchanged
    <2>4. Eldest \in queue BY <2>1, EldestIs
    <2>5. FilesOK' BY <2>1, <2>2, <2>3, <2>4 DEF FilesOK
    <2>6. WorkerOK'
      <3>1. worker.listing \ {Eldest} \subseteq queue' BY <2>2 DEF WorkerOK
      <3> QED BY <2>1, <3>1, PassedType DEF WorkerOK
    <2> QED BY <2>1, <2>5, <2>6 DEF CountsOK
  <1>8. CASE Skip
    <2>1. UNCHANGED <<disk, files, status, turns, runs, seen>> /\ worker' = Passed /\ Injecting
      BY <1>8 DEF Skip
    <2>2. sender' = [n \in Steers |-> [sender[n] EXCEPT !.after = @ \ {Eldest}]]
      BY <1>8 DEF Skip
    <2>3. \A n \in Steers : /\ sender'[n] \in [pc : SenderPCs, after : SUBSET Steers]
                            /\ sender'[n].pc = sender[n].pc
      BY <2>2, SentFacts DEF SenderType
    <2>4. sender' \in SenderType BY <2>2, <2>3 DEF SenderType
    <2>5. LandedIn' = LandedIn BY <2>3 DEF LandedIn
    <2>6. WorkerOK' BY <2>1, PassedType DEF WorkerOK, files, Injecting
    <2> QED BY <2>1, <2>4, <2>5, <2>6 DEF files, FilesOK, CountsOK
  <1>9. CASE SendRequest
    <2>1. UNCHANGED <<disk, files, status, sender, turns, runs>> /\ worker.pc = "draining"
          /\ worker' = [worker EXCEPT !.pc = "calling"] /\ seen' = worker.messages
      BY <1>9 DEF SendRequest
    <2>2. LandedIn' = LandedIn BY <2>1, LandedUnchanged
    <2>3. WorkerOK' BY <2>1 DEF WorkerOK, WorkerType, WorkerPCs, files
    <2>4. seen' \in Seq(Messages) BY <2>1 DEF WorkerOK, WorkerType
    <2> QED BY <2>1, <2>2, <2>3, <2>4 DEF files, FilesOK, CountsOK
  <1>10. CASE ReceiveTurn
    <2>1. UNCHANGED <<files, status, sender, runs, seen>> /\ worker.pc = "calling"
          /\ turns' = turns + 1
      BY <1>10 DEF ReceiveTurn
    <2>2. PICK line \in NextLines :
           /\ disk' = Write(disk, line)
           /\ worker' = [worker EXCEPT !.pc = "answered",
                             !.messages = Append(@, Message("assistant", line.blocks))]
      BY <1>10 DEF ReceiveTurn
    <2>3. /\ LineOK(line) /\ line.blocks \in Seq(Blocks) /\ line.blocks # <<>>
          /\ turns < MaxTurns
      BY <2>1, NextLinesFacts
    <2>4. Message("assistant", line.blocks) \in Messages BY <2>3, MessageType
    <2> DEFINE m == Append(worker.messages, Message("assistant", line.blocks))
    <2>5. m \in Seq(Messages) /\ m # <<>> BY <2>4, AppendProperties DEF WorkerOK, WorkerType
    <2> HIDE DEF m
    <2>6. worker' = [worker EXCEPT !.pc = "answered", !.messages = m] BY <2>2 DEF m
    <2>7. WorkerOK' BY <2>1, <2>5, <2>6 DEF WorkerOK, WorkerType, WorkerPCs, files
    <2>8. DiskOK(disk') BY <2>2, <2>3, WriteOK
    <2>9. LandedIn' = LandedIn BY <2>1, LandedUnchanged
    <2>10. turns' \in 0..MaxTurns BY <2>1, <2>3, BoundsAssumption DEF CountsOK
    <2> QED BY <2>1, <2>7, <2>8, <2>9, <2>10 DEF files, FilesOK, CountsOK
  <1>11. CASE CallFails
    <2>1. UNCHANGED <<disk, files, status, sender, turns, runs, seen>> /\ worker.pc = "calling"
          /\ worker' = [worker EXCEPT !.pc = "sweeping"]
      BY <1>11 DEF CallFails
    <2>2. LandedIn' = LandedIn BY <2>1, LandedUnchanged
    <2>3. WorkerOK' BY <2>1 DEF WorkerOK, WorkerType, WorkerPCs, files
    <2> QED BY <2>1, <2>2, <2>3 DEF files, FilesOK, CountsOK
  <1>12. CASE AnswerTurn
    <2>1. UNCHANGED <<files, status, sender, turns, runs, seen>> /\ worker.pc = "answered"
      BY <1>12 DEF AnswerTurn
    <2>2. PICK accepted \in Acceptance :
            /\ disk' = IF Answer(accepted) = <<>> THEN disk
                       ELSE Write(disk, Line("user", Answer(accepted)))
            /\ worker' = IF accepted THEN [worker EXCEPT !.pc = "sweeping"]
                         ELSE Draining([worker EXCEPT !.messages = Append(@, User(Answer(accepted)))])
      BY <1>12 DEF AnswerTurn
    <2>3. accepted \in BOOLEAN BY DEF Acceptance
    <2> DEFINE a == Answer(accepted)
    <2>4. a \in Seq(Blocks) /\ (~accepted => a # <<>>) BY <2>1, <2>3, AnswerType
    <2> HIDE DEF a
    <2>5. DiskOK(disk')
      <3>1. CASE a = <<>> BY <2>2, <3>1 DEF a
      <3>2. CASE a # <<>>
        <4>1. LineOK(Line("user", a)) BY <2>4, <3>2, LineFacts
        <4> QED BY <2>2, <3>2, <4>1, WriteOK DEF a
      <3> QED BY <3>1, <3>2
    <2>6. WorkerOK'
      <3>1. CASE accepted
        <4>1. worker' = [worker EXCEPT !.pc = "sweeping"] BY <2>2, <3>1
        <4> QED BY <2>1, <4>1 DEF WorkerOK, WorkerType, WorkerPCs, files
      <3>2. CASE ~accepted
        <4> DEFINE w == [worker EXCEPT !.messages = Append(@, User(a))]
        <4>1. User(a) \in Messages BY <2>4, <3>2, UserType
        <4>2. worker.messages \in Seq(Messages) BY DEF WorkerOK, WorkerType
        <4>3. Append(worker.messages, User(a)) \in Seq(Messages)
          BY <4>1, <4>2, AppendProperties
        <4>4. w \in WorkerType BY <4>3 DEF WorkerOK, WorkerType
        <4> HIDE DEF w
        <4>5. worker' = Draining(w) BY <2>2, <3>2 DEF w, a
        <4> QED BY <1>0, <2>1, <4>4, <4>5, DrainingType DEF WorkerOK, files
      <3> QED BY <2>3, <3>1, <3>2
    <2>7. LandedIn' = LandedIn BY <2>1, LandedUnchanged
    <2> QED BY <2>1, <2>5, <2>6, <2>7 DEF files, FilesOK, CountsOK
  <1>13. CASE Sweep
    <2>1. UNCHANGED <<disk, queue, acked, status, sender, turns, runs, seen>>
          /\ worker.pc = "sweeping" /\ worker' = [worker EXCEPT !.pc = "ended"]
          /\ logged' = logged \cup queue
      BY <1>13 DEF Sweep
    <2>2. LandedIn' = LandedIn BY <2>1, LandedUnchanged
    <2>3. WorkerOK' BY <2>1 DEF WorkerOK, WorkerType, WorkerPCs
    <2> QED BY <1>0, <2>1, <2>2, <2>3 DEF FilesOK, CountsOK
  <1>14. CASE Terminate
    <2>1. UNCHANGED <<disk, files, sender, turns, runs, seen>> /\ worker' = Off
          /\ status' = "done"
      BY <1>14 DEF Terminate
    <2>2. LandedIn' = LandedIn BY <2>1, LandedUnchanged
    <2>3. WorkerOK' BY <2>1, OffType DEF WorkerOK
    <2> QED BY <2>1, <2>2, <2>3 DEF files, FilesOK, CountsOK
  <1>15. CASE Crash
    <2>1. UNCHANGED <<files, status, sender, runs, seen>> /\ worker' = Off
          /\ turns' = (IF worker.pc = "calling" /\ disk' # disk THEN turns + 1 ELSE turns)
          /\ (disk' = disk \/ \E line \in NextLines : disk' \in Torn(disk, line))
      BY <1>15 DEF Crash
    <2>2. DiskOK(disk')
      <3>1. CASE disk' = disk BY <3>1
      <3>2. ASSUME NEW line \in NextLines, disk' \in Torn(disk, line) PROVE DiskOK(disk')
        <4>1. LineOK(line) BY NextLinesFacts
        <4> QED BY <3>2, <4>1, TornOK
      <3> QED BY <2>1, <3>1, <3>2
    <2>3. turns' \in 0..MaxTurns
      <3>1. CASE worker.pc = "calling" /\ disk' # disk
        <4>1. PICK line \in NextLines : disk' \in Torn(disk, line) BY <2>1, <3>1
        <4>2. turns < MaxTurns BY <3>1, NextLinesFacts
        <4> QED BY <2>1, <3>1, <4>2, BoundsAssumption DEF CountsOK
      <3>2. CASE ~(worker.pc = "calling" /\ disk' # disk) BY <2>1, <3>2 DEF CountsOK
      <3> QED BY <3>1, <3>2
    <2>4. LandedIn' = LandedIn BY <2>1, LandedUnchanged
    <2>5. WorkerOK' BY <2>1, OffType DEF WorkerOK
    <2> QED BY <2>1, <2>2, <2>3, <2>4, <2>5 DEF files, FilesOK, CountsOK
  <1>16. CASE GracePasses
    <2>1. UNCHANGED <<disk, files, worker, sender, turns, runs, seen>> /\ worker.pc = "off"
          /\ status' = "interrupted"
      BY <1>16 DEF GracePasses
    <2>2. LandedIn' = LandedIn BY <2>1, LandedUnchanged
    <2> QED BY <2>1, <2>2 DEF files, FilesOK, WorkerOK, CountsOK
  <1>17. CASE Resume
    <2>1. /\ UNCHANGED <<worker, turns, runs, seen>> /\ status' = "queued"
          /\ status \in {"interrupted", "done"} /\ Parses(disk.lines)
          /\ disk' = CopyOf(MergeFollowUp(Replay(disk.lines)))
          /\ queue' = {} /\ acked' = {} /\ logged' = {}
      BY <1>17 DEF Resume
    <2> DEFINE p(n) == CASE sender[n].pc = "named" -> "lost"
                         [] sender[n].pc = "landed" -> "late"
                         [] OTHER -> sender[n].pc
    <2>2. sender' = [n \in Steers |-> [sender[n] EXCEPT !.pc = p(n)]] BY <1>17 DEF Resume
    <2>3. \A n \in Steers : p(n) \in SenderPCs BY SentFacts DEF SenderPCs
    <2> HIDE DEF p
    <2>4. sender' \in SenderType BY <2>2, <2>3 DEF SenderType
    <2>5. DiskOK(disk')
      <3>1. Replay(disk.lines) \in Seq(Messages) BY <2>1, ReplayFacts DEF DiskOK
      <3>2. MergeFollowUp(Replay(disk.lines)) \in Seq(Messages)
        BY <3>1, TextType, RideFacts DEF MergeFollowUp
      <3> QED BY <2>1, <3>2, CopyOK
    <2>6. worker.pc = "off" /\ worker.listing = {}
      BY <2>1 DEF WorkerOK
    <2> QED BY <2>1, <2>4, <2>5, <2>6 DEF FilesOK, WorkerOK, CountsOK
  <1>18. CASE UNCHANGED vars
    <2>1. LandedIn' = LandedIn BY <1>18, LandedUnchanged DEF vars
    <2> QED BY <1>18, <2>1 DEF vars, files, FilesOK, WorkerOK, CountsOK
  <1> QED BY <1>1, <1>2, <1>3, <1>4, <1>5, <1>6, <1>7, <1>8, <1>9, <1>10, <1>11, <1>12,
             <1>13, <1>14, <1>15, <1>16, <1>17, <1>18 DEF Next

LEMMA TypedIsTypeOK == Typed => TypeOK
  <1> SUFFICES ASSUME Typed PROVE TypeOK OBVIOUS
  <1> USE DEF Typed
  <1>1. ASSUME NEW line \in ToSet(disk.lines)
        PROVE  /\ line.whole => line.role \in {"user", "assistant"} /\ line.blocks # <<>>
               /\ line.steer \in {0} \cup Steers
    <2>1. PICK i \in DOMAIN disk.lines : line = disk.lines[i] BY DEF ToSet
    <2>2. disk.lines[i] \in LineType /\ LinesOK(disk.lines) BY DEF DiskOK, LinesOK
    <2> QED BY <2>1, <2>2 DEF LinesOK, LineType
  <1>2. queue \subseteq Steers /\ acked \subseteq Steers BY SentFacts DEF FilesOK
  <1>3. worker.pc \in WorkerPCs /\ worker.known \subseteq Steers BY DEF WorkerOK, WorkerType
  <1> QED BY <1>1, <1>2, <1>3
      DEF TypeOK, DiskOK, FilesOK, WorkerOK, CountsOK, SenderType

(* Types, in every instance: torn Threads and failing renames included.    *)
THEOREM TypeCorrect == Spec => []TypeOK
  <1>1. Spec => []Typed BY TypedInit, TypedStep, PTL DEF Spec
  <1> QED BY <1>1, TypedIsTypeOK, PTL

-----------------------------------------------------------------------------
(* The inductive invariant of the order in which steers are read: where no *)
(* append is ever torn, the Thread's steers are those the worker holds.    *)
Recorded == SteersOf(ReadMessages(disk.lines))
OwnIds   == ReadSteerIds(disk.lines)
AllWhole(lines) == \A i \in DOMAIN lines : lines[i].whole
Live == worker.pc \notin {"off", "ended"}
Fresh == queue \ ToSet(Recorded)

(* The steers recorded, each once, no elder behind a younger.              *)
InOrder ==
    /\ ToSet(Recorded) \subseteq LandedIn
    /\ \A i, j \in DOMAIN Recorded :
          i < j => Recorded[j] # Recorded[i] /\ Recorded[j] \notin sender[Recorded[i]].after
(* What the dedupe set and the consumed directory know of them.            *)
Tracked ==
    /\ OwnIds \subseteq ToSet(Recorded)
    /\ acked \subseteq OwnIds
    /\ queue \cap ToSet(Recorded) \subseteq OwnIds
(* Who is an elder: only earlier names, already in place.                  *)
Elders ==
    \A n \in Steers :
        /\ sender[n].after \subseteq LandedIn /\ \A m \in sender[n].after : m < n
        /\ sender[n].pc = "unsent" => \A k \in Steers : n < k => sender[k].pc = "unsent"
(* No steer still to inject is an elder of a recorded one.                 *)
NoneOvertaken == \A m \in ToSet(Recorded), n \in Fresh : n \notin sender[m].after
(* The drain's listing holds the elders of what it holds.                  *)
Listing ==
    worker.pc \in {"draining", "flushed"} =>
        \A m \in worker.listing, n \in Fresh :
            n \in sender[m].after => n \in worker.listing
(* The worker's memory agrees with the Thread.                             *)
InStep ==
    /\ Live => SteersOf(worker.messages) = Recorded /\ worker.known = OwnIds
    /\ worker.pc = "flushed" => Eldest \in OwnIds
Grew(s, t) == Len(s) <= Len(t) /\ \A i \in DOMAIN s : t[i] = s[i]
Sent ==
    /\ disk.open = FALSE /\ AllWhole(disk.lines)
    /\ InOrder /\ Tracked /\ Elders /\ NoneOvertaken /\ Listing /\ InStep
    /\ Grew(SteersOf(seen), Recorded)

LEMMA WholeIs ==
  ASSUME NEW lines, LinesOK(lines), AllWhole(lines)
  PROVE  WholeLines(lines) = lines /\ Parses(lines)
  <1>1. lines \in Seq(LineType) BY DEF LinesOK
  <1>2. lines # <<>> => Last(lines).whole
    <2> SUFFICES ASSUME lines # <<>> PROVE Last(lines).whole OBVIOUS
    <2>1. PICK n \in Nat : n = Len(lines) /\ n # 0 /\ DOMAIN lines = 1..n BY <1>1
    <2>2. n \in DOMAIN lines BY <2>1
    <2>3. Last(lines) = lines[n] BY <2>1 DEF Last
    <2> QED BY <2>2, <2>3 DEF AllWhole
  <1> QED BY <1>2 DEF WholeLines, Parses, AllWhole

LEMMA WriteWhole ==
  ASSUME NEW d, DiskOK(d), d.open = FALSE, AllWhole(d.lines),
         NEW line, LineOK(line), line.whole, NEW e, e = Write(d, line)
  PROVE  /\ e.open = FALSE /\ AllWhole(e.lines)
         /\ SteersOf(ReadMessages(e.lines))
               = SteersOf(ReadMessages(d.lines)) \o SteersIn(line.blocks)
         /\ ReadSteerIds(e.lines) = ReadSteerIds(d.lines) \cup ({line.steer} \ {0})
         /\ ReadMessages(e.lines) = Append(ReadMessages(d.lines), Message(line.role, line.blocks))
  <1> DEFINE s == d.lines
             t == e.lines
  <1>1. e.open = FALSE /\ t = Append(s, line) BY DEF Write
  <1>2. LinesOK(s) /\ LinesOK(t) BY <1>1, LinesAppend DEF DiskOK
  <1>3. s \in Seq(LineType) /\ t \in Seq(LineType) /\ line \in LineType BY <1>2 DEF LinesOK, LineOK
  <1> HIDE DEF s, t
  <1>4. PICK n \in Nat : n = Len(s) BY <1>3
  <1>5. /\ DOMAIN s = 1..n /\ DOMAIN t = 1..n + 1 /\ t[n + 1] = line
        /\ \A i \in 1..n : t[i] = s[i]
    BY <1>1, <1>3, <1>4, AppendProperties, LenProperties
  <1>6. AllWhole(s) BY DEF s
  <1>7. AllWhole(t) BY <1>5, <1>6 DEF AllWhole
  <1>8. WholeLines(s) = s /\ WholeLines(t) = t BY <1>2, <1>6, <1>7, WholeIs
  <1>9. ReadSteerIds(t) = ReadSteerIds(s) \cup ({line.steer} \ {0})
    <2>1. ToSet(t) = ToSet(s) \cup {line} BY <1>5 DEF ToSet
    <2> QED BY <1>8, <2>1 DEF ReadSteerIds
  <1> DEFINE a == ReadMessages(s)
             b == ReadMessages(t)
             m == Message(line.role, line.blocks)
  <1>10. a \in Seq(Messages) /\ b \in Seq(Messages) BY <1>2, <1>6, <1>7, WholeIs, ReadType
  <1>11. m \in Messages /\ m.blocks = line.blocks
    <2>1. line.role \in {"user", "assistant"} /\ line.blocks \in Seq(Blocks) /\ line.blocks # <<>>
      BY DEF LineOK, LineType
    <2> QED BY <2>1, MessageType
  <1>12. /\ DOMAIN a = 1..n /\ DOMAIN b = 1..n + 1
         /\ \A i \in 1..n : a[i] = Message(s[i].role, s[i].blocks)
         /\ \A i \in 1..n + 1 : b[i] = Message(t[i].role, t[i].blocks)
    BY <1>5, <1>8 DEF ReadMessages
  <1> HIDE DEF a, b
  <1>13. b = Append(a, m)
    <2> HIDE DEF m
    <2>1. /\ Len(a) = n /\ Len(b) = n + 1 /\ Append(a, m) \in Seq(Messages)
          /\ Len(Append(a, m)) = n + 1 /\ Append(a, m)[n + 1] = m
          /\ \A i \in 1..n : Append(a, m)[i] = a[i]
      BY <1>10, <1>11, <1>12, AppendProperties, LenProperties
    <2>2. b[n + 1] = m
      <3>1. n + 1 \in 1..n + 1 OBVIOUS
      <3> QED BY <1>5, <1>12, <3>1 DEF m
    <2>3. \A i \in 1..n : i \in 1..n + 1 OBVIOUS
    <2>4. \A i \in 1..n : b[i] = a[i] BY <1>5, <1>12, <2>3
    <2>5. \A i \in 1..n + 1 : b[i] = Append(a, m)[i]
      <3> SUFFICES ASSUME NEW i \in 1..n + 1 PROVE b[i] = Append(a, m)[i] OBVIOUS
      <3>1. i = n + 1 \/ i \in 1..n OBVIOUS
      <3> QED BY <2>1, <2>2, <2>4, <3>1
    <2>6. DOMAIN Append(a, m) = 1..n + 1 BY <2>1, LenProperties
    <2> DEFINE c == Append(a, m)
    <2> HIDE DEF c
    <2>7. b \in Seq(Messages) /\ c \in Seq(Messages) /\ DOMAIN b = DOMAIN c
          /\ \A i \in DOMAIN b : b[i] = c[i]
      BY <1>10, <1>12, <2>1, <2>5, <2>6 DEF c
    <2>8. b = [i \in DOMAIN b |-> b[i]] /\ c = [i \in DOMAIN c |-> c[i]] BY <2>7
    <2> QED BY <2>7, <2>8 DEF c
  <1>14. SteersOf(b) = SteersOf(a) \o SteersIn(line.blocks) BY <1>10, <1>11, <1>13, SteersOfAppend
  <1> QED BY <1>1, <1>7, <1>9, <1>13, <1>14 DEF a, b, s, t

LEMMA CopyReads ==
  ASSUME NEW s \in Seq(Messages)
  PROVE  /\ AllWhole(CopyOf(s).lines) /\ ReadMessages(CopyOf(s).lines) = s
         /\ ReadSteerIds(CopyOf(s).lines) = {}
  <1> DEFINE l == CopyOf(s).lines
  <1>1. /\ LinesOK(l) /\ DOMAIN l = DOMAIN s
        /\ \A i \in DOMAIN s : l[i].whole /\ l[i].steer = 0 /\ l[i].role = s[i].role
                               /\ l[i].blocks = s[i].blocks
    BY CopyOK DEF DiskOK
  <1> HIDE DEF l
  <1>2. AllWhole(l) BY <1>1 DEF AllWhole
  <1>3. WholeLines(l) = l BY <1>1, <1>2, WholeIs
  <1>4. ReadMessages(l) = [i \in DOMAIN s |-> Message(s[i].role, s[i].blocks)]
    BY <1>1, <1>3 DEF ReadMessages
  <1>5. \A i \in DOMAIN s : Message(s[i].role, s[i].blocks) = s[i]
    <2> SUFFICES ASSUME NEW i \in DOMAIN s PROVE Message(s[i].role, s[i].blocks) = s[i] OBVIOUS
    <2>1. s[i] \in Messages OBVIOUS
    <2> QED BY <2>1, MessageParts
  <1>6. ReadMessages(l) = s
    <2>1. s = [i \in DOMAIN s |-> s[i]] OBVIOUS
    <2> QED BY <1>4, <1>5, <2>1
  <1>7. ReadSteerIds(l) = {} BY <1>1, <1>3 DEF ReadSteerIds, ToSet
  <1> QED BY <1>2, <1>6, <1>7 DEF l

LEMMA RecordedType ==
  ASSUME Typed, Sent
  PROVE  /\ Recorded \in Seq(Nat) /\ Recorded \in Seq(Steers)
         /\ ReadMessages(disk.lines) \in Seq(Messages)
         /\ SteersOf(Replay(disk.lines)) = Recorded /\ Parses(disk.lines)
         /\ Replay(disk.lines) \in Seq(Messages)
  <1>1. LinesOK(disk.lines) /\ AllWhole(disk.lines) BY DEF Typed, DiskOK, Sent
  <1>2. Parses(disk.lines) BY <1>1, WholeIs
  <1>3. ReadMessages(disk.lines) \in Seq(Messages) BY <1>1, <1>2, ReadType
  <1>4. Recorded \in Seq(Nat) BY <1>3, SteersOfType DEF Recorded
  <1>5. \A i \in DOMAIN Recorded : Recorded[i] \in Steers
    BY SentFacts DEF Sent, InOrder, ToSet, Typed
  <1>6. Recorded \in Seq(Steers)
    <2> DEFINE r == Recorded
    <2> HIDE DEF r
    <2>1. r \in Seq(Nat) /\ \A i \in DOMAIN r : r[i] \in Steers BY <1>4, <1>5 DEF r
    <2>2. r \in Seq(Steers) BY <2>1
    <2> QED BY <2>2 DEF r
  <1> QED BY <1>1, <1>2, <1>3, <1>4, <1>6, ReplayFacts DEF Recorded

LEMMA SameDisk == ASSUME disk' = disk PROVE Recorded' = Recorded /\ OwnIds' = OwnIds
  BY DEF Recorded, OwnIds

(* An append, as the steers of the Thread see it.                          *)
LEMMA WriteSent ==
  ASSUME Typed, Sent, NEW line, LineOK(line), line.whole, disk' = Write(disk, line)
  PROVE  /\ disk'.open = FALSE /\ AllWhole(disk'.lines)
         /\ Recorded' = Recorded \o SteersIn(line.blocks)
         /\ OwnIds' = OwnIds \cup ({line.steer} \ {0})
  <1> DEFINE d == disk
             e == disk'
  <1>1. DiskOK(d) /\ d.open = FALSE /\ AllWhole(d.lines) /\ e = Write(d, line)
    BY DEF Typed, Sent
  <1>2. Recorded = SteersOf(ReadMessages(d.lines)) /\ OwnIds = ReadSteerIds(d.lines)
    BY DEF Recorded, OwnIds
  <1>3. Recorded' = SteersOf(ReadMessages(e.lines)) /\ OwnIds' = ReadSteerIds(e.lines)
    BY DEF Recorded, OwnIds
  <1> HIDE DEF d, e
  <1>4. /\ e.open = FALSE /\ AllWhole(e.lines)
        /\ SteersOf(ReadMessages(e.lines))
               = SteersOf(ReadMessages(d.lines)) \o SteersIn(line.blocks)
        /\ ReadSteerIds(e.lines) = ReadSteerIds(d.lines) \cup ({line.steer} \ {0})
    BY <1>1, WriteWhole
  <1> QED BY <1>2, <1>3, <1>4 DEF e

(* A step that adds no steer to the Thread.                                *)
LEMMA QuietStep ==
  ASSUME Sent, UNCHANGED <<queue, sender, seen>>, acked' = acked,
         Recorded' = Recorded, OwnIds' = OwnIds, disk'.open = FALSE, AllWhole(disk'.lines),
         Listing', InStep'
  PROVE  Sent'
  <1>1. LandedIn' = LandedIn /\ Fresh' = Fresh BY LandedUnchanged DEF Fresh
  <1>2. InOrder' BY <1>1 DEF Sent, InOrder
  <1>3. Tracked' BY DEF Sent, Tracked
  <1>4. Elders' BY <1>1 DEF Sent, Elders
  <1>5. NoneOvertaken' BY <1>1 DEF Sent, NoneOvertaken
  <1>6. Grew(SteersOf(seen), Recorded)' BY DEF Sent, Grew
  <1> QED BY <1>2, <1>3, <1>4, <1>5, <1>6 DEF Sent

LEMMA SentInit == Init => Sent
  <1> SUFFICES ASSUME Init PROVE Sent OBVIOUS
  <1>1. disk.lines = <<>> /\ disk.open = FALSE BY DEF Init, EmptyDisk
  <1>2. worker.pc = "off" /\ queue = {} /\ acked = {} /\ seen = <<>>
    BY DEF Init, Off
  <1>3. AllWhole(<<>>) BY DEF AllWhole
  <1>4. WholeLines(<<>>) = <<>> BY DEF WholeLines
  <1>5. ReadMessages(<<>>) = <<>> /\ ReadSteerIds(<<>>) = {}
    <2>1. [i \in DOMAIN <<>> |-> Message(<<>>[i].role, <<>>[i].blocks)] = <<>> OBVIOUS
    <2> QED BY <1>4, <2>1 DEF ReadMessages, ReadSteerIds, ToSet
  <1>6. Recorded = <<>> /\ OwnIds = {} BY <1>1, <1>5, SteersOfNone DEF Recorded, OwnIds
  <1>7. ToSet(Recorded) = {} /\ DOMAIN Recorded = {} BY <1>6 DEF ToSet
  <1>8. Grew(SteersOf(seen), Recorded) BY <1>2, <1>6, SteersOfNone DEF Grew
  <1>9. Elders
    <2>1. \A n \in Steers : sender[n].after = {} /\ sender[n].pc = "unsent" BY DEF Init
    <2> QED BY <2>1 DEF Elders
  <1> QED BY <1>1, <1>2, <1>3, <1>6, <1>7, <1>8, <1>9
      DEF Sent, InOrder, Tracked, NoneOvertaken, Listing, InStep, Live

(* The processes that send steers.                                         *)
LEMMA SteerBeginSent ==
  ASSUME Typed, Sent, NEW n \in Steers, SteerBegin(n) PROVE Sent'
  <1>1. UNCHANGED <<disk, files, status, worker, turns, runs, seen>> /\ sender[n].pc = "unsent"
        /\ \A m \in 1..n - 1 : sender[m].pc # "unsent"
    BY DEF SteerBegin
  <1> DEFINE s == IF Active THEN [pc |-> "named", after |-> LandedIn]
                            ELSE [pc |-> "refused", after |-> {}]
  <1>2. sender' = [sender EXCEPT ![n] = s] BY DEF SteerBegin
  <1>3. s.pc \in {"named", "refused"} /\ s.after \subseteq LandedIn OBVIOUS
  <1> HIDE DEF s
  <1>4. sender'[n] = s /\ \A m \in Steers : m # n => sender'[m] = sender[m]
    BY <1>2 DEF Typed, SenderType
  <1>5. LandedIn' = LandedIn BY <1>1, <1>3, <1>4 DEF LandedIn
  <1>6. n \notin LandedIn BY <1>1 DEF LandedIn
  <1>7. Recorded' = Recorded /\ OwnIds' = OwnIds BY <1>1, SameDisk
  <1>8. Fresh' = Fresh BY <1>1, <1>7 DEF Fresh, files
  <1>9. ToSet(Recorded) \subseteq LandedIn /\ LandedIn \subseteq Steers
    BY SentFacts DEF Sent, InOrder, Typed
  <1>10. \A m \in ToSet(Recorded) : sender'[m] = sender[m] BY <1>4, <1>6, <1>9
  <1>11. InOrder' BY <1>5, <1>7, <1>10 DEF Sent, InOrder, ToSet
  <1>12. Tracked' BY <1>1, <1>7 DEF Sent, Tracked, files
  <1>13. Elders'
    <2>1. \A m \in LandedIn : m < n
      <3> SUFFICES ASSUME NEW m \in LandedIn, ~(m < n) PROVE FALSE OBVIOUS
      <3>1. m # n /\ m \in Steers /\ sender[m].pc # "unsent" BY <1>6 DEF LandedIn
      <3>2. n < m BY <3>1, BoundsAssumption DEF Steers
      <3> QED BY <1>1, <3>1, <3>2 DEF Sent, Elders
    <2>2. ASSUME NEW k \in Steers
          PROVE  sender'[k].after \subseteq LandedIn /\ \A m \in sender'[k].after : m < k
      BY <1>3, <1>4, <2>1 DEF Sent, Elders
    <2>3. ASSUME NEW k \in Steers, NEW l \in Steers, sender'[k].pc = "unsent", k < l
          PROVE  sender'[l].pc = "unsent"
      <3>1. k # n /\ sender[k].pc = "unsent" BY <1>3, <1>4, <2>3
      <3>2. ~(k < n) BY <1>1, <3>1, BoundsAssumption DEF Steers
      <3>3. l # n BY <2>3, <3>2
      <3> QED BY <1>4, <2>3, <3>1, <3>3 DEF Sent, Elders
    <2> QED BY <1>5, <2>2, <2>3 DEF Elders
  <1>14. NoneOvertaken' BY <1>7, <1>8, <1>10 DEF Sent, NoneOvertaken
  <1>15. Listing'
    <2>1. worker.listing \subseteq LandedIn BY DEF Typed, WorkerOK, FilesOK
    <2>2. \A m \in worker.listing : sender'[m] = sender[m] BY <1>4, <1>6, <1>9, <2>1
    <2> QED BY <1>1, <1>8, <2>2 DEF Sent, Listing
  <1>16. InStep' BY <1>1, <1>7 DEF Sent, InStep, Live, Eldest
  <1>17. Grew(SteersOf(seen), Recorded)' BY <1>1, <1>7 DEF Sent
  <1> QED BY <1>1, <1>11, <1>12, <1>13, <1>14, <1>15, <1>16, <1>17 DEF Sent

LEMMA SteerLandSent ==
  ASSUME Typed, Sent, NEW n \in Steers, SteerLand(n) PROVE Sent'
  <1>1. UNCHANGED <<disk, acked, logged, status, worker, turns, runs, seen>>
        /\ sender[n].pc = "named" /\ queue' = queue \cup {n}
        /\ sender' = [sender EXCEPT ![n].pc = "landed"]
    BY DEF SteerLand
  <1>2. \A m \in Steers : /\ sender'[m].after = sender[m].after
                          /\ sender'[m].pc = IF m = n THEN "landed" ELSE sender[m].pc
    BY <1>1, SentFacts DEF Typed, SenderType
  <1>3. LandedIn' = LandedIn \cup {n} /\ n \notin LandedIn BY <1>1, <1>2 DEF LandedIn
  <1>4. Recorded' = Recorded /\ OwnIds' = OwnIds BY <1>1, SameDisk
  <1>5. Fresh' = Fresh \cup {n}
    <2>1. n \notin ToSet(Recorded) BY <1>3 DEF Sent, InOrder
    <2> QED BY <1>1, <1>4, <2>1 DEF Fresh
  <1>6. ToSet(Recorded) \subseteq LandedIn /\ LandedIn \subseteq Steers
    BY SentFacts DEF Sent, InOrder, Typed
  <1>7. InOrder' BY <1>2, <1>3, <1>4, <1>6 DEF Sent, InOrder, ToSet
  <1>8. Tracked' BY <1>1, <1>3, <1>4, <1>6 DEF Sent, Tracked
  <1>9. Elders' BY <1>1, <1>2, <1>3 DEF Sent, Elders
  <1>10. \A m \in Steers : n \notin sender'[m].after BY <1>2, <1>3 DEF Sent, Elders
  <1>11. NoneOvertaken' BY <1>2, <1>4, <1>5, <1>6, <1>10 DEF Sent, NoneOvertaken
  <1>12. Listing'
    <2>1. worker.listing \subseteq Steers BY DEF Typed, WorkerOK, WorkerType
    <2> QED BY <1>1, <1>2, <1>5, <1>10, <2>1 DEF Sent, Listing
  <1>13. InStep' BY <1>1, <1>4 DEF Sent, InStep, Live, Eldest
  <1>14. Grew(SteersOf(seen), Recorded)' BY <1>1, <1>4 DEF Sent
  <1> QED BY <1>1, <1>7, <1>8, <1>9, <1>11, <1>12, <1>13, <1>14 DEF Sent

LEMMA SteerReportSent ==
  ASSUME Typed, Sent, NEW n \in Steers, SteerReport(n) PROVE Sent'
  <1>1. UNCHANGED <<disk, files, status, worker, turns, runs, seen>> /\ sender[n].pc = "landed"
    BY DEF SteerReport
  <1> DEFINE p == IF Active THEN "queued" ELSE "late"
  <1>2. sender' = [sender EXCEPT ![n].pc = p] /\ p \in {"queued", "late"} BY DEF SteerReport
  <1> HIDE DEF p
  <1>3. \A m \in Steers : /\ sender'[m].after = sender[m].after
                          /\ sender'[m].pc = IF m = n THEN p ELSE sender[m].pc
    BY <1>2, SentFacts DEF Typed, SenderType
  <1>4. LandedIn' = LandedIn BY <1>1, <1>2, <1>3 DEF LandedIn
  <1>5. Recorded' = Recorded /\ OwnIds' = OwnIds BY <1>1, SameDisk
  <1>6. Fresh' = Fresh BY <1>1, <1>5 DEF Fresh, files
  <1>7. ToSet(Recorded) \subseteq Steers /\ worker.listing \subseteq Steers
    BY SentFacts DEF Sent, InOrder, Typed, WorkerOK, WorkerType
  <1>8. InOrder' BY <1>3, <1>4, <1>5, <1>7 DEF Sent, InOrder, ToSet
  <1>9. Tracked' BY <1>1, <1>5 DEF Sent, Tracked, files
  <1>10. Elders' BY <1>1, <1>2, <1>3, <1>4 DEF Sent, Elders
  <1>11. NoneOvertaken' BY <1>3, <1>5, <1>6, <1>7 DEF Sent, NoneOvertaken
  <1>12. Listing' BY <1>1, <1>3, <1>6, <1>7 DEF Sent, Listing
  <1>13. InStep' BY <1>1, <1>5 DEF Sent, InStep, Live, Eldest
  <1>14. Grew(SteersOf(seen), Recorded)' BY <1>1, <1>5 DEF Sent
  <1> QED BY <1>1, <1>8, <1>9, <1>10, <1>11, <1>12, <1>13, <1>14 DEF Sent

(* The worker's steps that put no steer into the Thread.                   *)
LEMMA StartSent ==
  ASSUME Typed, Sent, Start PROVE Sent'
  <1>1. UNCHANGED <<disk, files, sender, turns, seen>>
        /\ worker' = IF Parses(disk.lines)
               THEN [Off EXCEPT !.pc = "seeded", !.messages = Replay(disk.lines),
                                !.known = ReadSteerIds(disk.lines)]
               ELSE [Off EXCEPT !.pc = "ended"]
    BY DEF Start, StartKnowing
  <1>2. Parses(disk.lines) /\ SteersOf(Replay(disk.lines)) = Recorded BY RecordedType
  <1>3. worker'.pc = "seeded" /\ worker'.messages = Replay(disk.lines) /\ worker'.known = OwnIds
    BY <1>1, <1>2 DEF Off, OwnIds
  <1>4. Recorded' = Recorded /\ OwnIds' = OwnIds BY <1>1, SameDisk
  <1>5. InStep' BY <1>2, <1>3, <1>4 DEF InStep
  <1>6. Listing' BY <1>3 DEF Listing
  <1> QED BY <1>1, <1>4, <1>5, <1>6, QuietStep DEF files, Sent

(* The drain's listing is the queue as it is.                              *)
LEMMA DrainingSent ==
  ASSUME Typed, Sent, UNCHANGED <<queue, acked, sender, seen>>,
         worker'.pc = "draining", worker'.listing = queue,
         Recorded' = Recorded, OwnIds' = OwnIds, disk'.open = FALSE, AllWhole(disk'.lines),
         SteersOf(worker'.messages) = Recorded, worker'.known = OwnIds
  PROVE  Sent'
  <1>1. Listing' BY DEF Listing, Fresh
  <1>2. InStep' BY DEF InStep
  <1> QED BY <1>1, <1>2, QuietStep

LEMMA OpenSent ==
  ASSUME Typed, Sent, Open PROVE Sent'
  <1>1. UNCHANGED <<files, status, sender, turns, runs, seen>> /\ worker.pc = "seeded"
    BY DEF Open
  <1>2. queue \subseteq Steers BY SentFacts DEF Typed, FilesOK
  <1>3. SteersOf(worker.messages) = Recorded /\ worker.known = OwnIds
    BY <1>1 DEF Sent, InStep, Live
  <1>4. CASE worker.messages = <<>>
    <2>1. PICK line \in NextLines :
            /\ disk' = Write(disk, line)
            /\ worker' = Draining([worker EXCEPT !.messages = <<User(line.blocks)>>])
      BY <1>4 DEF Open
    <2>2. LineOK(line) /\ line.whole /\ line = Line("user", <<Text>>) BY <1>1, NextLinesFacts
    <2>3. line.steer = 0 /\ line.blocks = <<Text>> BY <2>2 DEF Line
    <2>4. SteersIn(line.blocks) = <<>> BY <2>3, TextType
    <2>5. User(line.blocks) \in Messages /\ User(line.blocks).blocks = line.blocks
      BY <2>3, TextType, UserType
    <2> DEFINE m == <<User(line.blocks)>>
               w == [worker EXCEPT !.messages = m]
    <2>6. m \in Seq(Messages) /\ SteersOf(m) = <<>>
      <3>1. <<>> \in Seq(Messages) /\ m = Append(<<>>, User(line.blocks)) /\ m \in Seq(Messages)
        BY <2>5
      <3>2. SteersOf(m) = SteersOf(<<>>) \o SteersIn(line.blocks)
        BY <2>5, <3>1, SteersOfAppend
      <3>3. <<>> \o <<>> = <<>> OBVIOUS
      <3> QED BY <2>4, <3>1, <3>2, <3>3, SteersOfNone
    <2> HIDE DEF m
    <2>7. w \in WorkerType /\ w.messages = m /\ w.known = worker.known
      BY <2>6 DEF Typed, WorkerOK, WorkerType
    <2> HIDE DEF w
    <2>8. worker' = Draining(w) BY <2>1 DEF w, m
    <2>9. /\ worker'.pc = "draining" /\ worker'.listing = queue
          /\ SteersOf(worker'.messages) = Recorded /\ worker'.known = OwnIds
      BY <1>2, <1>3, <1>4, <2>6, <2>7, <2>8, DrainingType, SteersOfNone
    <2>10. disk'.open = FALSE /\ AllWhole(disk'.lines) /\ Recorded' = Recorded \o <<>>
           /\ OwnIds' = OwnIds \cup ({0} \ {0})
      BY <2>1, <2>2, <2>3, <2>4, WriteSent
    <2>11. Recorded' = Recorded /\ OwnIds' = OwnIds
      BY <2>10, RecordedType, ConcatEmptySeq
    <2> QED BY <1>1, <2>9, <2>10, <2>11, DrainingSent DEF files
  <1>5. CASE worker.messages # <<>>
    <2>1. worker' = Draining(worker) /\ disk' = disk BY <1>5 DEF Open
    <2>2. /\ worker'.pc = "draining" /\ worker'.listing = queue
          /\ SteersOf(worker'.messages) = Recorded /\ worker'.known = OwnIds
      BY <1>2, <1>3, <2>1, DrainingType DEF Typed, WorkerOK
    <2>3. Recorded' = Recorded /\ OwnIds' = OwnIds BY <2>1, SameDisk
    <2> QED BY <1>1, <2>1, <2>2, <2>3, DrainingSent DEF files, Sent
  <1> QED BY <1>4, <1>5

LEMMA SendRequestSent ==
  ASSUME Typed, Sent, SendRequest PROVE Sent'
  <1>1. UNCHANGED <<disk, files, status, sender, turns, runs>> /\ worker.pc = "draining"
        /\ worker' = [worker EXCEPT !.pc = "calling"] /\ seen' = worker.messages
    BY DEF SendRequest
  <1>2. Recorded' = Recorded /\ OwnIds' = OwnIds BY <1>1, SameDisk
  <1>3. LandedIn' = LandedIn /\ Fresh' = Fresh BY <1>1, <1>2, LandedUnchanged DEF files, Fresh
  <1>4. /\ worker'.pc = "calling" /\ worker'.messages = worker.messages
        /\ worker'.known = worker.known
    BY <1>1 DEF Typed, WorkerOK, WorkerType
  <1>5. SteersOf(worker.messages) = Recorded /\ worker.known = OwnIds
    BY <1>1 DEF Sent, InStep, Live
  <1>6. InStep' BY <1>2, <1>4, <1>5 DEF InStep
  <1>7. Listing' BY <1>4 DEF Listing
  <1>8. Grew(SteersOf(seen), Recorded)'
    <2>1. SteersOf(seen)' = Recorded /\ Len(Recorded) \in Nat BY <1>1, <1>5, RecordedType
    <2> QED BY <1>2, <2>1 DEF Grew
  <1>9. InOrder' BY <1>1, <1>2, <1>3 DEF Sent, InOrder
  <1>10. Tracked' BY <1>1, <1>2 DEF Sent, Tracked, files
  <1>11. Elders' BY <1>1, <1>3 DEF Sent, Elders
  <1>12. NoneOvertaken' BY <1>1, <1>2, <1>3 DEF Sent, NoneOvertaken
  <1> QED BY <1>1, <1>6, <1>7, <1>8, <1>9, <1>10, <1>11, <1>12 DEF Sent

LEMMA ReceiveTurnSent ==
  ASSUME Typed, Sent, ReceiveTurn PROVE Sent'
  <1>1. UNCHANGED <<files, status, sender, runs, seen>> /\ worker.pc = "calling"
    BY DEF ReceiveTurn
  <1>2. PICK line \in NextLines :
         /\ disk' = Write(disk, line)
         /\ worker' = [worker EXCEPT !.pc = "answered",
                           !.messages = Append(@, Message("assistant", line.blocks))]
    BY DEF ReceiveTurn
  <1>3. /\ LineOK(line) /\ line.whole /\ line.steer = 0
        /\ line.blocks \in Seq(Blocks) /\ line.blocks # <<>> /\ SteersIn(line.blocks) = <<>>
    BY <1>1, NextLinesFacts DEF Injecting
  <1>4. Message("assistant", line.blocks) \in Messages
        /\ Message("assistant", line.blocks).blocks = line.blocks
    BY <1>3, MessageType
  <1> DEFINE m == Append(worker.messages, Message("assistant", line.blocks))
  <1>5. SteersOf(worker.messages) = Recorded /\ worker.known = OwnIds
        /\ worker.messages \in Seq(Messages)
    BY <1>1 DEF Sent, InStep, Live, Typed, WorkerOK, WorkerType
  <1>6. SteersOf(m) = Recorded \o <<>> BY <1>3, <1>4, <1>5, SteersOfAppend
  <1>7. Recorded \o <<>> = Recorded BY RecordedType, ConcatEmptySeq
  <1> HIDE DEF m
  <1>8. worker' = [worker EXCEPT !.pc = "answered", !.messages = m] BY <1>2 DEF m
  <1>9. worker'.pc = "answered" /\ worker'.messages = m /\ worker'.known = worker.known
    BY <1>8 DEF Typed, WorkerOK, WorkerType
  <1>10. disk'.open = FALSE /\ AllWhole(disk'.lines) /\ Recorded' = Recorded \o <<>>
         /\ OwnIds' = OwnIds \cup ({0} \ {0})
    BY <1>2, <1>3, WriteSent
  <1>11. Recorded' = Recorded /\ OwnIds' = OwnIds BY <1>7, <1>10
  <1>12. InStep' BY <1>5, <1>6, <1>7, <1>9, <1>11 DEF InStep
  <1>13. Listing' BY <1>9 DEF Listing
  <1> QED BY <1>1, <1>10, <1>11, <1>12, <1>13, QuietStep DEF files

LEMMA AnswerTurnSent ==
  ASSUME Typed, Sent, AnswerTurn PROVE Sent'
  <1>1. UNCHANGED <<files, status, sender, turns, runs, seen>> /\ worker.pc = "answered"
    BY DEF AnswerTurn
  <1>2. PICK accepted \in Acceptance :
          /\ disk' = IF Answer(accepted) = <<>> THEN disk
                     ELSE Write(disk, Line("user", Answer(accepted)))
          /\ worker' = IF accepted THEN [worker EXCEPT !.pc = "sweeping"]
                       ELSE Draining([worker EXCEPT !.messages = Append(@, User(Answer(accepted)))])
    BY DEF AnswerTurn
  <1> DEFINE a == Answer(accepted)
  <1>3. a \in Seq(Blocks) /\ SteersIn(a) = <<>> /\ (~accepted => a # <<>>) /\ accepted \in BOOLEAN
    <2>1. accepted \in BOOLEAN BY DEF Acceptance
    <2> QED BY <1>1, <2>1, AnswerType DEF Typed
  <1> HIDE DEF a
  <1>4. SteersOf(worker.messages) = Recorded /\ worker.known = OwnIds
        /\ worker.messages \in Seq(Messages)
    BY <1>1 DEF Sent, InStep, Live, Typed, WorkerOK, WorkerType
  <1>5. Recorded \o <<>> = Recorded BY RecordedType, ConcatEmptySeq
  <1>6. disk'.open = FALSE /\ AllWhole(disk'.lines) /\ Recorded' = Recorded /\ OwnIds' = OwnIds
    <2>1. CASE a = <<>> BY <1>2, <2>1, SameDisk DEF a, Sent
    <2>2. CASE a # <<>>
      <3>1. /\ LineOK(Line("user", a)) /\ Line("user", a).whole
            /\ Line("user", a).steer = 0 /\ Line("user", a).blocks = a
        BY <1>3, <2>2, LineFacts
      <3>2. disk' = Write(disk, Line("user", a)) BY <1>2, <2>2 DEF a
      <3>3. disk'.open = FALSE /\ AllWhole(disk'.lines) /\ Recorded' = Recorded \o <<>>
            /\ OwnIds' = OwnIds \cup ({0} \ {0})
        BY <1>3, <3>1, <3>2, WriteSent
      <3> QED BY <1>5, <3>3
    <2> QED BY <2>1, <2>2
  <1>7. CASE accepted
    <2>1. worker' = [worker EXCEPT !.pc = "sweeping"] BY <1>2, <1>7
    <2>2. worker'.pc = "sweeping" /\ worker'.messages = worker.messages
          /\ worker'.known = worker.known
      BY <2>1 DEF Typed, WorkerOK, WorkerType
    <2>3. InStep' /\ Listing' BY <1>4, <1>6, <2>2 DEF InStep, Listing
    <2> QED BY <1>1, <1>6, <2>3, QuietStep DEF files
  <1>8. CASE ~accepted
    <2>1. User(a) \in Messages /\ User(a).blocks = a BY <1>3, <1>8, UserType
    <2> DEFINE m == Append(worker.messages, User(a))
               w == [worker EXCEPT !.messages = m]
    <2>2. m \in Seq(Messages) /\ SteersOf(m) = Recorded \o <<>>
      <3>1. m \in Seq(Messages) BY <1>4, <2>1, AppendProperties
      <3>2. SteersOf(m) = SteersOf(worker.messages) \o SteersIn(User(a).blocks)
        BY <1>4, <2>1, SteersOfAppend
      <3> QED BY <1>3, <1>4, <2>1, <3>1, <3>2
    <2> HIDE DEF m
    <2>3. w \in WorkerType /\ w.messages = m /\ w.known = worker.known
      BY <2>2 DEF Typed, WorkerOK, WorkerType
    <2> HIDE DEF w
    <2>4. worker' = Draining(w) BY <1>2, <1>8 DEF w, m, a
    <2>5. queue \subseteq Steers BY SentFacts DEF Typed, FilesOK
    <2>6. /\ worker'.pc = "draining" /\ worker'.listing = queue
          /\ SteersOf(worker'.messages) = Recorded /\ worker'.known = OwnIds
      BY <1>4, <1>5, <2>2, <2>3, <2>4, <2>5, DrainingType
    <2> QED BY <1>1, <1>6, <2>6, DrainingSent DEF files
  <1> QED BY <1>3, <1>7, <1>8

(* The heart of it: the eldest of the listing goes behind all that are     *)
(* recorded, and none of those still in the queue should have gone first.  *)
LEMMA InjectSent ==
  ASSUME Typed, Sent, Inject PROVE Sent'
  <1>1. UNCHANGED <<files, status, sender, turns, runs, seen>> /\ Injecting BY DEF Inject
  <1>2. PICK line \in NextLines :
         /\ disk' = Write(disk, line)
         /\ worker' = [worker EXCEPT !.pc = "flushed",
                                     !.messages = Ride(@, line.blocks),
                                     !.known = @ \cup {line.steer}]
    BY DEF Inject
  <1>3. LineOK(line) /\ line.whole /\ line = SteerLine(Eldest) BY <1>1, NextLinesFacts
  <1>4. worker.pc = "draining" /\ worker.listing # {} /\ Eldest \notin worker.known
    BY <1>1 DEF Injecting
  <1> DEFINE n == Eldest
             r == Recorded
  <1>5. n \in worker.listing /\ n \in queue /\ n \in Steers /\ \A m \in worker.listing : n <= m
    BY <1>4, EldestIs DEF Typed
  <1>6. /\ line.steer = n /\ SteersIn(line.blocks) = <<n>>
        /\ line.blocks \in Seq(Blocks) /\ line.blocks # <<>>
    BY <1>3, <1>5, SteerLineFacts
  <1>7. SteersOf(worker.messages) = r /\ worker.known = OwnIds
        /\ worker.messages \in Seq(Messages)
    BY <1>4 DEF Sent, InStep, Live, Typed, WorkerOK, WorkerType
  <1>8. n \notin OwnIds BY <1>4, <1>7
  <1>9. n \notin ToSet(r) BY <1>5, <1>8 DEF Sent, Tracked
  <1>10. n \in Fresh BY <1>5, <1>9 DEF Fresh
  <1>11. n # 0 /\ n \in Nat BY <1>5, BoundsAssumption DEF Steers
  <1>12. disk'.open = FALSE /\ AllWhole(disk'.lines) /\ Recorded' = r \o <<n>>
         /\ OwnIds' = OwnIds \cup {n}
    BY <1>2, <1>3, <1>6, <1>11, WriteSent
  <1>13. r \in Seq(Nat) BY RecordedType
  <1> HIDE DEF n, r
  <1>14. PICK k \in Nat : k = Len(r) BY <1>13
  <1> DEFINE q == Recorded'
  <1>15. q = Append(r, n) BY <1>11, <1>12, <1>13, AppendIsConcat
  <1>16. /\ DOMAIN r = 1..k /\ DOMAIN q = 1..k + 1 /\ Len(q) = k + 1 /\ q[k + 1] = n
         /\ \A i \in 1..k : q[i] = r[i]
    BY <1>11, <1>13, <1>14, <1>15, AppendProperties, LenProperties
  <1>17. ToSet(q) = ToSet(r) \cup {n} BY <1>16 DEF ToSet
  <1>18. LandedIn' = LandedIn BY <1>1, LandedUnchanged
  <1>19. Fresh' = Fresh \ {n} BY <1>1, <1>17 DEF Fresh, files, r
  <1>20. \A i \in 1..k : r[i] \in ToSet(r) BY <1>16 DEF ToSet
  <1>21. InOrder'
    <2>1. ToSet(q) \subseteq LandedIn
      BY <1>5, <1>17 DEF Sent, InOrder, Typed, FilesOK, r
    <2>2. ASSUME NEW i \in 1..k + 1, NEW j \in 1..k + 1, i < j
          PROVE  q[j] # q[i] /\ q[j] \notin sender[q[i]].after
      <3>1. i \in 1..k BY <2>2
      <3>2. CASE j \in 1..k
        BY <1>16, <2>2, <3>1, <3>2 DEF Sent, InOrder, r
      <3>3. CASE j = k + 1
        BY <1>9, <1>10, <1>16, <1>20, <3>1, <3>3 DEF Sent, NoneOvertaken, r
      <3> QED BY <3>2, <3>3
    <2> QED BY <1>1, <1>16, <1>18, <2>1, <2>2 DEF InOrder
  <1>22. Tracked' BY <1>1, <1>12, <1>17 DEF Sent, Tracked, files, r
  <1>23. Elders' BY <1>1, <1>18 DEF Sent, Elders
  <1>24. NoneOvertaken'
    <2>1. ASSUME NEW m \in Fresh, m # n, m \in sender[n].after PROVE FALSE
      <3>1. m \in worker.listing BY <1>4, <1>5, <2>1 DEF Sent, Listing
      <3>2. n <= m BY <1>5, <3>1
      <3>3. m < n /\ m \in Nat BY <1>5, <2>1, <3>1, BoundsAssumption
        DEF Sent, Elders, Typed, WorkerOK, WorkerType, Steers
      <3> QED BY <1>11, <3>2, <3>3
    <2> QED BY <1>1, <1>17, <1>19, <2>1 DEF Sent, NoneOvertaken, r
  <1>25. Ride(worker.messages, line.blocks) \in Seq(Messages)
         /\ SteersOf(Ride(worker.messages, line.blocks)) = r \o <<n>>
    BY <1>6, <1>7, RideFacts
  <1>26. /\ worker'.pc = "flushed" /\ worker'.listing = worker.listing
         /\ worker'.messages = Ride(worker.messages, line.blocks)
         /\ worker'.known = worker.known \cup {n}
    BY <1>2, <1>6 DEF Typed, WorkerOK, WorkerType
  <1>27. Listing' BY <1>1, <1>4, <1>19, <1>26 DEF Sent, Listing
  <1>28. InStep'
    <2>1. Eldest' = n BY <1>26 DEF Eldest, n
    <2> QED BY <1>7, <1>12, <1>25, <1>26, <2>1 DEF InStep
  <1>29. Grew(SteersOf(seen), Recorded)'
    <2>1. SteersOf(seen) \in Seq(Nat) BY SteersOfType DEF Typed, CountsOK
    <2>2. PICK l \in Nat : l = Len(SteersOf(seen)) /\ DOMAIN SteersOf(seen) = 1..l BY <2>1
    <2>3. l <= k /\ \A i \in 1..l : r[i] = SteersOf(seen)[i] BY <1>14, <2>2 DEF Sent, Grew, r
    <2>4. l <= k + 1 /\ \A i \in 1..l : i \in 1..k BY <2>3
    <2>5. \A i \in 1..l : q[i] = SteersOf(seen)[i] BY <1>16, <2>3, <2>4
    <2> HIDE DEF q
    <2>6. Grew(SteersOf(seen), q) BY <1>16, <2>2, <2>4, <2>5 DEF Grew
    <2> QED BY <1>1, <2>6 DEF Grew, q
  <1> QED BY <1>12, <1>21, <1>22, <1>23, <1>24, <1>27, <1>28, <1>29 DEF Sent

LEMMA AcknowledgeSent ==
  ASSUME Typed, Sent, Acknowledge PROVE Sent'
  <1>1. UNCHANGED <<disk, logged, status, sender, turns, runs, seen>> /\ worker' = Passed
        /\ worker.pc \in {"flushed", "draining"} /\ worker.listing # {}
        /\ (worker.pc = "draining" => Eldest \in worker.known)
    BY DEF Acknowledge, Typed, WorkerOK
  <1>2. \/ queue' = queue \ {Eldest} /\ acked' = acked \cup {Eldest}
        \/ UNCHANGED <<queue, acked>>
    BY DEF Acknowledge
  <1>3. Recorded' = Recorded /\ OwnIds' = OwnIds /\ LandedIn' = LandedIn
    BY <1>1, SameDisk, LandedUnchanged
  <1>4. SteersOf(worker.messages) = Recorded /\ worker.known = OwnIds
    BY <1>1 DEF Sent, InStep, Live
  <1>5. Eldest \in OwnIds BY <1>1, <1>4 DEF Sent, InStep
  <1>6. Eldest \in ToSet(Recorded) BY <1>5 DEF Sent, Tracked
  <1>7. Fresh' = Fresh BY <1>2, <1>3, <1>6 DEF Fresh
  <1>8. InOrder' BY <1>1, <1>3 DEF Sent, InOrder
  <1>9. Tracked' BY <1>2, <1>3, <1>5 DEF Sent, Tracked
  <1>10. Elders' BY <1>1, <1>3 DEF Sent, Elders
  <1>11. NoneOvertaken' BY <1>1, <1>3, <1>7 DEF Sent, NoneOvertaken
  <1>12. /\ worker'.pc = "draining" /\ worker'.listing = worker.listing \ {Eldest}
         /\ worker'.messages = worker.messages /\ worker'.known = worker.known
    BY <1>1, PassedType DEF Typed
  <1>13. Listing'
    <2>1. \A n \in Fresh : n # Eldest BY <1>6 DEF Fresh
    <2> QED BY <1>1, <1>7, <1>12, <2>1 DEF Sent, Listing
  <1>14. InStep' BY <1>3, <1>4, <1>12 DEF InStep
  <1>15. Grew(SteersOf(seen), Recorded)' BY <1>1, <1>3 DEF Sent, Grew
  <1> QED BY <1>1, <1>8, <1>9, <1>10, <1>11, <1>13, <1>14, <1>15 DEF Sent

(* A steer passed over loses its place: it is nobody's elder any more.     *)
LEMMA SkipSent ==
  ASSUME Typed, Sent, Skip PROVE Sent'
  <1>1. UNCHANGED <<disk, files, status, turns, runs, seen>> /\ worker' = Passed /\ Injecting
        /\ sender' = [n \in Steers |-> [sender[n] EXCEPT !.after = @ \ {Eldest}]]
    BY DEF Skip
  <1>2. \A n \in Steers : /\ sender'[n].pc = sender[n].pc
                          /\ sender'[n].after = sender[n].after \ {Eldest}
    <2> SUFFICES ASSUME NEW n \in Steers
                 PROVE  /\ sender'[n].pc = sender[n].pc
                        /\ sender'[n].after = sender[n].after \ {Eldest}
      OBVIOUS
    <2>1. sender'[n] = [sender[n] EXCEPT !.after = sender[n].after \ {Eldest}] BY <1>1
    <2>2. sender[n] = [pc |-> sender[n].pc, after |-> sender[n].after] BY SentFacts DEF Typed
    <2> QED BY <2>1, <2>2
  <1>3. Recorded' = Recorded /\ OwnIds' = OwnIds BY <1>1, SameDisk
  <1>4. LandedIn' = LandedIn BY <1>2 DEF LandedIn
  <1>5. Fresh' = Fresh BY <1>1, <1>3 DEF Fresh, files
  <1>6. ToSet(Recorded) \subseteq Steers /\ worker.listing \subseteq Steers
    BY SentFacts DEF Sent, InOrder, Typed, WorkerOK, WorkerType
  <1>7. \A i \in DOMAIN Recorded : Recorded[i] \in Steers BY <1>6 DEF ToSet
  <1>8. InOrder' BY <1>2, <1>3, <1>4, <1>7 DEF Sent, InOrder
  <1>9. Tracked' BY <1>1, <1>3 DEF Sent, Tracked, files
  <1>10. Elders' BY <1>2, <1>4 DEF Sent, Elders
  <1>11. NoneOvertaken' BY <1>2, <1>3, <1>5, <1>6 DEF Sent, NoneOvertaken
  <1>12. worker.pc = "draining" BY <1>1 DEF Injecting
  <1>13. /\ worker'.pc = "draining" /\ worker'.listing = worker.listing \ {Eldest}
         /\ worker'.messages = worker.messages /\ worker'.known = worker.known
    BY <1>1, PassedType DEF Typed
  <1>14. Listing' BY <1>2, <1>5, <1>6, <1>12, <1>13 DEF Sent, Listing
  <1>15. InStep' BY <1>3, <1>12, <1>13 DEF Sent, InStep, Live
  <1>16. Grew(SteersOf(seen), Recorded)' BY <1>1, <1>3 DEF Sent, Grew
  <1> QED BY <1>1, <1>8, <1>9, <1>10, <1>11, <1>14, <1>15, <1>16 DEF Sent

LEMMA CrashSent ==
  ASSUME Typed, Sent, Crash, ~MayTear PROVE Sent'
  <1>1. UNCHANGED <<files, status, sender, runs, seen>> /\ worker' = Off /\ disk' = disk
    BY DEF Crash
  <1>2. worker'.pc = "off" BY <1>1, OffType
  <1>3. Recorded' = Recorded /\ OwnIds' = OwnIds BY <1>1, SameDisk
  <1>4. InStep' /\ Listing' BY <1>2 DEF InStep, Listing, Live
  <1> QED BY <1>1, <1>3, <1>4, QuietStep DEF files, Sent

LEMMA ResumeSent ==
  ASSUME Typed, Sent, Resume PROVE Sent'
  <1>1. /\ UNCHANGED <<worker, turns, runs, seen>>
        /\ status \in {"interrupted", "done"}
        /\ disk' = CopyOf(MergeFollowUp(Replay(disk.lines)))
        /\ queue' = {} /\ acked' = {} /\ logged' = {}
    BY DEF Resume
  <1> DEFINE p(n) == CASE sender[n].pc = "named" -> "lost"
                       [] sender[n].pc = "landed" -> "late"
                       [] OTHER -> sender[n].pc
  <1>2. sender' = [n \in Steers |-> [sender[n] EXCEPT !.pc = p(n)]] BY DEF Resume
  <1>3. \A n \in Steers : /\ p(n) = "unsent" <=> sender[n].pc = "unsent"
                          /\ p(n) \in {"landed", "queued", "late"}
                                <=> sender[n].pc \in {"landed", "queued", "late"}
    BY SentFacts DEF Typed, SenderPCs
  <1> HIDE DEF p
  <1>4. \A n \in Steers : sender'[n].pc = p(n) /\ sender'[n].after = sender[n].after
    <2> SUFFICES ASSUME NEW n \in Steers
                 PROVE  sender'[n].pc = p(n) /\ sender'[n].after = sender[n].after
      OBVIOUS
    <2>1. sender'[n] = [sender[n] EXCEPT !.pc = p(n)] BY <1>2
    <2>2. sender[n] = [pc |-> sender[n].pc, after |-> sender[n].after] BY SentFacts DEF Typed
    <2> QED BY <2>1, <2>2
  <1>5. LandedIn' = LandedIn BY <1>3, <1>4 DEF LandedIn
  <1> DEFINE h == Replay(disk.lines)
             m == MergeFollowUp(h)
  <1>6. h \in Seq(Messages) /\ SteersOf(h) = Recorded /\ Recorded \in Seq(Nat) BY RecordedType
  <1> HIDE DEF h
  <1>7. m \in Seq(Messages) /\ SteersOf(m) = Recorded \o <<>>
    BY <1>6, TextType, RideFacts DEF MergeFollowUp
  <1>8. Recorded \o <<>> = Recorded BY <1>6, ConcatEmptySeq
  <1> HIDE DEF m
  <1>9. /\ AllWhole(disk'.lines) /\ Recorded' = Recorded /\ OwnIds' = {} /\ disk'.open = FALSE
    <2>1. disk' = CopyOf(m) BY <1>1 DEF m, h
    <2>2. ReadMessages(disk'.lines) = m /\ AllWhole(disk'.lines) /\ ReadSteerIds(disk'.lines) = {}
      BY <1>7, <2>1, CopyReads
    <2> QED BY <1>7, <1>8, <2>1, <2>2 DEF Recorded, OwnIds, CopyOf
  <1>10. ToSet(Recorded) \subseteq Steers BY SentFacts DEF Sent, InOrder, Typed
  <1>11. \A i \in DOMAIN Recorded : Recorded[i] \in Steers BY <1>10 DEF ToSet
  <1>12. InOrder' BY <1>4, <1>5, <1>9, <1>11 DEF Sent, InOrder
  <1>13. Tracked' /\ NoneOvertaken' BY <1>1, <1>9 DEF Tracked, NoneOvertaken, Fresh
  <1>14. Elders' BY <1>3, <1>4, <1>5 DEF Sent, Elders
  <1>15. worker'.pc = "off" BY <1>1 DEF Typed, WorkerOK
  <1>16. InStep' /\ Listing' BY <1>15 DEF InStep, Listing, Live
  <1>17. Grew(SteersOf(seen), Recorded)' BY <1>1, <1>9 DEF Sent, Grew
  <1> QED BY <1>9, <1>12, <1>13, <1>14, <1>16, <1>17 DEF Sent

LEMMA SentStep == Typed /\ Sent /\ [Next]_vars /\ ~MayTear => Sent'
  <1> SUFFICES ASSUME Typed, Sent, [Next]_vars, ~MayTear PROVE Sent' OBVIOUS
  <1>1. ASSUME NEW n \in Steers, SteerBegin(n) \/ SteerLand(n) \/ SteerReport(n) PROVE Sent'
    BY <1>1, SteerBeginSent, SteerLandSent, SteerReportSent
  <1>2. CASE Start \/ Open BY <1>2, StartSent, OpenSent
  <1>3. CASE Inject \/ Acknowledge \/ Skip BY <1>3, InjectSent, AcknowledgeSent, SkipSent
  <1>4. CASE SendRequest \/ ReceiveTurn \/ AnswerTurn
    BY <1>4, SendRequestSent, ReceiveTurnSent, AnswerTurnSent
  <1>5. CASE CallFails \/ Sweep
    <2>1. UNCHANGED <<disk, queue, acked, sender, seen>>
      BY <1>5 DEF CallFails, Sweep, files
    <2>2. /\ worker.pc \in {"calling", "sweeping"} /\ worker'.pc \in {"sweeping", "ended"}
          /\ worker'.messages = worker.messages /\ worker'.known = worker.known
      BY <1>5 DEF CallFails, Sweep, Typed, WorkerOK, WorkerType
    <2>3. Recorded' = Recorded /\ OwnIds' = OwnIds BY <2>1, SameDisk
    <2>4. InStep' /\ Listing' BY <2>2, <2>3 DEF Sent, InStep, Listing, Live
    <2> QED BY <2>1, <2>3, <2>4, QuietStep DEF Sent
  <1>6. CASE Terminate
    <2>1. UNCHANGED <<disk, queue, acked, sender, seen>> /\ worker'.pc = "off"
      BY <1>6, OffType DEF Terminate, files
    <2>2. Recorded' = Recorded /\ OwnIds' = OwnIds BY <2>1, SameDisk
    <2>3. InStep' /\ Listing' BY <2>1 DEF InStep, Listing, Live
    <2> QED BY <2>1, <2>2, <2>3, QuietStep DEF Sent
  <1>7. CASE Crash BY <1>7, CrashSent
  <1>8. CASE GracePasses \/ UNCHANGED vars
    <2>1. UNCHANGED <<disk, queue, acked, sender, seen, worker>>
      BY <1>8 DEF GracePasses, vars, files
    <2>2. Recorded' = Recorded /\ OwnIds' = OwnIds BY <2>1, SameDisk
    <2>3. InStep' /\ Listing' BY <2>1, <2>2 DEF Sent, InStep, Listing, Live, Eldest, Fresh
    <2> QED BY <2>1, <2>2, <2>3, QuietStep DEF Sent
  <1>9. CASE Resume BY <1>9, ResumeSent
  <1> QED BY <1>1, <1>2, <1>3, <1>4, <1>5, <1>6, <1>7, <1>8, <1>9 DEF Next

LEMMA SentInvariant == ASSUME ~MayTear PROVE Spec => [](Typed /\ Sent)
  <1>1. Init => Typed /\ Sent BY TypedInit, SentInit
  <1>2. (Typed /\ Sent) /\ [Next]_vars => (Typed /\ Sent)' BY TypedStep, SentStep
  <1> QED BY <1>1, <1>2, PTL DEF Spec

LEMMA SentIsAsSent == Typed /\ Sent => SteersAsSent
  <1> SUFFICES ASSUME Typed, Sent, Calling PROVE SteerExactlyOnce /\ SteersInOrder
    BY DEF SteersAsSent, SteerExactlyOnce, SteersInOrder
  <1>1. SteersOf(worker.messages) = Recorded /\ worker.known = OwnIds
    BY DEF Calling, Sent, InStep, Live
  <1>2. ASSUME NEW n \in acked \cup worker.known PROVE Occurrences(n, worker.messages) = 1
    <2> DEFINE at == {i \in DOMAIN Recorded : Recorded[i] = n}
    <2>1. n \in ToSet(Recorded) BY <1>1 DEF Sent, Tracked
    <2>2. PICK i \in DOMAIN Recorded : Recorded[i] = n BY <2>1 DEF ToSet
    <2>3. ASSUME NEW j \in DOMAIN Recorded, Recorded[j] = n PROVE j = i
      <3>1. i \in Nat /\ j \in Nat BY RecordedType
      <3>2. ~(i < j) /\ ~(j < i) BY <2>2, <2>3 DEF Sent, InOrder
      <3> QED BY <3>1, <3>2
    <2>4. at = {i} BY <2>2, <2>3
    <2>5. Cardinality(at) = 1 BY <2>4, FS_Singleton
    <2> QED BY <1>1, <2>5 DEF Occurrences
  <1>3. SteersInOrder BY <1>1 DEF SteersInOrder, Sent, InOrder
  <1> QED BY <1>2, <1>3 DEF SteerExactlyOnce

(* Over crashes, relaunches, resumes and failing renames: a steer the loop *)
(* has acknowledged, or takes for injected, is once in the history the     *)
(* model is sent, behind its elders.  Only an append cut short breaks it.  *)
THEOREM SteeringFaithful == ASSUME ~MayTear PROVE Spec => []SteersAsSent
  <1>1. Typed /\ Sent => SteersAsSent BY SentIsAsSent
  <1> QED BY <1>1, SentInvariant, PTL

-----------------------------------------------------------------------------
(* The refinement of SteerMailbox.                                         *)
LEMMA DistinctCount ==
  ASSUME NEW A, NEW n \in Nat, NEW f \in [1..n -> A],
         \A i, j \in 1..n : i # j => f[i] # f[j], \A a \in A : \E i \in 1..n : f[i] = a
  PROVE  Cardinality(A) = n
  <1>1. f \in Bijection(1..n, A)
    BY DEF Bijection, Injection, Surjection, IsInjective
  <1>2. ExistsBijection(1..n, A) BY <1>1 DEF ExistsBijection
  <1> QED BY <1>2, FS_CountingElements

Delivered == SteersOf(seen)
MailboxStep == \/ LandedIn' = LandedIn /\ Delivered' = Delivered
               \/ Mailbox!Next

LEMMA LandIsEnqueue ==
  ASSUME Typed, NEW n \in Steers, SteerLand(n) PROVE MailboxStep
  <1>1. UNCHANGED seen /\ sender[n].pc = "named"
        /\ sender' = [sender EXCEPT ![n].pc = "landed"]
    BY DEF SteerLand
  <1>2. LandedIn' = LandedIn \cup {n} /\ n \notin LandedIn
    BY <1>1 DEF Typed, SenderType, LandedIn
  <1>3. Mailbox!Enqueue(n) BY <1>1, <1>2 DEF Mailbox!Enqueue
  <1> QED BY <1>3 DEF MailboxStep, Mailbox!Next

(* A request delivers what was recorded since the last one.                *)
LEMMA RequestIsDeliver ==
  ASSUME Typed, Sent, SendRequest PROVE MailboxStep
  <1> DEFINE d == SteersOf(seen)
             r == Recorded
  <1>1. sender' = sender /\ worker.pc = "draining" /\ seen' = worker.messages
    BY DEF SendRequest
  <1>2. LandedIn' = LandedIn BY <1>1, LandedUnchanged
  <1>3. SteersOf(seen') = r BY <1>1 DEF Sent, InStep, Live
  <1>4. d \in Seq(Nat) BY SteersOfType DEF Typed, CountsOK
  <1>5. r \in Seq(Steers) BY RecordedType
  <1>6. Grew(d, r) /\ ToSet(r) \subseteq LandedIn BY DEF Sent, InOrder
  <1> HIDE DEF d, r
  <1>7. PICK l \in Nat : l = Len(d) /\ DOMAIN d = 1..l BY <1>4
  <1>8. PICK k \in Nat : k = Len(r) /\ DOMAIN r = 1..k BY <1>5
  <1>9. l <= k /\ \A i \in 1..l : r[i] = d[i] BY <1>6, <1>7, <1>8 DEF Grew
  <1> DEFINE n == k - l
             b == [i \in 1..n |-> r[l + i]]
             A == {r[i] : i \in l + 1..k}
  <1>10. n \in Nat /\ l + n = k BY <1>9
  <1>11. \A i \in 1..n : l + i \in l + 1..k /\ l + i \in 1..k BY <1>10
  <1>12. \A i \in l + 1..k : i - l \in 1..n /\ l + (i - l) = i /\ i \in 1..k BY <1>10
  <1>13. \A i, j \in 1..k : i # j => r[i] # r[j]
    <2>1. \A i, j \in 1..k : i < j => r[j] # r[i] BY <1>8 DEF Sent, InOrder, r
    <2>2. \A i, j \in 1..k : i # j => i < j \/ j < i OBVIOUS
    <2> QED BY <2>1, <2>2
  <1>14. b \in [1..n -> A] BY <1>11
  <1>15. \A i, j \in 1..n : i # j => b[i] # b[j]
    <2>1. \A i, j \in 1..n : i # j => l + i # l + j OBVIOUS
    <2> QED BY <1>11, <1>13, <2>1
  <1>16. \A a \in A : \E i \in 1..n : b[i] = a BY <1>12
  <1>17. A \subseteq Steers /\ A \subseteq LandedIn \ ToSet(d)
    <2>1. ASSUME NEW i \in l + 1..k
          PROVE  r[i] \in Steers /\ r[i] \in LandedIn /\ r[i] \notin ToSet(d)
      <3>1. i \in 1..k /\ r[i] \in ToSet(r) BY <1>8, <1>12 DEF ToSet
      <3>2. ASSUME NEW j \in 1..l PROVE d[j] # r[i]
        <4>1. j \in 1..k /\ j # i BY <1>9
        <4> QED BY <1>9, <1>13, <3>1, <4>1
      <3> QED BY <1>5, <1>6, <1>7, <1>8, <3>1, <3>2 DEF ToSet
    <2> QED BY <2>1
  <1>18. ToSet(b) = A BY <1>14, <1>16 DEF ToSet
  <1>19. b \in Seq(Steers) /\ Len(b) = n
    <2>1. b \in [1..n -> Steers] BY <1>14, <1>17
    <2> HIDE DEF b, n
    <2> QED BY <1>10, <2>1
  <1>20. r = d \o b
    <2> HIDE DEF n, b
    <2>1. \A i \in 1..n : b[i] = r[l + i] BY DEF b
    <2>2. b \in Seq(Nat) /\ r \in Seq(Nat)
      <3>1. Steers \subseteq Nat BY BoundsAssumption DEF Steers
      <3>2. Seq(Steers) \subseteq Seq(Nat) BY <3>1, SeqMonotonic
      <3> QED BY <1>5, <1>19, <3>2
    <2> DEFINE c == d \o b
    <2>3. c \in Seq(Nat) /\ Len(c) = k /\ \A i \in 1..k : c[i] = IF i <= l THEN d[i] ELSE b[i - l]
      BY <1>4, <1>7, <1>10, <1>19, <2>2, ConcatProperties
    <2> HIDE DEF c
    <2>4. ASSUME NEW i \in 1..k PROVE r[i] = c[i]
      <3>1. CASE i <= l
        <4>1. i \in 1..l BY <3>1
        <4> QED BY <1>9, <2>3, <3>1, <4>1
      <3>2. CASE ~(i <= l)
        <4>1. i \in l + 1..k BY <3>2
        <4>2. i - l \in 1..n /\ l + (i - l) = i BY <1>12, <4>1
        <4> QED BY <2>1, <2>3, <3>2, <4>2
      <3> QED BY <3>1, <3>2
    <2>5. r = c BY <1>8, <2>2, <2>3, <2>4, SeqEqual
    <2> QED BY <2>5 DEF c
  <1> HIDE DEF A, b, n
  <1>21. Cardinality(A) = n BY <1>10, <1>14, <1>15, <1>16, DistinctCount
  <1>22. b \in Mailbox!SetToSeqs(A)
    <2>1. Mailbox!Cardinality(A) = Cardinality(A) BY DEF Mailbox!Cardinality, Cardinality
    <2> QED BY <1>14, <1>15, <1>21, <2>1 DEF Mailbox!SetToSeqs
  <1>23. Mailbox!Deliver(b)
    <2>1. SteersOf(seen)' = SteersOf(seen) \o b BY <1>3, <1>20 DEF d, r
    <2> QED BY <1>2, <1>17, <1>18, <2>1 DEF Mailbox!Deliver, Mailbox!ToSet, ToSet, d
  <1> QED BY <1>17, <1>22, <1>23 DEF MailboxStep, Mailbox!Next

LEMMA OtherSteps ==
  ASSUME UNCHANGED seen, LandedIn' = LandedIn PROVE MailboxStep
  BY DEF MailboxStep, Delivered

LEMMA StepIsMailbox ==
  ASSUME Typed, Sent, [Next]_vars PROVE MailboxStep
  <1>1. ASSUME NEW n \in Steers, SteerBegin(n) PROVE MailboxStep
    <2> DEFINE s == IF Active THEN [pc |-> "named", after |-> LandedIn]
                              ELSE [pc |-> "refused", after |-> {}]
    <2>1. sender' = [sender EXCEPT ![n] = s] /\ sender[n].pc = "unsent" /\ UNCHANGED seen
      BY <1>1 DEF SteerBegin
    <2>2. s.pc \in {"named", "refused"} OBVIOUS
    <2> HIDE DEF s
    <2>3. LandedIn' = LandedIn BY <2>1, <2>2 DEF LandedIn, Typed, SenderType
    <2> QED BY <2>1, <2>3, OtherSteps
  <1>2. ASSUME NEW n \in Steers, SteerLand(n) PROVE MailboxStep BY <1>2, LandIsEnqueue
  <1>3. ASSUME NEW n \in Steers, SteerReport(n) PROVE MailboxStep
    <2> DEFINE p == IF Active THEN "queued" ELSE "late"
    <2>1. sender' = [sender EXCEPT ![n].pc = p] /\ sender[n].pc = "landed" /\ UNCHANGED seen
      BY <1>3 DEF SteerReport
    <2>2. p \in {"queued", "late"} OBVIOUS
    <2> HIDE DEF p
    <2>3. LandedIn' = LandedIn BY <2>1, <2>2 DEF LandedIn, Typed, SenderType
    <2> QED BY <2>1, <2>3, OtherSteps
  <1>4. CASE SendRequest BY <1>4, RequestIsDeliver
  <1>5. CASE Skip
    <2>1. sender' = [n \in Steers |-> [sender[n] EXCEPT !.after = @ \ {Eldest}]] /\ UNCHANGED seen
      BY <1>5 DEF Skip
    <2>2. \A n \in Steers : sender'[n].pc = sender[n].pc
      <3> SUFFICES ASSUME NEW n \in Steers PROVE sender'[n].pc = sender[n].pc OBVIOUS
      <3>1. sender'[n] = [sender[n] EXCEPT !.after = sender[n].after \ {Eldest}] BY <2>1
      <3>2. sender[n] = [pc |-> sender[n].pc, after |-> sender[n].after] BY SentFacts DEF Typed
      <3> QED BY <3>1, <3>2
    <2>3. LandedIn' = LandedIn BY <2>2 DEF LandedIn
    <2> QED BY <2>1, <2>3, OtherSteps
  <1>6. CASE Resume
    <2> DEFINE p(n) == CASE sender[n].pc = "named" -> "lost"
                         [] sender[n].pc = "landed" -> "late"
                         [] OTHER -> sender[n].pc
    <2>1. sender' = [n \in Steers |-> [sender[n] EXCEPT !.pc = p(n)]] /\ UNCHANGED seen
      BY <1>6 DEF Resume
    <2>2. \A n \in Steers : p(n) \in {"landed", "queued", "late"}
                                <=> sender[n].pc \in {"landed", "queued", "late"}
      BY SentFacts DEF Typed, SenderPCs
    <2> HIDE DEF p
    <2>3. \A n \in Steers : sender'[n].pc = p(n)
      <3> SUFFICES ASSUME NEW n \in Steers PROVE sender'[n].pc = p(n) OBVIOUS
      <3>1. sender'[n] = [sender[n] EXCEPT !.pc = p(n)] BY <2>1
      <3>2. sender[n] = [pc |-> sender[n].pc, after |-> sender[n].after] BY SentFacts DEF Typed
      <3> QED BY <3>1, <3>2
    <2>4. LandedIn' = LandedIn BY <2>2, <2>3 DEF LandedIn
    <2> QED BY <2>1, <2>4, OtherSteps
  <1>7. CASE Start \/ Open \/ Inject \/ Acknowledge \/ ReceiveTurn \/ CallFails \/ AnswerTurn
             \/ Sweep \/ Terminate \/ Crash \/ GracePasses \/ UNCHANGED vars
    <2>1. UNCHANGED <<sender, seen>>
      BY <1>7 DEF Start, StartKnowing, Open, Inject, Acknowledge, ReceiveTurn, CallFails,
                  AnswerTurn, Sweep, Terminate, Crash, GracePasses, vars
    <2> QED BY <2>1, LandedUnchanged, OtherSteps
  <1> QED BY <1>1, <1>2, <1>3, <1>4, <1>5, <1>6, <1>7 DEF Next

(* Steering keeps what SteerMailbox promises: the requests carry a growing *)
(* list of steers, each queued before it is read, none read twice, whatever*)
(* crashes, relaunches and resumes come between (`_drain_steers`).         *)
THEOREM MailboxImplemented == ASSUME ~MayTear PROVE Spec => ImplementsMailbox
  <1>1. Init => Mailbox!Init
    <2>1. ASSUME Init PROVE LandedIn = {} /\ SteersOf(seen) = <<>>
      BY <2>1, SteersOfNone DEF Init, LandedIn
    <2> QED BY <2>1 DEF Mailbox!Init
  <1>2. Typed /\ Sent /\ [Next]_vars => [Mailbox!Next]_<<LandedIn, SteersOf(seen)>>
    BY StepIsMailbox DEF MailboxStep, Delivered
  <1> QED BY <1>1, <1>2, SentInvariant, PTL DEF Spec, ImplementsMailbox, Mailbox!Spec

-----------------------------------------------------------------------------
(* The ids that tie uses to results.                                       *)
TieKinds == UseKinds \cup ResultKinds

LEMMA IdsOf ==
  ASSUME NEW b \in Seq(Blocks), NEW kinds
  PROVE  /\ Ids(b, kinds) = {b[i].id : i \in {k \in DOMAIN b : b[k].kind \in kinds}}
         /\ Ids(b, kinds) \subseteq Nat
  <1>1. \A i \in DOMAIN b : b[i] \in Blocks OBVIOUS
  <1>2. \A i \in DOMAIN b : b[i].id \in Nat BY <1>1 DEF Blocks
  <1> QED BY <1>2 DEF Ids, ToSet

LEMMA IdsNone == ASSUME NEW kinds PROVE Ids(<<>>, kinds) = {}
  BY DEF Ids, ToSet

LEMMA IdsOne ==
  ASSUME NEW b, NEW kinds
  PROVE  Ids(<<b>>, kinds) = IF b.kind \in kinds THEN {b.id} ELSE {}
  <1>1. ToSet(<<b>>) = {b} BY DEF ToSet
  <1> QED BY <1>1 DEF Ids

LEMMA IdsCat ==
  ASSUME NEW a \in Seq(Blocks), NEW b \in Seq(Blocks), NEW kinds
  PROVE  Ids(a \o b, kinds) = Ids(a, kinds) \cup Ids(b, kinds)
  <1> DEFINE c == a \o b
  <1>1. PICK m \in Nat, n \in Nat : m = Len(a) /\ n = Len(b) OBVIOUS
  <1>2. /\ DOMAIN a = 1..m /\ DOMAIN b = 1..n /\ DOMAIN c = 1..m + n
        /\ \A i \in 1..m : c[i] = a[i]
        /\ \A i \in m + 1..m + n : c[i] = b[i - m]
    BY <1>1, ConcatProperties, LenProperties
  <1> HIDE DEF c
  <1>3. ToSet(c) = ToSet(a) \cup ToSet(b)
    <2>1. \A i \in 1..m + n : c[i] \in ToSet(a) \cup ToSet(b)
      <3> SUFFICES ASSUME NEW i \in 1..m + n PROVE c[i] \in ToSet(a) \cup ToSet(b) OBVIOUS
      <3>1. CASE i \in 1..m BY <1>2, <3>1 DEF ToSet
      <3>2. CASE i \notin 1..m
        <4>1. i \in m + 1..m + n /\ i - m \in 1..n BY <3>2
        <4> QED BY <1>2, <4>1 DEF ToSet
      <3> QED BY <3>1, <3>2
    <2>2. \A i \in 1..m : a[i] \in ToSet(c)
      <3>1. \A i \in 1..m : i \in 1..m + n OBVIOUS
      <3> QED BY <1>2, <3>1 DEF ToSet
    <2>3. \A i \in 1..n : b[i] \in ToSet(c)
      <3> SUFFICES ASSUME NEW i \in 1..n PROVE b[i] \in ToSet(c) OBVIOUS
      <3>1. i + m \in m + 1..m + n /\ i + m \in 1..m + n /\ (i + m) - m = i OBVIOUS
      <3>2. c[i + m] = b[i] BY <1>2, <3>1
      <3> QED BY <1>2, <3>1, <3>2 DEF ToSet
    <2> QED BY <1>2, <2>1, <2>2, <2>3 DEF ToSet
  <1> QED BY <1>3 DEF Ids, c

LEMMA IdsKinds ==
  ASSUME NEW b
  PROVE  /\ Ids(b, TieKinds) = Ids(b, UseKinds) \cup Ids(b, ResultKinds)
  BY DEF Ids, TieKinds

(* Blocks without an id of these kinds are of none of them.                *)
LEMMA NoIds ==
  ASSUME NEW b \in Seq(Blocks), NEW kinds, Ids(b, kinds) = {}
  PROVE  \A i \in DOMAIN b : b[i].kind \notin kinds
  BY DEF Ids, ToSet

LEMMA AnsweredNone == Answered(<<>>) = {}
  BY DEF Answered, ToSet

LEMMA AppendParts ==
  ASSUME NEW A, NEW s \in Seq(A), NEW x \in A, NEW t, t = Append(s, x)
  PROVE  \E n \in Nat : /\ n = Len(s) /\ DOMAIN s = 1..n /\ Len(t) = n + 1
                        /\ DOMAIN t = 1..n + 1 /\ t \in Seq(A)
                        /\ \A i \in 1..n : t[i] = s[i]
                        /\ t[n + 1] = x
  <1>1. PICK n \in Nat : n = Len(s) OBVIOUS
  <1> QED BY <1>1, AppendProperties, LenProperties

LEMMA AnsweredAppend ==
  ASSUME NEW s \in Seq(Messages), NEW m \in Messages
  PROVE  Answered(Append(s, m)) = Answered(s) \cup Ids(m.blocks, ResultKinds)
  <1> DEFINE t == Append(s, m)
  <1>1. PICK n \in Nat : /\ n = Len(s) /\ DOMAIN s = 1..n /\ DOMAIN t = 1..n + 1
                         /\ \A i \in 1..n : t[i] = s[i]
                         /\ t[n + 1] = m
    BY AppendParts
  <1> HIDE DEF t
  <1>2. ToSet(t) = ToSet(s) \cup {m} BY <1>1 DEF ToSet
  <1> QED BY <1>2 DEF Answered, t

-----------------------------------------------------------------------------
(* What a replay gives back when a message is appended to its lines.       *)
HistoryOf(messages) == Coalesce(Repair(messages))

LEMMA CoalesceAppend ==
  ASSUME NEW s \in Seq(Messages), NEW m \in Messages
  PROVE  Coalesce(Append(s, m)) = IF m.role = "user" THEN Ride(Coalesce(s), m.blocks)
                                                     ELSE Append(Coalesce(s), m)
  <1> DEFINE t == Append(s, m)
  <1>1. PICK n \in Nat : /\ n = Len(s) /\ Len(t) = n + 1 /\ t \in Seq(Messages)
                         /\ \A i \in 1..n : t[i] = s[i]
                         /\ t[n + 1] = m
    BY AppendParts
  <1> HIDE DEF t
  <1>2. PICK f : Joins(f, s) BY CoalesceIs
  <1>3. PICK g : Joins(g, t) BY <1>1, CoalesceIs
  <1>4. ASSUME NEW i \in 1..n, f[i - 1] = g[i - 1] PROVE f[i] = g[i]
    <2>1. i \in 1..Len(s) /\ i \in 1..Len(t) BY <1>1
    <2> QED BY <1>1, <1>2, <1>3, <1>4, <2>1 DEF Joins
  <1>5. f[0] = g[0] BY <1>2, <1>3 DEF Joins
  <1>6. Alongside(f, g, n) BY <1>4, <1>5 DEF Alongside
  <1>7. f[n] = g[n] BY <1>6, Agree
  <1>8. n + 1 \in 1..Len(t) /\ (n + 1) - 1 = n BY <1>1
  <1>9. Coalesce(t) = g[n + 1] /\ Coalesce(s) = f[n] BY <1>1, <1>2, <1>3 DEF Joins
  <1>10. g[n + 1] = IF m.role = "user" THEN Ride(g[n], m.blocks) ELSE Append(g[n], m)
    <2>1. g[n + 1] = IF t[n + 1].role = "user" THEN Ride(g[(n + 1) - 1], t[n + 1].blocks)
                                               ELSE Append(g[(n + 1) - 1], t[n + 1])
      BY <1>3, <1>8 DEF Joins
    <2> QED BY <1>1, <1>8, <2>1
  <1> QED BY <1>7, <1>9, <1>10 DEF t

(* Where two histories agree and leave the same open, so do their repairs. *)
SameLeft(s, t) == \A i \in 0..Len(s) : Left(t, i) = Left(s, i)
LEMMA RepairPrefix ==
  ASSUME NEW s \in Seq(Messages), NEW t \in Seq(Messages), NEW n \in Nat,
         n = Len(s), n <= Len(t), \A i \in 1..n : t[i] = s[i], SameLeft(s, t),
         NEW g, Mends(g, t)
  PROVE  \E f \in [0..n -> Seq(Messages)] :
            Mends(f, s) /\ g[n] = f[n] /\ Left(t, n) = Left(s, n)
  <1>1. PICK f \in [0..n -> Seq(Messages)] : Mends(f, s) BY RepairIs
  <1>2. ASSUME NEW i \in 1..n, f[i - 1] = g[i - 1] PROVE f[i] = g[i]
    <2>1. i \in 1..Len(s) /\ i \in 1..Len(t) /\ i - 1 \in 0..Len(s) OBVIOUS
    <2>2. Left(t, i - 1) = Left(s, i - 1) BY <2>1 DEF SameLeft
    <2>3. t[i] = s[i] OBVIOUS
    <2> QED BY <1>1, <1>2, <2>1, <2>2, <2>3 DEF Mends
  <1>3. f[0] = g[0] BY <1>1 DEF Mends
  <1>4. Alongside(f, g, n) BY <1>2, <1>3 DEF Alongside
  <1>5. f[n] = g[n] BY <1>4, Agree
  <1>6. Left(t, n) = Left(s, n) BY DEF SameLeft
  <1> QED BY <1>1, <1>5, <1>6

LEMMA SelectedSame ==
  ASSUME NEW s \in Seq(Blocks), NEW S, NEW T, \A i \in DOMAIN s : s[i] \in S <=> s[i] \in T
  PROVE  Selected(s, S) = Selected(s, T)
  <1>1. PICK n \in Nat : n = Len(s) /\ DOMAIN s = 1..n OBVIOUS
  <1>2. PICK f : Selects(f, s, S) BY SelectedIs
  <1>3. PICK g : Selects(g, s, T) BY SelectedIs
  <1>4. ASSUME NEW i \in 1..n, f[i - 1] = g[i - 1] PROVE f[i] = g[i]
    BY <1>1, <1>2, <1>3, <1>4 DEF Selects
  <1>5. Alongside(f, g, n) BY <1>2, <1>3, <1>4 DEF Alongside, Selects
  <1>6. f[n] = g[n] BY <1>5, Agree
  <1> QED BY <1>1, <1>2, <1>3, <1>6 DEF Selects

LEMMA PendingSame ==
  ASSUME NEW m \in Messages, NEW X, NEW Y, \A x \in Ids(m.blocks, UseKinds) : x \in X <=> x \in Y
  PROVE  Pending(m, X) = Pending(m, Y)
  <1> DEFINE S == [kind : UseKinds, id : Nat \ X]
             T == [kind : UseKinds, id : Nat \ Y]
             b == m.blocks
  <1>1. b \in Seq(Blocks) BY MessageParts
  <1>2. ASSUME NEW i \in DOMAIN b PROVE b[i] \in S <=> b[i] \in T
    <2>1. b[i] \in Blocks BY <1>1
    <2>2. b[i].kind \in UseKinds => b[i].id \in Ids(b, UseKinds) BY <1>1, IdsOf
    <2>3. b[i] = [kind |-> b[i].kind, id |-> b[i].id] /\ b[i].id \in Nat BY <2>1 DEF Blocks
    <2>4. \A Z : b[i] \in [kind : UseKinds, id : Nat \ Z]
                   <=> b[i].kind \in UseKinds /\ b[i].id \notin Z
      BY <2>3
    <2> QED BY <2>2, <2>4
  <1> HIDE DEF S, T, b
  <1>3. Selected(b, S) = Selected(b, T) BY <1>1, <1>2, SelectedSame
  <1> QED BY <1>3 DEF Pending, S, T, b

LEMMA UserPending == ASSUME NEW m, m.role = "user", NEW X PROVE Pending(m, X) = <<>>
  BY DEF Pending

LEMMA SameLeftIf ==
  ASSUME NEW s \in Seq(Messages), NEW t \in Seq(Messages), Len(s) <= Len(t),
         \A i \in 1..Len(s) : t[i] = s[i],
         NEW new, Answered(t) = Answered(s) \cup new,
         \A i \in 1..Len(s) : Ids(s[i].blocks, UseKinds) \cap new = {}
  PROVE  SameLeft(s, t)
  <1> SUFFICES ASSUME NEW i \in 0..Len(s) PROVE Left(t, i) = Left(s, i) BY DEF SameLeft
  <1>1. CASE i = 0 BY <1>1 DEF Left
  <1>2. CASE i # 0
    <2>1. i \in 1..Len(s) /\ s[i] \in Messages /\ t[i] = s[i] BY <1>2
    <2>2. \A x \in Ids(s[i].blocks, UseKinds) : x \in Answered(t) <=> x \in Answered(s) BY <2>1
    <2>3. Pending(s[i], Answered(t)) = Pending(s[i], Answered(s)) BY <2>1, <2>2, PendingSame
    <2> QED BY <1>2, <2>1, <2>3 DEF Left
  <1> QED BY <1>1, <1>2

LEMMA LastAppend ==
  ASSUME NEW A, NEW s \in Seq(A), NEW x \in A
  PROVE  Last(Append(s, x)) = x /\ Append(s, x) # <<>>
  BY AppendProperties DEF Last

(* A turn of the model: what a replay makes of it is the turn and, when it *)
(* used tools, their synthetic results.                                    *)
LEMMA HistoryTurn ==
  ASSUME NEW s \in Seq(Messages), NEW m \in Messages, m.role = "assistant",
         Ids(m.blocks, ResultKinds) = {}
  PROVE  /\ HistoryOf(Append(s, m))
               = Close(Append(HistoryOf(s), m), Pending(m, Answered(s)))
         /\ HistoryOf(s) \in Seq(Messages)
  <1> DEFINE t == Append(s, m)
             p == Pending(m, Answered(s))
  <1>1. PICK n \in Nat : /\ n = Len(s) /\ DOMAIN s = 1..n /\ Len(t) = n + 1
                         /\ DOMAIN t = 1..n + 1 /\ t \in Seq(Messages)
                         /\ \A i \in 1..n : t[i] = s[i]
                         /\ t[n + 1] = m
    BY AppendParts
  <1>2. Answered(t) = Answered(s) \cup {} BY AnsweredAppend
  <1> HIDE DEF t
  <1>3. n \in Nat /\ n <= n + 1 OBVIOUS
  <1>4. SameLeft(s, t) BY <1>1, <1>2, <1>3, SameLeftIf
  <1>5. PICK g : Mends(g, t) BY <1>1, RepairIs
  <1>6. PICK f \in [0..n -> Seq(Messages)] : Mends(f, s) /\ g[n] = f[n] /\ Left(t, n) = Left(s, n)
    BY <1>1, <1>3, <1>4, <1>5, RepairPrefix
  <1>7. Repair(s) = Close(g[n], Left(t, n)) BY <1>1, <1>6 DEF Mends
  <1>8. n + 1 \in 1..Len(t) /\ (n + 1) - 1 = n /\ n + 1 # 0 BY <1>1
  <1>9. g[n + 1] = Append(Repair(s), m) BY <1>1, <1>5, <1>7, <1>8 DEF Mends
  <1>10. Left(t, n + 1) = p BY <1>1, <1>2, <1>8 DEF Left
  <1>11. Repair(t) = Close(Append(Repair(s), m), p) BY <1>1, <1>5, <1>9, <1>10 DEF Mends
  <1>12. Repair(s) \in Seq(Messages) BY RepairFacts
  <1>13. p \in Seq(Blocks) BY PendingType
  <1> DEFINE r == Repair(s)
             q == Append(r, m)
             h == Coalesce(r)
  <1>14. q \in Seq(Messages) BY <1>12, AppendProperties
  <1>15. h \in Seq(Messages) BY <1>12, CoalesceFacts
  <1>16. Coalesce(q) = Append(h, m) BY <1>12, CoalesceAppend
  <1> HIDE DEF p
  <1>17. Coalesce(Close(q, p)) = Close(Append(h, m), p)
    <2> HIDE DEF q, h
    <2>1. CASE p = <<>> BY <1>16, <2>1 DEF Close
    <2>2. CASE p # <<>>
      <3>1. User(p) \in Messages /\ User(p).role = "user" /\ User(p).blocks = p
        BY <1>13, <2>2, UserType
      <3>2. Coalesce(Append(q, User(p))) = Ride(Append(h, m), p)
        BY <1>14, <1>16, <3>1, CoalesceAppend
      <3>3. Ride(Append(h, m), p) = Append(Append(h, m), User(p))
        BY <1>15, LastAppend DEF Ride
      <3> QED BY <2>2, <3>2, <3>3 DEF Close
    <2> QED BY <2>1, <2>2
  <1> QED BY <1>11, <1>15, <1>17 DEF HistoryOf, t, p

LEMMA RideOn ==
  ASSUME NEW k \in Seq(Messages), NEW m \in Messages, m.role = "user", NEW b
  PROVE  Ride(Append(k, m), b) = Append(k, User(m.blocks \o b))
  <1> DEFINE h == Append(k, m)
  <1>1. h \in Seq(Messages) /\ Last(h) = m /\ h # <<>> BY LastAppend, AppendProperties
  <1>2. Front(h) \in Seq(Messages) /\ h = Append(Front(h), m) BY <1>1, FrontLast
  <1>3. Front(h) = k BY <1>2, AppendInjective
  <1> QED BY <1>1, <1>3 DEF Ride

LEMMA RideOff ==
  ASSUME NEW h \in Seq(Messages), h = <<>> \/ Last(h).role # "user", NEW b
  PROVE  Ride(h, b) = Append(h, User(b))
  BY DEF Ride

LEMMA RideRide ==
  ASSUME NEW h \in Seq(Messages), NEW p \in Seq(Blocks), p # <<>>, NEW b \in Seq(Blocks)
  PROVE  Ride(Ride(h, p), b) = Ride(h, p \o b)
  <1>1. CASE h # <<>> /\ Last(h).role = "user"
    <2>1. PICK k \in Seq(Messages), m \in Messages : h = Append(k, m) /\ m.role = "user"
      BY <1>1, FrontLast
    <2>2. m.blocks \in Seq(Blocks) BY MessageParts
    <2> DEFINE c == m.blocks \o p
    <2>3. c \in Seq(Blocks) /\ c # <<>> BY <2>2, CatType
    <2>4. m.blocks \o (p \o b) = c \o b
      <3> DEFINE a == m.blocks
      <3> HIDE DEF a
      <3>1. a \in Seq(Blocks) BY <2>2 DEF a
      <3>2. (a \o p) \o b = a \o (p \o b) BY <3>1, ConcatAssociative
      <3> QED BY <3>2 DEF a
    <2> HIDE DEF c
    <2>5. User(c) \in Messages /\ User(c).role = "user" /\ User(c).blocks = c BY <2>3, UserType
    <2>6. Ride(h, p) = Append(k, User(c)) BY <2>1, RideOn DEF c
    <2>7. Ride(Append(k, User(c)), b) = Append(k, User(c \o b)) BY <2>5, RideOn
    <2>8. Ride(h, p \o b) = Append(k, User(m.blocks \o (p \o b))) BY <2>1, RideOn
    <2> QED BY <2>4, <2>6, <2>7, <2>8
  <1>2. CASE ~(h # <<>> /\ Last(h).role = "user")
    <2>1. User(p) \in Messages /\ User(p).role = "user" /\ User(p).blocks = p BY UserType
    <2>2. Ride(h, p) = Append(h, User(p)) BY <1>2, RideOff
    <2>3. Ride(h, p \o b) = Append(h, User(p \o b)) BY <1>2, RideOff
    <2>4. Ride(Append(h, User(p)), b) = Append(h, User(p \o b)) BY <2>1, RideOn
    <2> QED BY <2>2, <2>3, <2>4
  <1> QED BY <1>1, <1>2

(* A user turn that answers nothing rides the history.                     *)
LEMMA HistoryRide ==
  ASSUME NEW s \in Seq(Messages), NEW u \in Messages, u.role = "user",
         Ids(u.blocks, ResultKinds) = {}
  PROVE  /\ HistoryOf(Append(s, u)) = Ride(HistoryOf(s), u.blocks)
         /\ HistoryOf(s) \in Seq(Messages)
  <1> DEFINE t == Append(s, u)
  <1>0. t = Append(s, u) OBVIOUS
  <1>2. Answered(t) = Answered(s) \cup {} BY AnsweredAppend
  <1> HIDE DEF t
  <1>1. PICK n \in Nat : /\ n = Len(s) /\ DOMAIN s = 1..n /\ Len(t) = n + 1
                         /\ DOMAIN t = 1..n + 1 /\ t \in Seq(Messages)
                         /\ \A i \in 1..n : t[i] = s[i]
                         /\ t[n + 1] = u
    BY <1>0, AppendParts
  <1>3. n \in Nat /\ n <= n + 1 OBVIOUS
  <1>4. SameLeft(s, t) BY <1>1, <1>2, <1>3, SameLeftIf
  <1>5. PICK g : Mends(g, t) BY <1>1, RepairIs
  <1>6. PICK f \in [0..n -> Seq(Messages)] : Mends(f, s) /\ g[n] = f[n] /\ Left(t, n) = Left(s, n)
    BY <1>1, <1>3, <1>4, <1>5, RepairPrefix
  <1> DEFINE x == f[n]
             p == Left(s, n)
             b == u.blocks
  <1>7. x \in Seq(Messages) /\ p \in Seq(Blocks)
    <2>1. n \in 0..n /\ n \in 0..Len(s) BY <1>1
    <2> QED BY <2>1, LeftType
  <1>8. b \in Seq(Blocks) /\ b # <<>> BY MessageParts
  <1>9. Repair(s) = Close(x, p) BY <1>1, <1>6 DEF Mends
  <1>10. n + 1 \in 1..Len(t) /\ (n + 1) - 1 = n /\ n + 1 # 0 BY <1>1
  <1>11. g[n + 1] = Append(x, User(p \o b)) BY <1>1, <1>5, <1>6, <1>10 DEF Mends
  <1>12. Left(t, n + 1) = <<>> BY <1>1, <1>10, UserPending DEF Left
  <1>13. Repair(t) = Append(x, User(p \o b)) BY <1>1, <1>5, <1>11, <1>12 DEF Mends, Close
  <1> HIDE DEF x, p, b
  <1>14. p \o b \in Seq(Blocks) /\ p \o b # <<>> BY <1>7, <1>8, CatType
  <1>15. Coalesce(Append(x, User(p \o b))) = Ride(Coalesce(x), p \o b)
    <2> DEFINE c == p \o b
    <2>1. c \in Seq(Blocks) /\ c # <<>> BY <1>14
    <2> HIDE DEF c
    <2>2. User(c) \in Messages /\ User(c).role = "user" /\ User(c).blocks = c BY <2>1, UserType
    <2>3. Coalesce(Append(x, User(c))) = Ride(Coalesce(x), c) BY <1>7, <2>2, CoalesceAppend
    <2> QED BY <2>3 DEF c
  <1>16. Coalesce(x) \in Seq(Messages) BY <1>7, CoalesceFacts
  <1>17. Ride(Coalesce(Close(x, p)), b) = Ride(Coalesce(x), p \o b)
    <2>1. CASE p = <<>>
      <3>1. p \o b = b /\ Close(x, p) = x BY <1>8, <2>1, ConcatEmptySeq DEF Close
      <3> QED BY <3>1
    <2>2. CASE p # <<>>
      <3>1. User(p) \in Messages /\ User(p).role = "user" /\ User(p).blocks = p
        BY <1>7, <2>2, UserType
      <3>2. Coalesce(Append(x, User(p))) = Ride(Coalesce(x), p) BY <1>7, <3>1, CoalesceAppend
      <3>3. Close(x, p) = Append(x, User(p)) BY <2>2 DEF Close
      <3>4. Ride(Ride(Coalesce(x), p), b) = Ride(Coalesce(x), p \o b)
        BY <1>7, <1>8, <1>16, <2>2, RideRide
      <3> QED BY <3>2, <3>3, <3>4
    <2> QED BY <2>1, <2>2
  <1>18. Repair(s) \in Seq(Messages) BY RepairFacts
  <1>19. HistoryOf(s) \in Seq(Messages) BY <1>18, CoalesceFacts DEF HistoryOf
  <1> QED BY <1>9, <1>13, <1>15, <1>17, <1>19 DEF HistoryOf, t, b

(* The results of the last turn: what a replay still finds open comes      *)
(* before them.                                                            *)
LEMMA HistoryAnswer ==
  ASSUME NEW s \in Seq(Messages), NEW m \in Messages, m.role = "assistant",
         Ids(m.blocks, ResultKinds) = {},
         NEW u \in Messages, u.role = "user",
         \A i \in 1..Len(s) : Ids(s[i].blocks, UseKinds) \cap Ids(u.blocks, ResultKinds) = {},
         NEW p, p = Pending(m, Answered(s) \cup Ids(u.blocks, ResultKinds))
  PROVE  /\ HistoryOf(Append(Append(s, m), u))
               = Append(Append(HistoryOf(s), m), User(p \o u.blocks))
         /\ HistoryOf(s) \in Seq(Messages)
  <1> DEFINE r == Append(s, m)
             t == Append(r, u)
             b == u.blocks
  <1>1. PICK n \in Nat : /\ n = Len(s) /\ DOMAIN s = 1..n /\ Len(r) = n + 1
                         /\ DOMAIN r = 1..n + 1 /\ r \in Seq(Messages)
                         /\ \A i \in 1..n : r[i] = s[i]
                         /\ r[n + 1] = m
    BY AppendParts
  <1>2. Answered(r) = Answered(s) BY AnsweredAppend
  <1> HIDE DEF r
  <1>3. PICK k \in Nat : /\ k = Len(r) /\ Len(t) = k + 1 /\ t \in Seq(Messages)
                         /\ \A i \in 1..k : t[i] = r[i]
                         /\ t[k + 1] = u
    BY <1>1, AppendParts
  <1>4. Answered(t) = Answered(s) \cup Ids(b, ResultKinds) BY <1>1, <1>2, AnsweredAppend
  <1> HIDE DEF t
  <1>5. /\ Len(t) = n + 2 /\ t[n + 1] = m /\ t[n + 2] = u
        /\ \A i \in 1..n : t[i] = s[i]
    <2>1. k = n + 1 /\ n + 1 \in 1..k /\ k + 1 = n + 2 /\ \A i \in 1..n : i \in 1..k
      BY <1>1, <1>3
    <2> QED BY <1>1, <1>3, <2>1
  <1>6. n <= n + 2 /\ n \in Nat OBVIOUS
  <1>7. SameLeft(s, t) BY <1>1, <1>3, <1>4, <1>5, <1>6, SameLeftIf
  <1>8. PICK g : Mends(g, t) BY <1>3, RepairIs
  <1>9. PICK f \in [0..n -> Seq(Messages)] : Mends(f, s) /\ g[n] = f[n] /\ Left(t, n) = Left(s, n)
    BY <1>1, <1>3, <1>5, <1>6, <1>7, <1>8, RepairPrefix
  <1>10. Repair(s) = Close(g[n], Left(t, n)) BY <1>1, <1>9 DEF Mends
  <1>11. /\ n + 1 \in 1..Len(t) /\ (n + 1) - 1 = n /\ n + 1 # 0
         /\ n + 2 \in 1..Len(t) /\ (n + 2) - 1 = n + 1 /\ n + 2 # 0
    BY <1>5
  <1>12. g[n + 1] = Append(Repair(s), m) BY <1>5, <1>8, <1>10, <1>11 DEF Mends
  <1>13. Left(t, n + 1) = p BY <1>4, <1>5, <1>11 DEF Left
  <1>14. g[n + 2] = Append(Append(Repair(s), m), User(p \o b))
    BY <1>5, <1>8, <1>11, <1>12, <1>13 DEF Mends
  <1>15. Left(t, n + 2) = <<>> BY <1>5, <1>11, UserPending DEF Left
  <1>16. Repair(t) = Append(Append(Repair(s), m), User(p \o b))
    BY <1>5, <1>8, <1>14, <1>15 DEF Mends, Close
  <1>17. Repair(s) \in Seq(Messages) BY RepairFacts
  <1>18. p \in Seq(Blocks) BY PendingType
  <1>19. b \in Seq(Blocks) /\ b # <<>> BY MessageParts
  <1> DEFINE c == p \o b
             q == Append(Repair(s), m)
             h == Coalesce(Repair(s))
  <1>20. c \in Seq(Blocks) /\ c # <<>> BY <1>18, <1>19, CatType
  <1>21. q \in Seq(Messages) BY <1>17, AppendProperties
  <1>22. h \in Seq(Messages) BY <1>17, CoalesceFacts
  <1>23. Coalesce(q) = Append(h, m) BY <1>17, CoalesceAppend
  <1> HIDE DEF c, q, h
  <1>24. User(c) \in Messages /\ User(c).role = "user" /\ User(c).blocks = c BY <1>20, UserType
  <1>25. Coalesce(Append(q, User(c))) = Ride(Append(h, m), c) BY <1>21, <1>23, <1>24, CoalesceAppend
  <1>26. Ride(Append(h, m), c) = Append(Append(h, m), User(c))
    <2>1. Append(h, m) \in Seq(Messages) /\ Last(Append(h, m)) = m
      BY <1>22, LastAppend, AppendProperties
    <2> QED BY <2>1, RideOff
  <1> QED BY <1>16, <1>22, <1>25, <1>26 DEF HistoryOf, t, r, b, c, q, h

-----------------------------------------------------------------------------
(* Histories an endpoint accepts.  The head of a user turn answers the     *)
(* uses of the turn before it, and nothing else answers anything.          *)
Heads(blocks, uses) ==
    LET n == Cardinality(uses)
    IN /\ Len(blocks) >= n
       /\ Ids(SubSeq(blocks, 1, n), ResultKinds) = uses
       /\ \A k \in n + 1..Len(blocks) : blocks[k].kind \notin ResultKinds
UsesBefore(h, i) == IF i = 1 THEN {} ELSE Ids(h[i - 1].blocks, UseKinds)
Fits(h, i) ==
    /\ Ids(h[i].blocks, UseKinds) # {} => i < Len(h) /\ h[i + 1].role = "user"
    /\ h[i].role = "user" => Heads(h[i].blocks, UsesBefore(h, i))
Below(h, n) == \A i \in DOMAIN h : \A x \in Ids(h[i].blocks, TieKinds) : x < n
Good(h, n) ==
    /\ h \in Seq(Messages) /\ Below(h, n)
    /\ Alternates(h) /\ AllAnswered(h)

LEMMA AnsweredFits == ASSUME NEW h PROVE AllAnswered(h) <=> \A i \in DOMAIN h : Fits(h, i)
  BY DEF AllAnswered, Fits, Heads, UsesBefore

LEMMA HeadsNone ==
  ASSUME NEW b \in Seq(Blocks)
  PROVE  Heads(b, {}) <=> Ids(b, ResultKinds) = {}
  <1>1. Cardinality({}) = 0 BY FS_EmptySet
  <1>2. PICK n \in Nat : n = Len(b) /\ DOMAIN b = 1..n OBVIOUS
  <1>3. SubSeq(b, 1, 0) = <<>> BY SubSeqEmpty
  <1>4. Heads(b, {}) <=> \A k \in DOMAIN b : b[k].kind \notin ResultKinds
    <2>1. 0 + 1..n = 1..n /\ n >= 0 OBVIOUS
    <2> QED BY <1>1, <1>2, <1>3, <2>1, IdsNone DEF Heads
  <1>5. (\A k \in DOMAIN b : b[k].kind \notin ResultKinds) <=> Ids(b, ResultKinds) = {}
    BY DEF Ids, ToSet
  <1> QED BY <1>4, <1>5

LEMMA HeadsAll ==
  ASSUME NEW b \in Seq(Blocks), NEW uses, Ids(b, ResultKinds) = uses, Len(b) = Cardinality(uses)
  PROVE  Heads(b, uses)
  <1>1. PICK n \in Nat : n = Len(b) /\ DOMAIN b = 1..n OBVIOUS
  <1>2. SubSeq(b, 1, n) = b BY <1>1, SubSeqFull
  <1>3. n + 1..n = {} /\ n >= n BY <1>1
  <1> QED BY <1>1, <1>2, <1>3 DEF Heads

(* Blocks that answer nothing may follow.                                  *)
LEMMA HeadsMore ==
  ASSUME NEW a \in Seq(Blocks), NEW b \in Seq(Blocks), NEW uses, IsFiniteSet(uses),
         Heads(a, uses), Ids(b, ResultKinds) = {}
  PROVE  Heads(a \o b, uses)
  <1> DEFINE c == a \o b
             n == Cardinality(uses)
  <1>1. PICK k \in Nat, l \in Nat : k = Len(a) /\ l = Len(b) OBVIOUS
  <1>2. /\ DOMAIN a = 1..k /\ DOMAIN b = 1..l /\ Len(c) = k + l
        /\ c \in Seq(Blocks)
        /\ \A i \in 1..k : c[i] = a[i]
        /\ \A i \in k + 1..k + l : c[i] = b[i - k]
    BY <1>1, ConcatProperties, LenProperties
  <1>3. n \in Nat BY FS_CardinalityType
  <1> HIDE DEF c, n
  <1>4. n <= k BY <1>1 DEF Heads, n
  <1>5. SubSeq(c, 1, n) = SubSeq(a, 1, n)
    <2>1. CASE n = 0 BY <2>1, SubSeqEmpty
    <2>2. CASE n # 0
      <3>1. 1 \in 1..k /\ n \in 1..k BY <1>3, <1>4, <2>2
      <3> QED BY <1>1, <3>1, SubSeqOfConcat1 DEF c
    <2> QED BY <2>1, <2>2
  <1>6. ASSUME NEW i \in n + 1..k + l PROVE c[i].kind \notin ResultKinds
    <2>1. CASE i <= k
      <3>1. i \in n + 1..k /\ i \in 1..k BY <1>3, <2>1
      <3> QED BY <1>1, <1>2, <3>1 DEF Heads, n
    <2>2. CASE ~(i <= k)
      <3>1. i \in k + 1..k + l /\ i - k \in 1..l BY <1>3, <2>2
      <3>2. b[i - k].kind \notin ResultKinds BY <1>2, <3>1, NoIds
      <3> QED BY <1>2, <3>1, <3>2
    <2> QED BY <2>1, <2>2
  <1>7. k + l >= n BY <1>3, <1>4
  <1> QED BY <1>2, <1>5, <1>6, <1>7 DEF Heads, c, n

LEMMA IdsFinite == ASSUME NEW b \in Seq(Blocks), NEW kinds PROVE IsFiniteSet(Ids(b, kinds))
  <1> DEFINE S == {k \in DOMAIN b : b[k].kind \in kinds}
  <1>1. PICK n \in Nat : DOMAIN b = 1..n OBVIOUS
  <1>2. IsFiniteSet(1..n) BY FS_Interval
  <1>3. IsFiniteSet(S) BY <1>1, <1>2, FS_Subset
  <1>4. IsFiniteSet({b[i].id : i \in S})
    <2> DEFINE T == {b[i].id : i \in S}
               f == [i \in S |-> b[i].id]
    <2>1. f \in Surjection(S, T) BY DEF Surjection
    <2> HIDE DEF f, S, T
    <2>2. IsFiniteSet(T) BY <1>3, <2>1, FS_Surjection
    <2> QED BY <2>2 DEF T
  <1> QED BY <1>4, IdsOf

(* The model's turn and the user turn that answers it.                     *)
LEMMA GoodTurn ==
  ASSUME NEW n \in Nat, NEW h, Good(h, n), NEW m \in Messages, m.role = "assistant",
         NEW b \in Seq(Blocks), Ids(b, UseKinds) = {}, Heads(b, Ids(m.blocks, UseKinds)),
         \A x \in Ids(m.blocks, TieKinds) \cup Ids(b, TieKinds) : x < n
  PROVE  Good(Close(Append(h, m), b), n)
  <1> DEFINE r == Append(h, m)
             c == Close(r, b)
             uses == Ids(m.blocks, UseKinds)
  <1>0. h \in Seq(Messages) /\ Alternates(h) /\ Below(h, n) BY DEF Good
  <1>1. PICK k \in Nat : /\ k = Len(h) /\ DOMAIN h = 1..k /\ Len(r) = k + 1
                         /\ DOMAIN r = 1..k + 1 /\ r \in Seq(Messages)
                         /\ \A i \in 1..k : r[i] = h[i]
                         /\ r[k + 1] = m
    BY <1>0, AppendParts
  <1>2. \A i \in 1..k : Fits(h, i) BY <1>1, AnsweredFits DEF Good
  <1>3. \A i \in 1..k + 1 : i \in 1..k \/ i = k + 1 BY <1>1
  <1> HIDE DEF r
  <1>4. ASSUME NEW i \in 1..k, NEW t, NEW l \in Nat, l > k, Len(t) = l,
               \A j \in 1..k : t[j] = h[j]
        PROVE  Fits(t, i)
    <2>1. i = 1 \/ i - 1 \in 1..k BY <1>1
    <2>2. UsesBefore(t, i) = UsesBefore(h, i) BY <1>4, <2>1 DEF UsesBefore
    <2>3. ASSUME Ids(h[i].blocks, UseKinds) # {}
          PROVE  i < l /\ t[i + 1].role = "user"
      <3>1. i < k /\ h[i + 1].role = "user" BY <1>1, <1>2, <2>3 DEF Fits
      <3>2. i + 1 \in 1..k /\ i < l BY <1>1, <1>4, <3>1
      <3> QED BY <1>4, <3>1, <3>2
    <2>4. h[i].role = "user" => Heads(h[i].blocks, UsesBefore(h, i)) BY <1>2 DEF Fits
    <2> QED BY <1>4, <2>2, <2>3, <2>4 DEF Fits
  <1>5. CASE b = <<>>
    <2>1. c = r BY <1>5 DEF Close
    <2>2. uses = {}
      <3>1. IsFiniteSet(uses) BY MessageParts, IdsFinite
      <3>2. PICK j \in Nat : j = Cardinality(uses) BY <3>1, FS_CardinalityType
      <3>3. 0 >= j BY <1>5, <3>2 DEF Heads
      <3>4. j = 0 BY <3>3
      <3> QED BY <3>1, <3>2, <3>4, FS_EmptySet
    <2>3. \A i \in 1..k + 1 : Fits(r, i)
      <3>1. k + 1 > k /\ k + 1 \in Nat BY <1>1
      <3>2. \A i \in 1..k : Fits(r, i) BY <1>1, <1>4, <3>1
      <3>3. Fits(r, k + 1) BY <1>1, <2>2 DEF Fits
      <3> QED BY <1>3, <3>2, <3>3
    <2>4. AllAnswered(r) BY <1>1, <2>3, AnsweredFits
    <2>5. Alternates(r)
      <3> SUFFICES ASSUME NEW i \in 1..Len(r) - 1, r[i].role = "user", r[i + 1].role = "user"
                   PROVE  FALSE
        BY DEF Alternates
      <3>1. i \in 1..k BY <1>1
      <3>2. i + 1 # k + 1 BY <1>1
      <3>3. i \in 1..Len(h) - 1 /\ i + 1 \in 1..k BY <1>1, <3>1, <3>2
      <3> QED BY <1>0, <1>1, <3>1, <3>3 DEF Alternates
    <2>6. Below(r, n)
      <3>1. ASSUME NEW i \in 1..k + 1, NEW x \in Ids(r[i].blocks, TieKinds) PROVE x < n
        <4>1. CASE i \in 1..k BY <1>0, <1>1, <3>1, <4>1 DEF Below
        <4>2. CASE i = k + 1 BY <1>1, <3>1, <4>2
        <4> QED BY <1>3, <4>1, <4>2
      <3> QED BY <1>1, <3>1 DEF Below
    <2> QED BY <1>1, <2>1, <2>4, <2>5, <2>6 DEF Good, r
  <1>6. CASE b # <<>>
    <2>1. c = Append(r, User(b)) BY <1>6 DEF Close
    <2>2. User(b) \in Messages /\ User(b).role = "user" /\ User(b).blocks = b BY <1>6, UserType
    <2> HIDE DEF c
    <2>3. PICK l \in Nat : /\ l = Len(r) /\ Len(c) = l + 1
                           /\ DOMAIN c = 1..l + 1 /\ c \in Seq(Messages)
                           /\ \A i \in 1..l : c[i] = r[i]
                           /\ c[l + 1] = User(b)
      BY <1>1, <2>1, <2>2, AppendParts
    <2>4. /\ Len(c) = k + 2 /\ DOMAIN c = 1..k + 2
          /\ \A i \in 1..k : c[i] = h[i]
          /\ c[k + 1] = m /\ c[k + 2] = User(b)
      <3>1. l = k + 1 /\ k + 1 \in 1..l /\ l + 1 = k + 2 /\ \A i \in 1..k : i \in 1..l
        BY <1>1, <2>3
      <3> QED BY <1>1, <2>3, <3>1
    <2>5. \A i \in 1..k + 2 : i \in 1..k \/ i = k + 1 \/ i = k + 2 BY <1>1
    <2>6. \A i \in 1..k + 2 : Fits(c, i)
      <3>1. k + 2 > k /\ k + 2 \in Nat /\ k + 1 < k + 2 /\ (k + 1) + 1 = k + 2
            /\ (k + 2) - 1 = k + 1 /\ k + 2 # 1
        BY <1>1
      <3>2. \A i \in 1..k : Fits(c, i) BY <1>1, <1>4, <2>4, <3>1
      <3>3. Fits(c, k + 1) BY <2>2, <2>4, <3>1 DEF Fits
      <3>4. UsesBefore(c, k + 2) = uses BY <2>4, <3>1 DEF UsesBefore
      <3>5. Fits(c, k + 2) BY <2>2, <2>4, <3>4 DEF Fits
      <3> QED BY <2>5, <3>2, <3>3, <3>5
    <2>7. AllAnswered(c) BY <2>4, <2>6, AnsweredFits
    <2>8. Alternates(c)
      <3> SUFFICES ASSUME NEW i \in 1..Len(c) - 1, c[i].role = "user", c[i + 1].role = "user"
                   PROVE  FALSE
        BY DEF Alternates
      <3>1. i \in 1..k + 1 BY <1>1, <2>4
      <3>2. i # k + 1 BY <2>4
      <3>3. i + 1 # k + 1 BY <2>4
      <3>4. i \in 1..Len(h) - 1 /\ i + 1 \in 1..k /\ i \in 1..k BY <1>1, <3>1, <3>2, <3>3
      <3> QED BY <1>0, <2>4, <3>4 DEF Alternates
    <2>9. Below(c, n)
      <3>1. ASSUME NEW i \in 1..k + 2, NEW x \in Ids(c[i].blocks, TieKinds) PROVE x < n
        <4>1. CASE i \in 1..k BY <1>0, <1>1, <2>4, <3>1, <4>1 DEF Below
        <4>2. CASE i = k + 1 BY <2>4, <3>1, <4>2
        <4>3. CASE i = k + 2 BY <2>2, <2>4, <3>1, <4>3
        <4> QED BY <2>5, <4>1, <4>2, <4>3
      <3> QED BY <2>4, <3>1 DEF Below
    <2> QED BY <2>3, <2>7, <2>8, <2>9 DEF Good, c, r
  <1> QED BY <1>5, <1>6

LEMMA GoodRide ==
  ASSUME NEW n \in Nat, NEW h, Good(h, n),
         NEW b \in Seq(Blocks), b # <<>>, Ids(b, TieKinds) = {}
  PROVE  Good(Ride(h, b), n)
  <1>1. h \in Seq(Messages) /\ Alternates(h) /\ Below(h, n) /\ \A i \in DOMAIN h : Fits(h, i)
    BY AnsweredFits DEF Good
  <1>2. Ids(b, UseKinds) = {} /\ Ids(b, ResultKinds) = {} BY IdsKinds
  <1>3. CASE h # <<>> /\ Last(h).role = "user"
    <2>1. PICK s \in Seq(Messages), m \in Messages : h = Append(s, m) /\ m.role = "user"
      BY <1>1, <1>3, FrontLast
    <2> DEFINE c == m.blocks \o b
               t == Append(s, User(c))
    <2>2. m.blocks \in Seq(Blocks) BY MessageParts
    <2>3. c \in Seq(Blocks) /\ c # <<>> BY <2>2, CatType
    <2>4. Ids(c, TieKinds) = Ids(m.blocks, TieKinds) /\ Ids(c, UseKinds) = Ids(m.blocks, UseKinds)
      <3>1. ASSUME NEW kinds, Ids(b, kinds) = {} PROVE Ids(c, kinds) = Ids(m.blocks, kinds)
        <4>1. Ids(c, kinds) = Ids(m.blocks, kinds) \cup Ids(b, kinds) BY <2>2, IdsCat
        <4> HIDE DEF c
        <4> QED BY <3>1, <4>1
      <3> HIDE DEF c
      <3> QED BY <1>2, <3>1
    <2>5. \A uses : IsFiniteSet(uses) /\ Heads(m.blocks, uses) => Heads(c, uses)
      BY <1>2, <2>2, HeadsMore
    <2>6. Ride(h, b) = t BY <2>1, RideOn
    <2> HIDE DEF c, t
    <2>7. User(c) \in Messages /\ User(c).role = "user" /\ User(c).blocks = c BY <2>3, UserType
    <2>8. PICK k \in Nat : /\ k = Len(s) /\ Len(h) = k + 1 /\ DOMAIN h = 1..k + 1
                           /\ \A i \in 1..k : h[i] = s[i]
                           /\ h[k + 1] = m
      BY <2>1, AppendParts
    <2>9. t = Append(s, User(c)) BY DEF t
    <2>10. PICK l \in Nat : /\ l = Len(s) /\ Len(t) = l + 1 /\ DOMAIN t = 1..l + 1
                            /\ t \in Seq(Messages)
                            /\ \A i \in 1..l : t[i] = s[i]
                            /\ t[l + 1] = User(c)
      BY <2>7, <2>9, AppendParts
    <2>11. /\ Len(t) = k + 1 /\ DOMAIN t = 1..k + 1 /\ t[k + 1] = User(c)
           /\ \A i \in 1..k : t[i] = h[i]
           /\ \A i \in 1..k + 1 : t[i].role = h[i].role
      <3>1. \A i \in 1..k + 1 : i \in 1..k \/ i = k + 1 OBVIOUS
      <3> QED BY <2>1, <2>7, <2>8, <2>10, <3>1
    <2>12. ASSUME NEW i \in 1..k + 1 PROVE Fits(t, i)
      <3>1. i = 1 \/ i - 1 \in 1..k OBVIOUS
      <3>2. UsesBefore(t, i) = UsesBefore(h, i) BY <2>11, <3>1 DEF UsesBefore
      <3>3. Ids(t[i].blocks, UseKinds) = Ids(h[i].blocks, UseKinds)
        <4>1. CASE i \in 1..k BY <2>11, <4>1
        <4>2. CASE i = k + 1 BY <2>4, <2>7, <2>8, <2>11, <4>2
        <4> QED BY <4>1, <4>2
      <3>4. ASSUME Ids(h[i].blocks, UseKinds) # {} PROVE i < k + 1 /\ t[i + 1].role = "user"
        <4>1. i < k + 1 /\ h[i + 1].role = "user" BY <1>1, <2>8, <3>4 DEF Fits
        <4>2. i + 1 \in 1..k + 1 BY <4>1
        <4> QED BY <2>11, <4>1, <4>2
      <3>5. ASSUME t[i].role = "user" PROVE Heads(t[i].blocks, UsesBefore(h, i))
        <4>1. h[i].role = "user" BY <2>11, <3>5
        <4>2. Heads(h[i].blocks, UsesBefore(h, i)) BY <1>1, <2>8, <4>1 DEF Fits
        <4>3. CASE i \in 1..k BY <2>11, <4>2, <4>3
        <4>4. CASE i = k + 1
          <5>1. IsFiniteSet(UsesBefore(h, i))
            <6>1. CASE i = 1 BY <6>1, FS_EmptySet DEF UsesBefore
            <6>2. CASE i # 1
              <7>1. i - 1 \in 1..k + 1 BY <6>2
              <7>2. h[i - 1] \in Messages BY <1>1, <2>8, <7>1
              <7>3. h[i - 1].blocks \in Seq(Blocks) BY <7>2, MessageParts
              <7> QED BY <6>2, <7>3, IdsFinite DEF UsesBefore
            <6> QED BY <6>1, <6>2
          <5> QED BY <2>5, <2>7, <2>8, <2>11, <4>2, <4>4, <5>1
        <4> QED BY <4>3, <4>4
      <3> QED BY <2>11, <3>2, <3>3, <3>4, <3>5 DEF Fits
    <2>13. AllAnswered(t) BY <2>11, <2>12, AnsweredFits
    <2>14. Alternates(t)
      <3>1. \A i \in 1..Len(t) - 1 : i \in 1..k + 1 /\ i + 1 \in 1..k + 1 /\ i \in 1..Len(h) - 1
        BY <2>8, <2>11
      <3> QED BY <1>1, <2>11, <3>1 DEF Alternates
    <2>15. Below(t, n)
      <3>1. ASSUME NEW i \in 1..k + 1, NEW x \in Ids(t[i].blocks, TieKinds) PROVE x < n
        <4>1. Ids(t[i].blocks, TieKinds) = Ids(h[i].blocks, TieKinds)
          <5>1. CASE i \in 1..k BY <2>11, <5>1
          <5>2. CASE i = k + 1 BY <2>4, <2>7, <2>8, <2>11, <5>2
          <5> QED BY <5>1, <5>2
        <4> QED BY <1>1, <2>8, <3>1, <4>1 DEF Below
      <3> QED BY <2>11, <3>1 DEF Below
    <2> QED BY <2>6, <2>10, <2>13, <2>14, <2>15 DEF Good
  <1>4. CASE ~(h # <<>> /\ Last(h).role = "user")
    <2> DEFINE t == Append(h, User(b))
    <2>1. Ride(h, b) = t BY <1>1, <1>4, RideOff
    <2>2. User(b) \in Messages /\ User(b).role = "user" /\ User(b).blocks = b BY UserType
    <2>3. t = Append(h, User(b)) OBVIOUS
    <2> HIDE DEF t
    <2>4. PICK k \in Nat : /\ k = Len(h) /\ DOMAIN h = 1..k /\ Len(t) = k + 1
                           /\ DOMAIN t = 1..k + 1 /\ t \in Seq(Messages)
                           /\ \A i \in 1..k : t[i] = h[i]
                           /\ t[k + 1] = User(b)
      BY <1>1, <2>2, <2>3, AppendParts
    <2>5. k # 0 => Last(h) = h[k] /\ k \in DOMAIN h /\ h # <<>> BY <1>1, <2>4 DEF Last
    <2>6. k # 0 => Ids(h[k].blocks, UseKinds) = {}
      <3> SUFFICES ASSUME k # 0 PROVE Ids(h[k].blocks, UseKinds) = {} OBVIOUS
      <3>1. Fits(h, k) /\ ~(k < Len(h)) BY <1>1, <2>4, <2>5
      <3> QED BY <3>1 DEF Fits
    <2>7. ASSUME NEW i \in 1..k + 1 PROVE Fits(t, i)
      <3>1. CASE i \in 1..k
        <4>1. i = 1 \/ i - 1 \in 1..k OBVIOUS
        <4>2. UsesBefore(t, i) = UsesBefore(h, i) BY <2>4, <3>1, <4>1 DEF UsesBefore
        <4>3. ASSUME Ids(h[i].blocks, UseKinds) # {} PROVE i < k + 1 /\ t[i + 1].role = "user"
          <5>1. i < k /\ h[i + 1].role = "user" BY <1>1, <2>4, <3>1, <4>3 DEF Fits
          <5>2. i + 1 \in 1..k /\ i < k + 1 BY <5>1
          <5> QED BY <2>4, <5>1, <5>2
        <4> QED BY <1>1, <2>4, <3>1, <4>2, <4>3 DEF Fits
      <3>2. CASE i = k + 1
        <4>1. UsesBefore(t, i) = {}
          <5>1. CASE k = 0 BY <3>2, <5>1 DEF UsesBefore
          <5>2. CASE k # 0
            <6>1. i # 1 /\ i - 1 = k /\ k \in 1..k BY <3>2, <5>2
            <6> QED BY <2>4, <2>6, <5>2, <6>1 DEF UsesBefore
          <5> QED BY <5>1, <5>2
        <4>2. Heads(b, {}) BY <1>2, HeadsNone
        <4> QED BY <1>2, <2>2, <2>4, <3>2, <4>1, <4>2 DEF Fits
      <3> QED BY <3>1, <3>2
    <2>8. AllAnswered(t) BY <2>4, <2>7, AnsweredFits
    <2>9. Alternates(t)
      <3> SUFFICES ASSUME NEW i \in 1..Len(t) - 1, t[i].role = "user", t[i + 1].role = "user"
                   PROVE  FALSE
        BY DEF Alternates
      <3>1. i \in 1..k BY <2>4
      <3>2. CASE i = k
        <4>1. k # 0 /\ h[k] = t[i] BY <2>4, <3>1, <3>2
        <4> QED BY <1>4, <2>5, <4>1
      <3>3. CASE i # k
        <4>1. i \in 1..Len(h) - 1 /\ i + 1 \in 1..k BY <2>4, <3>1, <3>3
        <4> QED BY <1>1, <2>4, <3>1, <4>1 DEF Alternates
      <3> QED BY <3>2, <3>3
    <2>10. Below(t, n)
      <3>1. ASSUME NEW i \in 1..k + 1, NEW x \in Ids(t[i].blocks, TieKinds) PROVE x < n
        <4>1. CASE i \in 1..k BY <1>1, <2>4, <3>1, <4>1 DEF Below
        <4>2. CASE i = k + 1 BY <2>2, <2>4, <3>1, <4>2
        <4> QED BY <4>1, <4>2
      <3> QED BY <2>4, <3>1 DEF Below
    <2> QED BY <2>1, <2>4, <2>8, <2>9, <2>10 DEF Good
  <1> QED BY <1>3, <1>4

-----------------------------------------------------------------------------
(* Histories that only grow.                                               *)
LEMMA PrefixIs ==
  ASSUME NEW s \in Seq(Blocks), NEW t \in Seq(Blocks)
  PROVE  IsPrefix(s, t) <=> Len(s) <= Len(t) /\ \A i \in 1..Len(s) : t[i] = s[i]
  <1>1. PICK n \in Nat : n = Len(s) /\ DOMAIN s = 1..n OBVIOUS
  <1>2. PICK k \in Nat : k = Len(t) /\ DOMAIN t = 1..k OBVIOUS
  <1>3. SubSeq(s, 1, n) = s BY <1>1, SubSeqFull
  <1>4. ASSUME n <= k PROVE SubSeq(t, 1, n) = s <=> \A i \in 1..n : t[i] = s[i]
    <2> DEFINE u == SubSeq(t, 1, n)
    <2>1. \A i \in 1..n : i \in 1..k /\ t[i] \in Blocks BY <1>2, <1>4
    <2>2. /\ u \in Seq(Blocks) /\ Len(u) = IF 1 <= n THEN n - 1 + 1 ELSE 0
          /\ \A i \in 1..n - 1 + 1 : u[i] = t[1 + i - 1]
      BY <2>1, SubSeqProperties
    <2>3. Len(u) = n /\ \A i \in 1..n : u[i] = t[i] BY <2>2
    <2> HIDE DEF u
    <2>4. u = s <=> \A i \in 1..n : u[i] = s[i] BY <1>1, <2>2, <2>3, SeqEqual
    <2> QED BY <2>3, <2>4 DEF u
  <1> QED BY <1>1, <1>2, <1>3, <1>4 DEF IsPrefix

LEMMA PrefixSelf == ASSUME NEW s \in Seq(Blocks) PROVE IsPrefix(s, s)
  BY PrefixIs
LEMMA PrefixCat ==
  ASSUME NEW s \in Seq(Blocks), NEW t \in Seq(Blocks) PROVE IsPrefix(s, s \o t)
  <1>1. /\ s \o t \in Seq(Blocks) /\ Len(s \o t) = Len(s) + Len(t)
        /\ \A i \in 1..Len(s) : (s \o t)[i] = s[i]
    BY ConcatProperties
  <1>2. Len(s) <= Len(s) + Len(t) BY LenProperties
  <1> QED BY <1>1, <1>2, PrefixIs
LEMMA PrefixTrans ==
  ASSUME NEW s \in Seq(Blocks), NEW t \in Seq(Blocks), NEW u \in Seq(Blocks),
         IsPrefix(s, t), IsPrefix(t, u)
  PROVE  IsPrefix(s, u)
  <1>1. PICK i \in Nat, j \in Nat, k \in Nat : i = Len(s) /\ j = Len(t) /\ k = Len(u) OBVIOUS
  <1>2. i <= j /\ j <= k /\ (\A l \in 1..i : t[l] = s[l]) /\ \A l \in 1..j : u[l] = t[l]
    BY <1>1, PrefixIs
  <1>3. i <= k /\ \A l \in 1..i : u[l] = s[l] BY <1>2
  <1> QED BY <1>1, <1>3, PrefixIs

LEMMA ExtendsSelf == ASSUME NEW h \in Seq(Messages) PROVE Extends(h, h)
  <1> SUFFICES ASSUME NEW i \in DOMAIN h PROVE i <= Len(h) /\ IsPrefix(h[i].blocks, h[i].blocks)
    BY DEF Extends
  <1>1. h[i] \in Messages /\ i <= Len(h) OBVIOUS
  <1> QED BY <1>1, MessageParts, PrefixSelf

LEMMA ExtendsTrans ==
  ASSUME NEW a \in Seq(Messages), NEW b \in Seq(Messages), NEW c \in Seq(Messages),
         Extends(b, a), Extends(c, b)
  PROVE  Extends(c, a)
  <1>1. PICK k \in Nat, l \in Nat, n \in Nat : /\ k = Len(a) /\ DOMAIN a = 1..k
                                              /\ l = Len(b) /\ DOMAIN b = 1..l
                                              /\ n = Len(c) /\ DOMAIN c = 1..n
    OBVIOUS
  <1> SUFFICES ASSUME NEW i \in 1..k
               PROVE  /\ i <= n /\ c[i].role = a[i].role
                      /\ IF i < k THEN c[i].blocks = a[i].blocks
                                  ELSE IsPrefix(a[i].blocks, c[i].blocks)
    BY <1>1 DEF Extends
  <1>2. /\ i <= l /\ b[i].role = a[i].role
        /\ IF i < k THEN b[i].blocks = a[i].blocks ELSE IsPrefix(a[i].blocks, b[i].blocks)
    BY <1>1 DEF Extends
  <1>3. i \in 1..l BY <1>2
  <1>4. /\ i <= n /\ c[i].role = b[i].role
        /\ IF i < l THEN c[i].blocks = b[i].blocks ELSE IsPrefix(b[i].blocks, c[i].blocks)
    BY <1>1, <1>3 DEF Extends
  <1>5. a[i] \in Messages /\ b[i] \in Messages /\ c[i] \in Messages
    <2>1. i \in 1..n BY <1>4
    <2> QED BY <1>1, <1>3, <2>1
  <1>6. a[i].blocks \in Seq(Blocks) /\ b[i].blocks \in Seq(Blocks) /\ c[i].blocks \in Seq(Blocks)
    BY <1>5, MessageParts
  <1>7. CASE i < k
    <2>1. k <= l
      <3>1. k \in 1..k BY <1>7
      <3> QED BY <1>1, <3>1 DEF Extends
    <2>2. i < l BY <1>1, <1>7, <2>1
    <2> QED BY <1>2, <1>4, <1>7, <2>2
  <1>8. CASE ~(i < k)
    <2>1. IsPrefix(b[i].blocks, c[i].blocks)
      <3>1. CASE i < l BY <1>4, <1>6, <3>1, PrefixSelf
      <3>2. CASE ~(i < l) BY <1>4, <3>2
      <3> QED BY <3>1, <3>2
    <2>2. IsPrefix(a[i].blocks, c[i].blocks) BY <1>2, <1>6, <1>8, <2>1, PrefixTrans
    <2> QED BY <1>2, <1>4, <1>8, <2>2
  <1> QED BY <1>7, <1>8

LEMMA ExtendsAppend ==
  ASSUME NEW h \in Seq(Messages), NEW m \in Messages
  PROVE  Extends(Append(h, m), h)
  <1> DEFINE t == Append(h, m)
  <1>0. t = Append(h, m) OBVIOUS
  <1> HIDE DEF t
  <1>1. PICK n \in Nat : /\ n = Len(h) /\ DOMAIN h = 1..n /\ Len(t) = n + 1
                         /\ \A i \in 1..n : t[i] = h[i]
    BY <1>0, AppendParts
  <1> SUFFICES ASSUME NEW i \in 1..n
               PROVE  i <= n + 1 /\ IsPrefix(h[i].blocks, h[i].blocks)
    BY <1>0, <1>1 DEF Extends
  <1>2. h[i] \in Messages /\ i <= n + 1 BY <1>1
  <1> QED BY <1>2, MessageParts, PrefixSelf

LEMMA ExtendsRide ==
  ASSUME NEW h \in Seq(Messages), NEW b \in Seq(Blocks), b # <<>>
  PROVE  Extends(Ride(h, b), h)
  <1>1. CASE h # <<>> /\ Last(h).role = "user"
    <2>1. PICK s \in Seq(Messages), m \in Messages : h = Append(s, m) /\ m.role = "user"
      BY <1>1, FrontLast
    <2> DEFINE c == m.blocks \o b
               t == Append(s, User(c))
    <2>2. m.blocks \in Seq(Blocks) BY MessageParts
    <2>3. c \in Seq(Blocks) /\ c # <<>> /\ IsPrefix(m.blocks, c) BY <2>2, CatType, PrefixCat
    <2>4. Ride(h, b) = t BY <2>1, RideOn
    <2> HIDE DEF c, t
    <2>5. User(c) \in Messages /\ User(c).role = "user" /\ User(c).blocks = c BY <2>3, UserType
    <2>6. PICK k \in Nat : /\ k = Len(s) /\ Len(h) = k + 1 /\ DOMAIN h = 1..k + 1
                           /\ \A i \in 1..k : h[i] = s[i]
                           /\ h[k + 1] = m
      BY <2>1, AppendParts
    <2>7. t = Append(s, User(c)) BY DEF t
    <2>8. PICK l \in Nat : /\ l = Len(s) /\ Len(t) = l + 1
                           /\ \A i \in 1..l : t[i] = s[i]
                           /\ t[l + 1] = User(c)
      BY <2>5, <2>7, AppendParts
    <2>9. ASSUME NEW i \in 1..k + 1
          PROVE  /\ i <= k + 1 /\ t[i].role = h[i].role
                 /\ IF i < k + 1 THEN t[i].blocks = h[i].blocks
                                 ELSE IsPrefix(h[i].blocks, t[i].blocks)
      <3>1. CASE i \in 1..k BY <2>6, <2>8, <3>1
      <3>2. CASE i = k + 1 BY <2>1, <2>3, <2>5, <2>6, <2>8, <3>2
      <3> QED BY <3>1, <3>2
    <2> QED BY <2>4, <2>6, <2>8, <2>9 DEF Extends
  <1>2. CASE ~(h # <<>> /\ Last(h).role = "user")
    <2>1. User(b) \in Messages BY UserType
    <2>2. Ride(h, b) = Append(h, User(b)) BY <1>2, RideOff
    <2> QED BY <2>1, <2>2, ExtendsAppend
  <1> QED BY <1>1, <1>2

(* A history that is whole is given back as it stands.                     *)
LEMMA SelectedNothing ==
  ASSUME NEW s \in Seq(Blocks), NEW S, \A i \in DOMAIN s : s[i] \notin S
  PROVE  Selected(s, S) = <<>>
  <1>1. PICK n \in Nat : n = Len(s) /\ DOMAIN s = 1..n OBVIOUS
  <1>2. PICK f : Selects(f, s, S) BY SelectedIs
  <1> DEFINE g == [i \in 0..n |-> <<>>]
  <1>3. ASSUME NEW i \in 1..n, f[i - 1] = g[i - 1] PROVE f[i] = g[i]
    <2>1. i - 1 \in 0..n /\ i \in 0..n OBVIOUS
    <2> QED BY <1>1, <1>2, <1>3, <2>1 DEF Selects
  <1>4. f[0] = g[0] /\ g[n] = <<>> BY <1>2 DEF Selects
  <1> HIDE DEF g
  <1>5. Alongside(f, g, n) BY <1>3, <1>4 DEF Alongside
  <1>6. f[n] = g[n] BY <1>5, Agree
  <1> QED BY <1>1, <1>2, <1>4, <1>6 DEF Selects

LEMMA PendingNothing ==
  ASSUME NEW m \in Messages, NEW X, Ids(m.blocks, UseKinds) \subseteq X
  PROVE  Pending(m, X) = <<>>
  <1> DEFINE S == [kind : UseKinds, id : Nat \ X]
             b == m.blocks
             open == Selected(b, S)
  <1>1. b \in Seq(Blocks) BY MessageParts
  <1>2. ASSUME NEW i \in DOMAIN b PROVE b[i] \notin S
    <2>1. b[i].kind \in UseKinds => b[i].id \in X BY <1>1, IdsOf
    <2> QED BY <2>1
  <1> HIDE DEF S, b
  <1>3. open = <<>> BY <1>1, <1>2, SelectedNothing
  <1> HIDE DEF open
  <1>4. [i \in DOMAIN open |-> SyntheticResult(open[i])] = <<>> BY <1>3
  <1> QED BY <1>4 DEF Pending, open, S, b

LEMMA HistoryWhole ==
  ASSUME NEW n \in Nat, NEW h, Good(h, n)
  PROVE  HistoryOf(h) = h
  <1>1. h \in Seq(Messages) /\ Alternates(h) /\ \A i \in DOMAIN h : Fits(h, i)
    BY AnsweredFits DEF Good
  <1>2. PICK k \in Nat : k = Len(h) /\ DOMAIN h = 1..k BY <1>1
  <1>3. ASSUME NEW i \in 0..k PROVE Left(h, i) = <<>>
    <2>1. CASE i = 0 BY <2>1 DEF Left
    <2>2. CASE i # 0
      <3>1. i \in 1..k /\ h[i] \in Messages BY <1>1, <1>2, <2>2
      <3> DEFINE uses == Ids(h[i].blocks, UseKinds)
      <3>2. CASE h[i].role = "user" BY <2>2, <3>2, UserPending DEF Left
      <3>3. CASE h[i].role # "user"
        <4>1. uses \subseteq Answered(h)
          <5> SUFFICES ASSUME uses # {} PROVE uses \subseteq Answered(h) OBVIOUS
          <5>1. i < k /\ h[i + 1].role = "user" BY <1>1, <1>2, <3>1 DEF Fits
          <5>2. i + 1 \in 1..k /\ i + 1 # 1 /\ (i + 1) - 1 = i BY <3>1, <5>1
          <5> DEFINE b == h[i + 1].blocks
          <5>3. h[i + 1] \in Messages /\ b \in Seq(Blocks) BY <1>1, <1>2, <5>2, MessageParts
          <5>4. UsesBefore(h, i + 1) = uses BY <5>2 DEF UsesBefore
          <5>5. Heads(b, uses) BY <1>1, <1>2, <5>1, <5>2, <5>4 DEF Fits
          <5> HIDE DEF uses
          <5>6. uses \subseteq Ids(b, ResultKinds)
            <6> DEFINE c == Cardinality(uses)
                       a == SubSeq(b, 1, c)
            <6>0. IsFiniteSet(uses) BY <3>1, MessageParts, IdsFinite DEF uses
            <6>1. c \in Nat BY <6>0, FS_CardinalityType
            <6>2. PICK l \in Nat : l = Len(b) /\ DOMAIN b = 1..l BY <5>3
            <6>3. c <= l /\ Ids(a, ResultKinds) = uses BY <5>5, <6>1, <6>2 DEF Heads
            <6> HIDE DEF c
            <6>4. \A j \in 1..c : j \in 1..l /\ b[j] \in Blocks
              BY <5>3, <6>1, <6>2, <6>3
            <6>5. /\ a \in Seq(Blocks) /\ Len(a) = IF 1 <= c THEN c - 1 + 1 ELSE 0
                  /\ \A j \in 1..c - 1 + 1 : a[j] = b[1 + j - 1]
              BY <6>1, <6>4, SubSeqProperties
            <6>6. DOMAIN a = 1..c /\ \A j \in 1..c : a[j] = b[j]
              BY <6>1, <6>5
            <6> HIDE DEF a, b
            <6>7. ToSet(a) \subseteq ToSet(b) BY <6>2, <6>4, <6>6 DEF ToSet
            <6> QED BY <6>3, <6>7 DEF Ids
          <5>7. Ids(b, ResultKinds) \subseteq Answered(h)
            <6>1. h[i + 1] \in ToSet(h) BY <1>2, <5>2 DEF ToSet
            <6> QED BY <6>1 DEF Answered
          <5> QED BY <5>6, <5>7
        <4>2. Pending(h[i], Answered(h)) = <<>> BY <3>1, <4>1, PendingNothing
        <4> QED BY <2>2, <4>2 DEF Left
      <3> QED BY <3>2, <3>3
    <2> QED BY <2>1, <2>2
  <1> DEFINE part == [i \in 0..k |-> SubSeq(h, 1, i)]
  <1>4. part[0] = <<>> /\ part[k] = h
    <2>1. SubSeq(h, 1, 0) = <<>> /\ SubSeq(h, 1, k) = h BY <1>1, <1>2, SubSeqEmpty, SubSeqFull
    <2> QED BY <2>1
  <1>5. ASSUME NEW i \in 1..k
        PROVE  /\ part[i - 1] \in Seq(Messages) /\ h[i] \in Messages
               /\ part[i] = Append(part[i - 1], h[i])
               /\ i # 1 => Last(part[i - 1]) = h[i - 1]
               /\ i = 1 => part[i - 1] = <<>>
    <2>1. i - 1 \in 0..k /\ i \in 0..k /\ i - 1 \in Int /\ 1 \in Int OBVIOUS
    <2>2. h[i] \in Messages BY <1>1, <1>2
    <2> DEFINE a == SubSeq(h, 1, i - 1)
    <2>3. \A j \in 1..i - 1 : j \in 1..k /\ h[j] \in Messages BY <1>1, <1>2
    <2>4. /\ a \in Seq(Messages) /\ Len(a) = IF 1 <= i - 1 THEN i - 1 - 1 + 1 ELSE 0
          /\ \A j \in 1..i - 1 - 1 + 1 : a[j] = h[1 + j - 1]
      BY <2>1, <2>3, SubSeqProperties
    <2>5. a \in Seq(Messages) /\ Len(a) = i - 1 /\ \A j \in 1..i - 1 : a[j] = h[j] BY <2>4
    <2>6. SubSeq(h, 1, i) = Append(a, h[i])
      <3>1. 1 \in 1..Len(h) /\ i \in 1..Len(h) BY <1>2
      <3>2. SubSeq(h, 1, i) = a \o <<h[i]>> BY <1>1, <3>1, SubSeqRecursiveSecond
      <3>3. Append(a, h[i]) = a \o <<h[i]>> BY <2>2, <2>5, AppendIsConcat
      <3> QED BY <3>2, <3>3
    <2>7. i # 1 => Last(a) = h[i - 1]
      <3> SUFFICES ASSUME i # 1 PROVE Last(a) = h[i - 1] OBVIOUS
      <3>1. i - 1 \in 1..i - 1 OBVIOUS
      <3> HIDE DEF a
      <3> QED BY <2>5, <3>1 DEF Last
    <2>8. i = 1 => a = <<>>
      <3> SUFFICES ASSUME i = 1 PROVE a = <<>> OBVIOUS
      <3> QED BY SubSeqEmpty
    <2> QED BY <2>1, <2>2, <2>5, <2>6, <2>7, <2>8
  <1> HIDE DEF part
  <1>6. ASSUME NEW i \in 1..k
        PROVE  h[i] = Message(h[i].role, h[i].blocks) /\ h[i].blocks \in Seq(Blocks)
               /\ h[i].role \in {"user", "assistant"}
    BY <1>1, <1>2, MessageParts
  <1>7. Repair(h) = h
    <2>1. PICK f : Mends(f, h) BY <1>1, RepairIs
    <2>2. ASSUME NEW i \in 1..k, f[i - 1] = part[i - 1] PROVE f[i] = part[i]
      <3>1. i \in 1..Len(h) /\ i - 1 \in 0..k BY <1>2
      <3>2. Left(h, i - 1) = <<>> BY <1>3, <3>1
      <3>3. f[i] = IF h[i].role = "user"
                   THEN Append(part[i - 1], User(<<>> \o h[i].blocks))
                   ELSE Append(Close(part[i - 1], <<>>), h[i])
        BY <2>1, <2>2, <3>1, <3>2 DEF Mends
      <3>4. <<>> \o h[i].blocks = h[i].blocks BY <1>6, ConcatEmptySeq
      <3>5. h[i].role = "user" => User(h[i].blocks) = h[i] BY <1>6 DEF User
      <3>6. Close(part[i - 1], <<>>) = part[i - 1] BY DEF Close
      <3> QED BY <1>5, <3>3, <3>4, <3>5, <3>6
    <2>3. Alongside(f, part, k) BY <1>4, <2>1, <2>2 DEF Alongside, Mends
    <2>4. f[k] = h BY <1>4, <2>3, Agree
    <2>5. Left(h, k) = <<>> BY <1>3
    <2> QED BY <1>2, <2>1, <2>4, <2>5 DEF Mends, Close
  <1>8. Coalesce(h) = h
    <2>1. PICK g : Joins(g, h) BY <1>1, CoalesceIs
    <2>2. ASSUME NEW i \in 1..k, g[i - 1] = part[i - 1] PROVE g[i] = part[i]
      <3>1. i \in 1..Len(h) BY <1>2
      <3>2. g[i] = IF h[i].role = "user" THEN Ride(part[i - 1], h[i].blocks)
                                         ELSE Append(part[i - 1], h[i])
        BY <2>1, <2>2, <3>1 DEF Joins
      <3>3. ASSUME h[i].role = "user" PROVE Ride(part[i - 1], h[i].blocks) = part[i]
        <4>1. part[i - 1] = <<>> \/ Last(part[i - 1]).role # "user"
          <5> SUFFICES ASSUME i # 1 PROVE Last(part[i - 1]).role # "user" BY <1>5
          <5>1. i - 1 \in 1..Len(h) - 1 /\ (i - 1) + 1 = i BY <1>2
          <5>2. h[i - 1].role # "user" BY <1>1, <3>3, <5>1 DEF Alternates
          <5> QED BY <1>5, <5>2
        <4>2. Ride(part[i - 1], h[i].blocks) = Append(part[i - 1], User(h[i].blocks))
          BY <1>5, <4>1, RideOff
        <4>3. User(h[i].blocks) = h[i] BY <1>6, <3>3 DEF User
        <4> QED BY <1>5, <4>2, <4>3
      <3> QED BY <1>5, <3>2, <3>3
    <2>3. Alongside(g, part, k) BY <1>4, <2>1, <2>2 DEF Alongside, Joins
    <2>4. g[k] = h BY <1>4, <2>3, Agree
    <2> QED BY <1>2, <2>1, <2>4 DEF Joins
  <1> QED BY <1>7, <1>8 DEF HistoryOf

-----------------------------------------------------------------------------
(* What answers a turn of the model.                                       *)
LEMMA PairIs ==
  ASSUME NEW A, NEW x \in A, NEW y \in A
  PROVE  /\ <<x>> \in Seq(A) /\ <<y>> \in Seq(A) /\ <<x, y>> \in Seq(A)
         /\ Append(<<>>, x) = <<x>> /\ Append(<<x>>, y) = <<x, y>> /\ <<x>> \o <<y>> = <<x, y>>
  <1>1. <<x>> \in Seq(A) /\ <<y>> \in Seq(A) OBVIOUS
  <1>2. <<x, y>> \in Seq(A) OBVIOUS
  <1>3. Append(<<>>, x) = <<x>> OBVIOUS
  <1>4. Append(<<x>>, y) = <<x, y>>
    <2> DEFINE s == <<x>>
    <2>1. s \in Seq(A) /\ Len(s) = 1 /\ s[1] = x BY <1>1
    <2> HIDE DEF s
    <2> DEFINE t == Append(s, y)
               u == <<x, y>>
    <2>a. t = Append(s, y) OBVIOUS
    <2> HIDE DEF t
    <2>b. \E n \in Nat : /\ n = Len(s) /\ Len(t) = n + 1 /\ t \in Seq(A)
                         /\ \A i \in 1..n : t[i] = s[i]
                         /\ t[n + 1] = y
      BY <2>1, <2>a, AppendParts
    <2>2. t \in Seq(A) /\ Len(t) = 2 /\ t[1] = x /\ t[2] = y BY <2>1, <2>b
    <2>3. u \in Seq(A) /\ Len(u) = 2 /\ u[1] = x /\ u[2] = y BY <1>2
    <2> HIDE DEF u
    <2>4. t = u BY <2>2, <2>3, SeqEqual
    <2> QED BY <2>4 DEF s, t, u
  <1>5. Append(<<x>>, y) = <<x>> \o <<y>> BY <1>1, AppendIsConcat
  <1> QED BY <1>1, <1>2, <1>3, <1>4, <1>5

LEMMA SelectedOne ==
  ASSUME NEW x \in Blocks, NEW S
  PROVE  Selected(<<x>>, S) = IF x \in S THEN <<x>> ELSE <<>>
  <1>1. <<>> \in Seq(Blocks) /\ Append(<<>>, x) = <<x>> BY PairIs
  <1>2. Selected(Append(<<>>, x), S) = IF x \in S THEN Append(Selected(<<>>, S), x)
                                                  ELSE Selected(<<>>, S)
    BY <1>1, SelectedAppend
  <1> QED BY <1>1, <1>2, SelectedNone

LEMMA SelectedTwo ==
  ASSUME NEW x \in Blocks, NEW y \in Blocks, NEW S
  PROVE  Selected(<<x, y>>, S) = IF x \in S THEN IF y \in S THEN <<x, y>> ELSE <<x>>
                                            ELSE IF y \in S THEN <<y>> ELSE <<>>
  <1>1. /\ <<x>> \in Seq(Blocks) /\ Append(<<x>>, y) = <<x, y>>
        /\ Append(<<>>, y) = <<y>>
    BY PairIs
  <1>2. Selected(Append(<<x>>, y), S) = IF y \in S THEN Append(Selected(<<x>>, S), y)
                                                   ELSE Selected(<<x>>, S)
    BY <1>1, SelectedAppend
  <1> QED BY <1>1, <1>2, SelectedOne

(* The results of what a turn uses, each tool use with one.                *)
ToolResult(x) == Block("tool_result", x.id)
LEMMA ResultsParts ==
  ASSUME NEW b, NEW kinds, NEW uses, uses = Selected(b, [kind : kinds, id : Nat])
  PROVE  Results(b, kinds) = [i \in DOMAIN uses |-> ToolResult(uses[i])]
  BY DEF Results, ToolResult

LEMMA PendingParts ==
  ASSUME NEW b, NEW X, NEW open, open = Selected(b, [kind : UseKinds, id : Nat \ X])
  PROVE  Pending(Message("assistant", b), X) = [i \in DOMAIN open |-> SyntheticResult(open[i])]
  BY DEF Pending, Message

LEMMA TupleIs ==
  ASSUME NEW A, NEW r \in Seq(A)
  PROVE  /\ Len(r) = 0 => r = <<>>
         /\ Len(r) = 1 => r = <<r[1]>>
         /\ Len(r) = 2 => r = <<r[1], r[2]>>
  <1>1. ASSUME Len(r) = 1 PROVE r = <<r[1]>>
    <2> DEFINE u == <<r[1]>>
    <2>1. r[1] \in A BY <1>1
    <2>2. u \in Seq(A) /\ Len(u) = 1 /\ u[1] = r[1] BY <2>1
    <2> HIDE DEF u
    <2>3. r = u BY <1>1, <2>2, SeqEqual
    <2> QED BY <2>3 DEF u
  <1>2. ASSUME Len(r) = 2 PROVE r = <<r[1], r[2]>>
    <2> DEFINE u == <<r[1], r[2]>>
    <2>1. r[1] \in A /\ r[2] \in A BY <1>2
    <2>2. u \in Seq(A) /\ Len(u) = 2 /\ u[1] = r[1] /\ u[2] = r[2] BY <2>1
    <2> HIDE DEF u
    <2>3. r = u BY <1>2, <2>2, SeqEqual
    <2> QED BY <2>3 DEF u
  <1>3. Len(r) = 0 => r = <<>> BY EmptySeq
  <1> QED BY <1>1, <1>2, <1>3

LEMMA ResultIs ==
  ASSUME NEW x \in Blocks
  PROVE  /\ ToolResult(x) \in Blocks /\ ToolResult(x).id = x.id
         /\ ToolResult(x).kind \in ResultKinds
         /\ SyntheticResult(x) \in Blocks /\ SyntheticResult(x).id = x.id
         /\ SyntheticResult(x).kind \in ResultKinds
  <1>1. x.id \in Nat /\ {"tool_result", "reported", "interrupted"} \subseteq Kinds \cap ResultKinds
    BY DEF Blocks, Kinds, ResultKinds
  <1> QED BY <1>1, BlockType DEF ToolResult, SyntheticResult

(* Blocks that answer the uses, and no more than that.                     *)
Answers(a, uses) ==
    /\ a \in Seq(Blocks) /\ Ids(a, UseKinds) = {} /\ Ids(a, ResultKinds) = uses
    /\ Len(a) = Cardinality(uses)

LEMMA AnswersHead == ASSUME NEW a, NEW uses, Answers(a, uses) PROVE Heads(a, uses)
  BY HeadsAll DEF Answers

LEMMA AnswersNone == Answers(<<>>, {})
  <1>1. Cardinality({}) = 0 BY FS_EmptySet
  <1> QED BY <1>1, IdsNone DEF Answers

LEMMA ResultNotUse == ASSUME NEW k \in ResultKinds PROVE k \notin UseKinds
  BY DEF ResultKinds, UseKinds

LEMMA AnswersOne ==
  ASSUME NEW r \in Blocks, r.kind \in ResultKinds
  PROVE  Answers(<<r>>, {r.id})
  <1>1. Ids(<<r>>, UseKinds) = {} /\ Ids(<<r>>, ResultKinds) = {r.id} BY IdsOne, ResultNotUse
  <1>2. Cardinality({r.id}) = 1 BY FS_Singleton
  <1> QED BY <1>1, <1>2 DEF Answers

LEMMA AnswersTwo ==
  ASSUME NEW r \in Blocks, r.kind \in ResultKinds, NEW s \in Blocks, s.kind \in ResultKinds,
         r.id # s.id
  PROVE  Answers(<<r, s>>, {r.id, s.id})
  <1>1. <<r>> \in Seq(Blocks) /\ <<s>> \in Seq(Blocks) /\ <<r>> \o <<s>> = <<r, s>> BY PairIs
  <1>2. Answers(<<r>>, {r.id}) /\ Answers(<<s>>, {s.id}) BY AnswersOne
  <1>3. \A kinds : Ids(<<r, s>>, kinds) = Ids(<<r>>, kinds) \cup Ids(<<s>>, kinds)
    <2> DEFINE a == <<r>>
               c == <<s>>
    <2>1. a \in Seq(Blocks) /\ c \in Seq(Blocks) BY <1>1
    <2> HIDE DEF a, c
    <2>2. \A kinds : Ids(a \o c, kinds) = Ids(a, kinds) \cup Ids(c, kinds) BY <2>1, IdsCat
    <2> QED BY <1>1, <2>2 DEF a, c
  <1>a. Ids(<<r, s>>, UseKinds) = {} /\ Ids(<<r, s>>, ResultKinds) = {r.id, s.id}
    BY <1>2, <1>3 DEF Answers
  <1>4. Cardinality({r.id, s.id}) = 2
    <2>1. IsFiniteSet({r.id}) /\ Cardinality({r.id}) = 1 BY FS_Singleton
    <2>2. Cardinality({r.id} \cup {s.id}) = Cardinality({r.id}) + 1 BY <2>1, FS_AddElement
    <2>3. {r.id} \cup {s.id} = {r.id, s.id} OBVIOUS
    <2> QED BY <2>1, <2>2, <2>3
  <1> QED BY <1>1, <1>a, <1>4 DEF Answers

(* What is left of a turn to answer, and the answers, complete each other. *)
AnswersFit(b) ==
    LET uses     == Ids(b, UseKinds)
        siblings == Results(b, {"tool_use"})
        left(X)  == Pending(Message("assistant", b), X)
    IN /\ Ids(b, ResultKinds) = {}
       /\ Ids(siblings, ResultKinds) \subseteq uses
       /\ Answers(Results(b, UseKinds), uses)
       /\ \A X : uses \cap X = {} => Answers(left(X), uses)
       /\ \A X : uses \cap X = Ids(siblings, ResultKinds) => Answers(left(X) \o siblings, uses)

LEMMA ResultsOf ==
  ASSUME NEW b \in Seq(Blocks), NEW kinds, NEW uses,
         uses = Selected(b, [kind : kinds, id : Nat]), NEW p, p = Results(b, kinds)
  PROVE  /\ uses = <<>> => p = <<>>
         /\ \A x : uses = <<x>> => p = <<ToolResult(x)>>
         /\ \A x, y : uses = <<x, y>> => p = <<ToolResult(x), ToolResult(y)>>
  <1>1. p = [i \in DOMAIN uses |-> ToolResult(uses[i])] BY ResultsParts
  <1>2. p \in Seq(Blocks) BY ResultsType
  <1>3. ASSUME uses = <<>> PROVE p = <<>>
    <2>1. Len(p) = 0 BY <1>1, <1>2, <1>3
    <2> QED BY <1>2, <2>1, TupleIs
  <1>4. ASSUME NEW x, uses = <<x>> PROVE p = <<ToolResult(x)>>
    <2>1. DOMAIN p = 1..1 /\ p[1] = ToolResult(x) BY <1>1, <1>4
    <2>2. Len(p) = 1 BY <1>2, <2>1
    <2> QED BY <1>2, <2>1, <2>2, TupleIs
  <1>5. ASSUME NEW x, NEW y, uses = <<x, y>> PROVE p = <<ToolResult(x), ToolResult(y)>>
    <2>1. DOMAIN p = 1..2 /\ p[1] = ToolResult(x) /\ p[2] = ToolResult(y) BY <1>1, <1>5
    <2>2. Len(p) = 2 BY <1>2, <2>1
    <2> QED BY <1>2, <2>1, <2>2, TupleIs
  <1> QED BY <1>3, <1>4, <1>5

LEMMA PendingOf ==
  ASSUME NEW b \in Seq(Blocks), b # <<>>, NEW X, NEW open,
         open = Selected(b, [kind : UseKinds, id : Nat \ X]),
         NEW p, p = Pending(Message("assistant", b), X)
  PROVE  /\ open = <<>> => p = <<>>
         /\ \A x : open = <<x>> => p = <<SyntheticResult(x)>>
         /\ \A x, y : open = <<x, y>> => p = <<SyntheticResult(x), SyntheticResult(y)>>
  <1>1. p = [i \in DOMAIN open |-> SyntheticResult(open[i])] BY PendingParts
  <1>2. p \in Seq(Blocks) BY MessageType, PendingType
  <1>3. ASSUME open = <<>> PROVE p = <<>>
    <2>1. Len(p) = 0 BY <1>1, <1>2, <1>3
    <2> QED BY <1>2, <2>1, TupleIs
  <1>4. ASSUME NEW x, open = <<x>> PROVE p = <<SyntheticResult(x)>>
    <2>1. DOMAIN p = 1..1 /\ p[1] = SyntheticResult(x)
      <3>1. DOMAIN open = 1..1 /\ open[1] = x /\ 1 \in 1..1 BY <1>4
      <3> QED BY <1>1, <3>1
    <2>2. Len(p) = 1 BY <1>2, <2>1
    <2> QED BY <1>2, <2>1, <2>2, TupleIs
  <1>5. ASSUME NEW x, NEW y, open = <<x, y>>
        PROVE  p = <<SyntheticResult(x), SyntheticResult(y)>>
    <2>1. DOMAIN p = 1..2 /\ p[1] = SyntheticResult(x) /\ p[2] = SyntheticResult(y)
      <3>1. DOMAIN open = 1..2 /\ open[1] = x /\ open[2] = y /\ 1 \in 1..2 /\ 2 \in 1..2
        BY <1>5
      <3> QED BY <1>1, <3>1
    <2>2. Len(p) = 2 BY <1>2, <2>1
    <2> QED BY <1>2, <2>1, <2>2, TupleIs
  <1> QED BY <1>3, <1>4, <1>5

LEMMA OfKind ==
  ASSUME NEW x \in Blocks, NEW kinds
  PROVE  /\ x \in [kind : kinds, id : Nat] <=> x.kind \in kinds
         /\ \A X : x \in [kind : kinds, id : Nat \ X] <=> x.kind \in kinds /\ x.id \notin X
  BY DEF Blocks

LEMMA ResultsOf1 ==
  ASSUME NEW x \in Blocks, NEW kinds
  PROVE  Results(<<x>>, kinds) = IF x.kind \in kinds THEN <<ToolResult(x)>> ELSE <<>>
  <1> DEFINE S == [kind : kinds, id : Nat]
             b == <<x>>
             uses == Selected(b, S)
             p == Results(b, kinds)
  <1>1. b \in Seq(Blocks) /\ b # <<>> OBVIOUS
  <1>2. uses = Selected(b, [kind : kinds, id : Nat]) /\ p = Results(b, kinds) OBVIOUS
  <1>3. x \in S <=> x.kind \in kinds BY OfKind
  <1> HIDE DEF S
  <1>4. uses = IF x \in S THEN <<x>> ELSE <<>> BY SelectedOne
  <1> HIDE DEF b, uses, p
  <1>5. /\ uses = <<>> => p = <<>>
        /\ uses = <<x>> => p = <<ToolResult(x)>>
    BY <1>1, <1>2, ResultsOf
  <1> QED BY <1>3, <1>4, <1>5 DEF b, p

LEMMA ResultsOf2 ==
  ASSUME NEW x \in Blocks, NEW y \in Blocks, NEW kinds
  PROVE  Results(<<x, y>>, kinds) =
            IF x.kind \in kinds
            THEN IF y.kind \in kinds THEN <<ToolResult(x), ToolResult(y)>>
                 ELSE <<ToolResult(x)>>
            ELSE IF y.kind \in kinds THEN <<ToolResult(y)>> ELSE <<>>
  <1> DEFINE S == [kind : kinds, id : Nat]
             b == <<x, y>>
             uses == Selected(b, S)
             p == Results(b, kinds)
  <1>1. b \in Seq(Blocks) /\ b # <<>> OBVIOUS
  <1>2. uses = Selected(b, [kind : kinds, id : Nat]) /\ p = Results(b, kinds) OBVIOUS
  <1>3. (x \in S <=> x.kind \in kinds) /\ (y \in S <=> y.kind \in kinds) BY OfKind
  <1> HIDE DEF S
  <1>4. uses = IF x \in S THEN IF y \in S THEN <<x, y>> ELSE <<x>>
                          ELSE IF y \in S THEN <<y>> ELSE <<>>
    BY SelectedTwo
  <1> HIDE DEF b, uses, p
  <1>5. /\ uses = <<>> => p = <<>>
        /\ uses = <<x>> => p = <<ToolResult(x)>>
        /\ uses = <<y>> => p = <<ToolResult(y)>>
        /\ uses = <<x, y>> => p = <<ToolResult(x), ToolResult(y)>>
    BY <1>1, <1>2, ResultsOf
  <1> QED BY <1>3, <1>4, <1>5 DEF b, p

LEMMA PendingOf1 ==
  ASSUME NEW x \in Blocks, NEW X
  PROVE  Pending(Message("assistant", <<x>>), X) =
            IF x.kind \in UseKinds /\ x.id \notin X THEN <<SyntheticResult(x)>> ELSE <<>>
  <1> DEFINE S == [kind : UseKinds, id : Nat \ X]
             b == <<x>>
             uses == Selected(b, S)
             p == Pending(Message("assistant", b), X)
  <1>1. b \in Seq(Blocks) /\ b # <<>> OBVIOUS
  <1>2. /\ uses = Selected(b, [kind : UseKinds, id : Nat \ X])
        /\ p = Pending(Message("assistant", b), X)
    OBVIOUS
  <1>3. x \in S <=> (x.kind \in UseKinds /\ x.id \notin X) BY OfKind
  <1> HIDE DEF S
  <1>4. uses = IF x \in S THEN <<x>> ELSE <<>> BY SelectedOne
  <1> HIDE DEF b, uses, p
  <1>5. /\ uses = <<>> => p = <<>>
        /\ uses = <<x>> => p = <<SyntheticResult(x)>>
    BY <1>1, <1>2, PendingOf
  <1> QED BY <1>3, <1>4, <1>5 DEF b, p

LEMMA PendingOf2 ==
  ASSUME NEW x \in Blocks, NEW y \in Blocks, NEW X
  PROVE  Pending(Message("assistant", <<x, y>>), X) =
            IF x.kind \in UseKinds /\ x.id \notin X
            THEN IF y.kind \in UseKinds /\ y.id \notin X
                 THEN <<SyntheticResult(x), SyntheticResult(y)>>
                 ELSE <<SyntheticResult(x)>>
            ELSE IF y.kind \in UseKinds /\ y.id \notin X THEN <<SyntheticResult(y)>> ELSE <<>>
  <1> DEFINE S == [kind : UseKinds, id : Nat \ X]
             b == <<x, y>>
             uses == Selected(b, S)
             p == Pending(Message("assistant", b), X)
  <1>1. b \in Seq(Blocks) /\ b # <<>> OBVIOUS
  <1>2. /\ uses = Selected(b, [kind : UseKinds, id : Nat \ X])
        /\ p = Pending(Message("assistant", b), X)
    OBVIOUS
  <1>3. /\ x \in S <=> x.kind \in UseKinds /\ x.id \notin X
        /\ y \in S <=> y.kind \in UseKinds /\ y.id \notin X
    BY OfKind
  <1> HIDE DEF S
  <1>4. uses = IF x \in S THEN IF y \in S THEN <<x, y>> ELSE <<x>>
                          ELSE IF y \in S THEN <<y>> ELSE <<>>
    BY SelectedTwo
  <1> HIDE DEF b, uses, p
  <1>5. /\ uses = <<>> => p = <<>>
        /\ uses = <<x>> => p = <<SyntheticResult(x)>>
        /\ uses = <<y>> => p = <<SyntheticResult(y)>>
        /\ uses = <<x, y>> => p = <<SyntheticResult(x), SyntheticResult(y)>>
    BY <1>1, <1>2, PendingOf
  <1> QED BY <1>3, <1>4, <1>5 DEF b, p

LEMMA FitText == AnswersFit(<<Text>>)
  <1> DEFINE b == <<Text>>
             uses == Ids(b, UseKinds)
             all == Results(b, UseKinds)
             siblings == Results(b, {"tool_use"})
             left(X) == Pending(Message("assistant", b), X)
  <1>1. Text \in Blocks /\ Text.kind \notin UseKinds /\ Text.kind # "tool_use"
        /\ Text.kind \notin ResultKinds
    BY TextType DEF UseKinds, ResultKinds
  <1>2. uses = {} /\ Ids(b, ResultKinds) = {} BY <1>1, IdsOne
  <1>3. all = <<>> /\ siblings = <<>> BY <1>1, ResultsOf1
  <1>4. \A X : left(X) = <<>> BY <1>1, PendingOf1
  <1>5. <<>> \o <<>> = <<>> OBVIOUS
  <1> HIDE DEF uses, all, siblings, left, b
  <1>6. Answers(<<>>, uses) BY <1>2, AnswersNone
  <1>7. AnswersFit(b)
    BY <1>2, <1>3, <1>4, <1>5, <1>6, IdsNone DEF AnswersFit, uses, all, siblings, left
  <1> QED BY <1>7 DEF b

LEMMA FitOne ==
  ASSUME NEW x \in Blocks, x.kind \in UseKinds
  PROVE  AnswersFit(<<x>>)
  <1> DEFINE b == <<x>>
             uses == Ids(b, UseKinds)
             all == Results(b, UseKinds)
             siblings == Results(b, {"tool_use"})
             left(X) == Pending(Message("assistant", b), X)
             r == ToolResult(x)
             s == SyntheticResult(x)
  <1>1. uses = {x.id} /\ Ids(b, ResultKinds) = {} BY IdsOne, ResultNotUse
  <1>2. all = <<r>> BY ResultsOf1
  <1>3. siblings = IF x.kind = "tool_use" THEN <<r>> ELSE <<>>
    <2>1. siblings = IF x.kind \in {"tool_use"} THEN <<r>> ELSE <<>> BY ResultsOf1
    <2> QED BY <2>1
  <1>4. \A X : left(X) = IF x.id \notin X THEN <<s>> ELSE <<>>
    <2>1. \A X : left(X) = IF x.kind \in UseKinds /\ x.id \notin X THEN <<s>> ELSE <<>>
      BY PendingOf1
    <2> QED BY <2>1
  <1>5. r \in Blocks /\ r.id = x.id /\ r.kind \in ResultKinds BY ResultIs
  <1>6. s \in Blocks /\ s.id = x.id /\ s.kind \in ResultKinds BY ResultIs
  <1> HIDE DEF b, uses, all, siblings, left, r, s
  <1>7. Answers(<<r>>, uses) /\ Answers(<<s>>, uses) BY <1>1, <1>5, <1>6, AnswersOne
  <1>8. <<>> \o <<r>> = <<r>> /\ <<s>> \o <<>> = <<s>> BY <1>7, ConcatEmptySeq DEF Answers
  <1>9. \A X : uses \cap X = {} => Answers(left(X), uses) BY <1>1, <1>4, <1>7
  <1>10. ASSUME NEW X, uses \cap X = Ids(siblings, ResultKinds)
         PROVE  Answers(left(X) \o siblings, uses)
    <2>1. CASE x.kind = "tool_use"
      <3>1. siblings = <<r>> BY <1>3, <2>1
      <3>2. Ids(siblings, ResultKinds) = uses BY <3>1, <1>7 DEF Answers
      <3>3. left(X) = <<>> BY <1>1, <1>4, <1>10, <3>2
      <3> QED BY <1>7, <1>8, <3>1, <3>3
    <2>2. CASE x.kind # "tool_use"
      <3>1. siblings = <<>> BY <1>3, <2>2
      <3>2. Ids(siblings, ResultKinds) = {} BY <3>1, IdsNone
      <3>3. left(X) = <<s>> BY <1>1, <1>4, <1>10, <3>2
      <3> QED BY <1>7, <1>8, <3>1, <3>3
    <2> QED BY <2>1, <2>2
  <1>11. Ids(siblings, ResultKinds) \subseteq uses BY <1>3, <1>7, IdsNone DEF Answers
  <1>12. AnswersFit(b)
    BY <1>1, <1>2, <1>7, <1>9, <1>10, <1>11 DEF AnswersFit, uses, all, siblings, left
  <1> QED BY <1>12 DEF b

LEMMA FitTwo ==
  ASSUME NEW x \in Blocks, x.kind = "tool_use", NEW y \in Blocks, y.kind \in UseKinds,
         x.id # y.id
  PROVE  AnswersFit(<<x, y>>)
  <1> DEFINE b == <<x, y>>
             uses == Ids(b, UseKinds)
             all == Results(b, UseKinds)
             siblings == Results(b, {"tool_use"})
             left(X) == Pending(Message("assistant", b), X)
             rx == ToolResult(x)
             ry == ToolResult(y)
             sx == SyntheticResult(x)
             sy == SyntheticResult(y)
  <1>a. x.kind \in UseKinds BY DEF UseKinds
  <1>1. uses = {x.id, y.id} /\ Ids(b, ResultKinds) = {}
    <2> DEFINE c == <<x>>
               d == <<y>>
    <2>1. c \in Seq(Blocks) /\ d \in Seq(Blocks) /\ c \o d = b BY PairIs
    <2>2. Ids(c, UseKinds) = {x.id} /\ Ids(d, UseKinds) = {y.id}
          /\ Ids(c, ResultKinds) = {} /\ Ids(d, ResultKinds) = {}
      BY <1>a, IdsOne, ResultNotUse
    <2> HIDE DEF b, c, d
    <2>3. \A kinds : Ids(c \o d, kinds) = Ids(c, kinds) \cup Ids(d, kinds) BY <2>1, IdsCat
    <2> QED BY <2>1, <2>2, <2>3
  <1>2. all = <<rx, ry>> BY <1>a, ResultsOf2
  <1>3. siblings = IF y.kind = "tool_use" THEN <<rx, ry>> ELSE <<rx>>
    <2> DEFINE K == {"tool_use"}
    <2>1. (x.kind \in K) /\ (y.kind \in K <=> y.kind = "tool_use") OBVIOUS
    <2>2. siblings = Results(b, K) OBVIOUS
    <2> HIDE DEF K, siblings
    <2>3. Results(b, K) = IF y.kind \in K THEN <<rx, ry>> ELSE <<rx>> BY <2>1, ResultsOf2
    <2> QED BY <2>1, <2>2, <2>3
  <1>4. \A X : left(X) = IF x.id \notin X THEN IF y.id \notin X THEN <<sx, sy>> ELSE <<sx>>
                                          ELSE IF y.id \notin X THEN <<sy>> ELSE <<>>
    BY <1>a, PendingOf2
  <1>5. /\ rx \in Blocks /\ rx.id = x.id /\ rx.kind \in ResultKinds
        /\ ry \in Blocks /\ ry.id = y.id /\ ry.kind \in ResultKinds
    BY ResultIs
  <1>6. /\ sx \in Blocks /\ sx.id = x.id /\ sx.kind \in ResultKinds
        /\ sy \in Blocks /\ sy.id = y.id /\ sy.kind \in ResultKinds
    BY <1>a, ResultIs
  <1> HIDE DEF b, uses, all, siblings, left, rx, ry, sx, sy
  <1>7. Answers(<<rx, ry>>, uses) /\ Answers(<<sx, sy>>, uses)
    BY <1>1, <1>5, <1>6, AnswersTwo
  <1>8. Answers(<<sy, rx>>, uses)
    <2>1. Answers(<<sy, rx>>, {y.id, x.id}) BY <1>5, <1>6, AnswersTwo
    <2>2. {y.id, x.id} = {x.id, y.id} OBVIOUS
    <2> QED BY <1>1, <2>1, <2>2
  <1>9. \A X : uses \cap X = {} => Answers(left(X), uses)
    <2> SUFFICES ASSUME NEW X, uses \cap X = {} PROVE Answers(left(X), uses) OBVIOUS
    <2>1. left(X) = <<sx, sy>> BY <1>1, <1>4
    <2> QED BY <1>7, <2>1
  <1>10. ASSUME NEW X, uses \cap X = Ids(siblings, ResultKinds)
         PROVE  Answers(left(X) \o siblings, uses)
    <2>1. CASE y.kind = "tool_use"
      <3>1. siblings = <<rx, ry>> BY <1>3, <2>1
      <3>2. Ids(siblings, ResultKinds) = uses /\ siblings \in Seq(Blocks)
        BY <3>1, <1>7 DEF Answers
      <3>3. left(X) = <<>> BY <1>1, <1>4, <1>10, <3>2
      <3>4. <<>> \o siblings = siblings BY <3>2, ConcatEmptySeq
      <3> QED BY <1>7, <3>1, <3>3, <3>4
    <2>2. CASE y.kind # "tool_use"
      <3>1. siblings = <<rx>> BY <1>3, <2>2
      <3>2. Ids(siblings, ResultKinds) = {x.id} BY <3>1, <1>5, IdsOne
      <3>3. x.id \in X /\ y.id \notin X BY <1>1, <1>10, <3>2
      <3>4. left(X) = <<sy>> BY <1>4, <3>3
      <3>5. <<sy>> \o <<rx>> = <<sy, rx>> BY <1>5, <1>6, PairIs
      <3> QED BY <1>8, <3>1, <3>4, <3>5
    <2> QED BY <2>1, <2>2
  <1>11. Ids(siblings, ResultKinds) \subseteq uses
    <2>1. CASE y.kind = "tool_use" BY <1>3, <1>7, <2>1 DEF Answers
    <2>2. CASE y.kind # "tool_use"
      <3>1. Ids(siblings, ResultKinds) = {x.id} BY <1>3, <1>5, <2>2, IdsOne
      <3> QED BY <1>1, <3>1
    <2> QED BY <2>1, <2>2
  <1>12. AnswersFit(b)
    BY <1>1, <1>2, <1>7, <1>9, <1>10, <1>11 DEF AnswersFit, uses, all, siblings, left
  <1> QED BY <1>12 DEF b

LEMMA TurnFits ==
  ASSUME NEW t \in Nat, NEW b \in TurnContents(t)
  PROVE  AnswersFit(b) /\ \A i \in Ids(b, UseKinds) : i \in {10 * t + 1, 10 * t + 2}
  <1> DEFINE i1 == 10 * t + 1
             i2 == 10 * t + 2
             x == Block("tool_use", i1)
             y == Block("tool_use", i2)
             p == Block("report_result", i1)
             q == Block("report_result", i2)
  <1>1. b \in {<<Text>>, <<x>>, <<x, y>>, <<p>>, <<x, q>>} BY DEF TurnContents
  <1>2. i1 \in Nat /\ i2 \in Nat /\ i1 # i2 OBVIOUS
  <1> HIDE DEF i1, i2
  <1>3. /\ x \in Blocks /\ x.kind = "tool_use" /\ x.id = i1
        /\ y \in Blocks /\ y.kind = "tool_use" /\ y.id = i2
    BY <1>2, BlockType DEF Kinds, UseKinds
  <1>4. /\ p \in Blocks /\ p.kind = "report_result" /\ p.id = i1
        /\ q \in Blocks /\ q.kind = "report_result" /\ q.id = i2
    BY <1>2, BlockType DEF Kinds, UseKinds
  <1> HIDE DEF x, y, p, q
  <1>5. /\ x.kind \in UseKinds /\ y.kind \in UseKinds
        /\ p.kind \in UseKinds /\ q.kind \in UseKinds
    BY <1>3, <1>4 DEF UseKinds
  <1>6. ASSUME NEW a \in Blocks, a.kind \in UseKinds PROVE Ids(<<a>>, UseKinds) = {a.id}
    BY <1>6, IdsOne
  <1>7. ASSUME NEW a \in Blocks, a.kind \in UseKinds, NEW c \in Blocks, c.kind \in UseKinds
        PROVE  Ids(<<a, c>>, UseKinds) = {a.id, c.id}
    <2> DEFINE d == <<a>>
               e == <<c>>
    <2>1. d \in Seq(Blocks) /\ e \in Seq(Blocks) /\ d \o e = <<a, c>> BY PairIs
    <2>2. Ids(d, UseKinds) = {a.id} /\ Ids(e, UseKinds) = {c.id} BY <1>6, <1>7
    <2> HIDE DEF d, e
    <2>3. \A kinds : Ids(d \o e, kinds) = Ids(d, kinds) \cup Ids(e, kinds) BY <2>1, IdsCat
    <2> QED BY <2>1, <2>2, <2>3
  <1>8. CASE b = <<Text>>
    <2>1. Ids(b, UseKinds) = {} BY <1>8, TextType, IdsOne DEF UseKinds
    <2> QED BY <1>8, <2>1, FitText
  <1>9. CASE b = <<x>> BY <1>3, <1>5, <1>6, <1>9, FitOne DEF i1
  <1>10. CASE b = <<p>> BY <1>4, <1>5, <1>6, <1>10, FitOne DEF i1
  <1>11. CASE b = <<x, y>>
    <2>1. Ids(b, UseKinds) = {i1, i2} BY <1>3, <1>5, <1>7, <1>11
    <2>2. AnswersFit(b) BY <1>2, <1>3, <1>5, <1>11, FitTwo
    <2> QED BY <2>1, <2>2 DEF i1, i2
  <1>12. CASE b = <<x, q>>
    <2>1. Ids(b, UseKinds) = {i1, i2} BY <1>3, <1>4, <1>5, <1>7, <1>12
    <2>2. AnswersFit(b) BY <1>2, <1>3, <1>4, <1>5, <1>12, FitTwo
    <2> QED BY <2>1, <2>2 DEF i1, i2
  <1> QED BY <1>1, <1>8, <1>9, <1>10, <1>11, <1>12

-----------------------------------------------------------------------------
(* What a transcript keeps as it grows: the next replay of it is a history *)
(* an endpoint accepts, with ids below n.                                  *)
Sound(s, n) == Below(s, n) /\ Good(HistoryOf(s), n)

LEMMA BelowAppend ==
  ASSUME NEW s \in Seq(Messages), NEW m \in Messages, NEW n, Below(s, n),
         \A x \in Ids(m.blocks, TieKinds) : x < n
  PROVE  Below(Append(s, m), n)
  <1> DEFINE t == Append(s, m)
  <1>1. t = Append(s, m) OBVIOUS
  <1> HIDE DEF t
  <1>2. PICK k \in Nat : /\ k = Len(s) /\ DOMAIN s = 1..k /\ DOMAIN t = 1..k + 1
                         /\ \A i \in 1..k : t[i] = s[i]
                         /\ t[k + 1] = m
    BY <1>1, AppendParts
  <1>3. ASSUME NEW i \in 1..k + 1, NEW x \in Ids(t[i].blocks, TieKinds) PROVE x < n
    <2>1. CASE i \in 1..k
      <3>1. t[i] = s[i] /\ i \in DOMAIN s BY <1>2, <2>1
      <3> QED BY <1>3, <3>1 DEF Below
    <2>2. CASE i \notin 1..k
      <3>1. i = k + 1 BY <1>2, <2>2
      <3> QED BY <1>2, <1>3, <3>1
    <2> QED BY <2>1, <2>2
  <1>4. Below(t, n) BY <1>2, <1>3 DEF Below
  <1> QED BY <1>4 DEF t

LEMMA BelowMore ==
  ASSUME NEW s \in Seq(Messages), NEW n \in Nat, NEW k \in Nat, n <= k, Below(s, n)
  PROVE  Below(s, k)
  <1> SUFFICES ASSUME NEW i \in DOMAIN s, NEW x \in Ids(s[i].blocks, TieKinds) PROVE x < k
    BY DEF Below
  <1>1. s[i] \in Messages OBVIOUS
  <1>2. s[i].blocks \in Seq(Blocks) BY <1>1, MessageParts
  <1>3. x \in Nat BY <1>2, IdsOf
  <1>4. x < n BY DEF Below
  <1> QED BY <1>3, <1>4

LEMMA GoodMore ==
  ASSUME NEW h, NEW n \in Nat, NEW k \in Nat, n <= k, Good(h, n)
  PROVE  Good(h, k)
  BY BelowMore DEF Good

LEMMA GoodNone == ASSUME NEW n PROVE Good(<<>>, n)
  <1> DEFINE h == <<>>
  <1>1. h \in Seq(Messages) /\ Len(h) = 0 /\ DOMAIN h = {} OBVIOUS
  <1>2. 1..Len(h) - 1 = {} BY <1>1
  <1> HIDE DEF h
  <1>3. Good(h, n) BY <1>1, <1>2 DEF Good, Below, Alternates, AllAnswered
  <1> QED BY <1>3 DEF h

(* The facts about a turn b of the model, with t turns before it.          *)
LEMMA TurnIds ==
  ASSUME NEW t \in Nat, NEW b \in TurnContents(t)
  PROVE  /\ b \in Seq(Blocks) /\ b # <<>> /\ AnswersFit(b) /\ Ids(b, ResultKinds) = {}
         /\ \A x \in Ids(b, UseKinds) : x \in Nat /\ 10 * t < x /\ x < 10 * (t + 1)
         /\ \A x \in Ids(b, TieKinds) : x < 10 * (t + 1)
  <1>1. b \in Seq(Blocks) /\ b # <<>> BY TurnContentsType
  <1>2. AnswersFit(b) /\ \A x \in Ids(b, UseKinds) : x \in {10 * t + 1, 10 * t + 2} BY TurnFits
  <1>3. Ids(b, ResultKinds) = {} BY <1>2 DEF AnswersFit
  <1>4. \A x \in {10 * t + 1, 10 * t + 2} : x \in Nat /\ 10 * t < x /\ x < 10 * (t + 1)
    OBVIOUS
  <1>5. \A x \in Ids(b, UseKinds) : x \in Nat /\ 10 * t < x /\ x < 10 * (t + 1)
    BY <1>2, <1>4
  <1> QED BY <1>1, <1>2, <1>3, <1>5, IdsKinds

(* Ids of a turn are new to everything before it.                          *)
LEMMA FreshUses ==
  ASSUME NEW t \in Nat, NEW b \in TurnContents(t), NEW s \in Seq(Messages), Below(s, 10 * t)
  PROVE  /\ Ids(b, UseKinds) \cap Answered(s) = {}
         /\ \A i \in 1..Len(s) : Ids(s[i].blocks, UseKinds) \cap Ids(b, UseKinds) = {}
  <1>1. ASSUME NEW i \in 1..Len(s), NEW x \in Ids(s[i].blocks, TieKinds)
        PROVE  x \notin Ids(b, UseKinds)
    <2>1. i \in DOMAIN s /\ s[i] \in Messages OBVIOUS
    <2>2. s[i].blocks \in Seq(Blocks) BY <2>1, MessageParts
    <2>3. x < 10 * t BY <2>1, <1>1 DEF Below
    <2>4. x \in Nat BY <2>2, <1>1, IdsOf
    <2>5. ASSUME x \in Ids(b, UseKinds) PROVE FALSE
      <3>1. 10 * t < x BY <2>5, TurnIds
      <3> QED BY <2>3, <2>4, <3>1
    <2> QED BY <2>5
  <1>2. ASSUME NEW x \in Answered(s) PROVE x \notin Ids(b, UseKinds)
    <2>1. PICK m \in ToSet(s) : x \in Ids(m.blocks, ResultKinds) BY <1>2 DEF Answered
    <2>2. PICK i \in 1..Len(s) : m = s[i] BY <2>1 DEF ToSet
    <2>3. x \in Ids(s[i].blocks, TieKinds) BY <2>1, <2>2, IdsKinds
    <2> QED BY <1>1, <2>3
  <1> QED BY <1>1, <1>2, IdsKinds

LEMMA SoundMore ==
  ASSUME NEW s \in Seq(Messages), NEW n \in Nat, NEW k \in Nat, n <= k, Sound(s, n)
  PROVE  Sound(s, k)
  BY BelowMore, GoodMore DEF Sound

(* A history an endpoint accepts is a transcript that replays to itself.   *)
LEMMA SoundSelf ==
  ASSUME NEW n \in Nat, NEW h, Good(h, n)
  PROVE  h \in Seq(Messages) /\ HistoryOf(h) = h /\ Sound(h, n)
  BY HistoryWhole DEF Sound, Good

(* A user turn that answers nothing joins the end of the history.          *)
LEMMA SoundRide ==
  ASSUME NEW n \in Nat, NEW s \in Seq(Messages), Sound(s, n),
         NEW u \in Seq(Blocks), u # <<>>, Ids(u, TieKinds) = {}
  PROVE  /\ HistoryOf(Append(s, User(u))) = Ride(HistoryOf(s), u)
         /\ Append(s, User(u)) \in Seq(Messages)
         /\ Sound(Append(s, User(u)), n)
  <1> DEFINE h == HistoryOf(s)
             r == Append(s, User(u))
  <1>1. User(u) \in Messages /\ User(u).role = "user" /\ User(u).blocks = u BY UserType
  <1>2. Ids(u, UseKinds) = {} /\ Ids(u, ResultKinds) = {} BY IdsKinds
  <1> HIDE DEF h
  <1>3. HistoryOf(r) = Ride(h, u) BY <1>1, <1>2, HistoryRide DEF h
  <1>4. Below(r, n) BY <1>1, BelowAppend DEF Sound
  <1>5. Good(Ride(h, u), n) BY GoodRide DEF Sound, h
  <1>6. r \in Seq(Messages) BY <1>1
  <1> QED BY <1>3, <1>4, <1>5, <1>6 DEF Sound, h

(* A turn of the model joins it with the synthetic results of its uses.    *)
LEMMA SoundTurn ==
  ASSUME NEW t \in Nat, NEW b \in TurnContents(t), NEW s \in Seq(Messages), Sound(s, 10 * t),
         NEW m, m = Message("assistant", b)
  PROVE  /\ m \in Messages /\ Append(s, m) \in Seq(Messages)
         /\ Sound(Append(s, m), 10 * (t + 1))
         /\ \E p \in Seq(Blocks) : HistoryOf(Append(s, m)) = Close(Append(HistoryOf(s), m), p)
  <1> DEFINE h == HistoryOf(s)
             n == 10 * (t + 1)
             p == Pending(m, Answered(s))
             q == Append(h, m)
             r == Append(s, m)
  <1>1. n \in Nat /\ 10 * t \in Nat /\ 10 * t <= n OBVIOUS
  <1>2. Below(s, 10 * t) /\ Good(h, 10 * t) /\ h \in Seq(Messages) BY DEF Sound, Good
  <1>3. /\ b \in Seq(Blocks) /\ b # <<>> /\ AnswersFit(b) /\ Ids(b, ResultKinds) = {}
        /\ \A x \in Ids(b, UseKinds) : x < n
        /\ \A x \in Ids(b, TieKinds) : x < n
    BY TurnIds
  <1>4. m \in Messages /\ m.role = "assistant" /\ m.blocks = b BY <1>3, MessageType
  <1>5. Ids(b, UseKinds) \cap Answered(s) = {} BY <1>2, FreshUses
  <1>6. Answers(p, Ids(b, UseKinds)) BY <1>3, <1>5 DEF AnswersFit
  <1>7. HistoryOf(r) = Close(q, p) BY <1>3, <1>4, HistoryTurn
  <1>8. r \in Seq(Messages) BY <1>4
  <1> HIDE DEF n, h, p, r
  <1>9. p \in Seq(Blocks) /\ Ids(p, UseKinds) = {} /\ Heads(p, Ids(b, UseKinds))
    BY <1>6, AnswersHead DEF Answers
  <1>10. Good(Close(q, p), n)
    <2>1. Good(h, n) BY <1>1, <1>2, GoodMore
    <2>2. Ids(p, TieKinds) = Ids(b, UseKinds) BY <1>6, IdsKinds DEF Answers
    <2>3. \A x \in Ids(m.blocks, TieKinds) \cup Ids(p, TieKinds) : x < n
      BY <1>3, <1>4, <2>2
    <2> QED BY <1>1, <1>4, <1>9, <2>1, <2>3, GoodTurn
  <1>11. Below(r, n)
    <2>1. Below(s, n) BY <1>1, <1>2, BelowMore
    <2> QED BY <1>3, <1>4, <2>1, BelowAppend DEF r
  <1>12. Sound(r, n) BY <1>7, <1>10, <1>11 DEF Sound
  <1> QED BY <1>4, <1>7, <1>8, <1>9, <1>12 DEF n, h, q, r

(* What answers the turn joins it too, before the turn's own synthetic     *)
(* results; an answer that goes on leaves none of these.                   *)
AnswerTo(b, accepted) ==
    IF accepted THEN Results(b, {"tool_use"})
    ELSE IF Results(b, UseKinds) = <<>> THEN <<Text>> ELSE Results(b, UseKinds)
(* What a replay makes of a turn m and the answer a recorded after it.      *)
Joined(s, m, a, accepted) ==
    \E c \in Seq(Blocks) :
       /\ c # <<>> /\ (~accepted => c = a)
       /\ HistoryOf(Append(Append(s, m), User(a))) = Append(Append(HistoryOf(s), m), User(c))

LEMMA SoundAnswer ==
  ASSUME NEW t \in Nat, NEW b \in TurnContents(t), NEW s \in Seq(Messages), Sound(s, 10 * t),
         NEW m, m = Message("assistant", b),
         NEW accepted \in BOOLEAN, NEW a, a = AnswerTo(b, accepted), a # <<>>
  PROVE  /\ Append(Append(s, m), User(a)) \in Seq(Messages)
         /\ Sound(Append(Append(s, m), User(a)), 10 * (t + 1))
         /\ Joined(s, m, a, accepted)
  <1> DEFINE uses == Ids(b, UseKinds)
             n == 10 * (t + 1)
             h == HistoryOf(s)
             q == Append(h, m)
             all == Results(b, UseKinds)
             siblings == Results(b, {"tool_use"})
             u == User(a)
             X == Answered(s) \cup Ids(a, ResultKinds)
             p == Pending(m, X)
             r == Append(Append(s, m), u)
  <1>1. n \in Nat /\ 10 * t \in Nat /\ 10 * t <= n OBVIOUS
  <1>2. Below(s, 10 * t) /\ Good(h, 10 * t) /\ h \in Seq(Messages) BY DEF Sound, Good
  <1>3. /\ b \in Seq(Blocks) /\ b # <<>> /\ AnswersFit(b) /\ Ids(b, ResultKinds) = {}
        /\ \A x \in uses : x < n
        /\ \A x \in Ids(b, TieKinds) : x < n
    BY TurnIds
  <1>4. m \in Messages /\ m.role = "assistant" /\ m.blocks = b BY <1>3, MessageType
  <1>5. a = IF accepted THEN siblings ELSE IF all = <<>> THEN <<Text>> ELSE all
    BY DEF AnswerTo
  <1>6. a \in Seq(Blocks)
    <2>1. all \in Seq(Blocks) /\ siblings \in Seq(Blocks) BY <1>3, ResultsType
    <2> HIDE DEF all, siblings
    <2> QED BY <1>5, <2>1, TextType
  <1>7. u \in Messages /\ u.role = "user" /\ u.blocks = a BY <1>6, UserType
  <1>8. uses \cap Answered(s) = {}
        /\ \A i \in 1..Len(s) : Ids(s[i].blocks, UseKinds) \cap uses = {}
    BY <1>2, FreshUses
  <1>9. r \in Seq(Messages) BY <1>4, <1>7
  <1> HIDE DEF uses, n, h, q, all, siblings, u, X, p, r
  (* The answer completes what is pending, and one that goes on leaves     *)
  (* nothing pending.                                                      *)
  <1> DEFINE c == p \o a
  <1>10. Ids(a, UseKinds) = {} /\ Ids(a, ResultKinds) \subseteq uses /\ p \in Seq(Blocks)
         /\ (~accepted => p = <<>>)
         /\ Ids(c, UseKinds) = {} /\ Ids(c, ResultKinds) = uses /\ Heads(c, uses)
    <2>1. p \in Seq(Blocks) BY <1>4, PendingType DEF p
    <2>2. Answers(all, uses) BY <1>3 DEF AnswersFit, all, uses
    <2>3. CASE accepted
      <3>1. a = siblings BY <1>5, <2>3
      <3>2. Ids(a, ResultKinds) \subseteq uses BY <1>3, <3>1 DEF AnswersFit, siblings, uses
      <3>3. uses \cap X = Ids(a, ResultKinds) BY <1>8, <3>2 DEF X
      <3>4. Answers(c, uses)
        <4>1. p = Pending(Message("assistant", b), X) BY DEF p
        <4>2. Answers(Pending(Message("assistant", b), X) \o siblings, uses)
          BY <1>3, <3>1, <3>3 DEF AnswersFit, siblings, uses
        <4> QED BY <3>1, <4>1, <4>2
      <3>5. \A kinds : Ids(c, kinds) = Ids(p, kinds) \cup Ids(a, kinds) BY <1>6, <2>1, IdsCat
      <3>6. Ids(c, UseKinds) = Ids(p, UseKinds) \cup Ids(a, UseKinds) BY <3>5
      <3> QED BY <2>1, <2>3, <3>2, <3>4, <3>6, AnswersHead DEF Answers
    <2>4. ASSUME ~accepted, Ids(a, ResultKinds) = uses PROVE p = <<>> /\ c = a
      <3>1. Ids(m.blocks, UseKinds) \subseteq X BY <1>4, <2>4 DEF X, uses
      <3>2. p = <<>> BY <1>4, <3>1, PendingNothing DEF p
      <3> QED BY <1>6, <3>2, ConcatEmptySeq
    <2>5. CASE ~accepted /\ all # <<>>
      <3>1. a = all BY <1>5, <2>5
      <3>2. Ids(a, ResultKinds) = uses BY <2>2, <3>1 DEF Answers
      <3>3. p = <<>> /\ c = a BY <2>4, <2>5, <3>2
      <3> HIDE DEF c
      <3> QED BY <2>1, <2>2, <3>1, <3>3, AnswersHead DEF Answers
    <2>6. CASE ~accepted /\ all = <<>>
      <3>1. a = <<Text>> BY <1>5, <2>6
      <3>2. uses = {} BY <2>2, <2>6, IdsNone DEF Answers
      <3>3. Ids(a, ResultKinds) = {} /\ Ids(a, UseKinds) = {}
        BY <3>1, TextType, IdsOne DEF UseKinds, ResultKinds
      <3>4. p = <<>> /\ c = a BY <2>4, <2>6, <3>2, <3>3
      <3>5. Heads(a, {}) BY <1>6, <3>3, HeadsNone
      <3> HIDE DEF c
      <3> QED BY <2>1, <3>2, <3>3, <3>4, <3>5
    <2> QED BY <2>3, <2>5, <2>6
  <1>11. c \in Seq(Blocks) /\ c # <<>> BY <1>6, <1>10, CatType
  <1>12. ~accepted => c = a BY <1>6, <1>10, ConcatEmptySeq
  <1>13. HistoryOf(r) = Append(q, User(c))
    <2>1. Ids(m.blocks, ResultKinds) = {} BY <1>3, <1>4
    <2>2. \A i \in 1..Len(s) : Ids(s[i].blocks, UseKinds) \cap Ids(u.blocks, ResultKinds) = {}
      BY <1>7, <1>8, <1>10
    <2>3. p = Pending(m, Answered(s) \cup Ids(u.blocks, ResultKinds)) BY <1>7 DEF p, X
    <2> HIDE DEF c
    <2>4. HistoryOf(Append(Append(s, m), u))
             = Append(Append(HistoryOf(s), m), User(p \o u.blocks))
      BY <1>4, <1>7, <2>1, <2>2, <2>3, HistoryAnswer, ZenonT(60)
    <2> QED BY <1>7, <2>4 DEF h, q, c, r
  <1>14. Ids(c, TieKinds) = uses /\ Ids(a, TieKinds) \subseteq uses BY <1>10, IdsKinds
  <1> HIDE DEF c
  <1>15. Good(Append(q, User(c)), n)
    <2>1. Good(h, n) BY <1>1, <1>2, GoodMore
    <2>2. Ids(m.blocks, UseKinds) = uses BY <1>4 DEF uses
    <2>3. \A x \in Ids(m.blocks, TieKinds) \cup Ids(c, TieKinds) : x < n
      BY <1>3, <1>4, <1>14
    <2>4. Good(Close(Append(h, m), c), n)
      BY <1>1, <1>4, <1>10, <1>11, <2>1, <2>2, <2>3, GoodTurn
    <2> QED BY <1>11, <2>4 DEF Close, q
  <1>16. Below(r, n)
    <2>1. Append(s, m) \in Seq(Messages) BY <1>4
    <2>2. Below(s, n) BY <1>1, <1>2, BelowMore
    <2>3. Below(Append(s, m), n) BY <1>3, <1>4, <2>2, BelowAppend
    <2>4. \A x \in Ids(u.blocks, TieKinds) : x < n BY <1>3, <1>7, <1>14
    <2> QED BY <1>7, <2>1, <2>3, <2>4, BelowAppend DEF r
  <1>17. Sound(r, n) BY <1>13, <1>15, <1>16 DEF Sound
  <1> QED BY <1>9, <1>11, <1>12, <1>13, <1>17 DEF n, h, q, r, u, Joined

-----------------------------------------------------------------------------
(* The file, torn or not: it replays to a sound history whenever it        *)
(* parses, and so do the lines the next append leaves alone.               *)
Settled(d) == IF d.open THEN Front(d.lines) ELSE d.lines
Sober(d, n) ==
    /\ Parses(d.lines) => Sound(ReadMessages(d.lines), n)
    /\ AllWhole(Settled(d)) => Sound(ReadMessages(Settled(d)), n)

LEMMA SettledType ==
  ASSUME NEW d, DiskOK(d)
  PROVE  /\ LinesOK(Settled(d))
         /\ AllWhole(Settled(d)) => ReadMessages(Settled(d)) \in Seq(Messages)
         /\ Parses(d.lines) => ReadMessages(d.lines) \in Seq(Messages)
  <1>1. LinesOK(Settled(d)) BY LinesFront DEF DiskOK, Settled
  <1>2. AllWhole(Settled(d)) => Parses(Settled(d)) BY <1>1, WholeIs
  <1> QED BY <1>1, <1>2, ReadType DEF DiskOK

LEMMA SoberMore ==
  ASSUME NEW d, DiskOK(d), NEW n \in Nat, NEW k \in Nat, n <= k, Sober(d, n)
  PROVE  Sober(d, k)
  BY SettledType, SoundMore DEF Sober

(* One line more: the file parses only if every line before it is whole.   *)
LEMMA AppendReads ==
  ASSUME NEW z, LinesOK(z), NEW x, LineOK(x), NEW y, y = Append(z, x)
  PROVE  /\ Front(y) = z
         /\ Parses(y) => AllWhole(z)
         /\ AllWhole(y) => AllWhole(z) /\ x.whole
         /\ AllWhole(z) /\ ~x.whole => ReadMessages(y) = ReadMessages(z)
         /\ AllWhole(z) /\ x.whole =>
               ReadMessages(y) = Append(ReadMessages(z), Message(x.role, x.blocks))
  <1>1. z \in Seq(LineType) /\ x \in LineType BY DEF LinesOK, LineOK
  <1>2. PICK n \in Nat : /\ n = Len(z) /\ DOMAIN z = 1..n /\ Len(y) = n + 1
                         /\ DOMAIN y = 1..n + 1 /\ y \in Seq(LineType)
                         /\ \A i \in 1..n : y[i] = z[i]
                         /\ y[n + 1] = x
    <2> DEFINE A == LineType
    <2>1. z \in Seq(A) /\ x \in A BY <1>1
    <2> HIDE DEF A
    <2>2. PICK n \in Nat : n = Len(z) BY <2>1
    <2>3. /\ DOMAIN z = 1..n /\ Len(y) = n + 1 /\ DOMAIN y = 1..n + 1 /\ y \in Seq(A)
          /\ \A i \in 1..n : y[i] = z[i]
          /\ y[n + 1] = x
      BY <2>1, <2>2, AppendProperties, LenProperties
    <2> QED BY <2>2, <2>3 DEF A
  <1>3. Last(y) = x /\ y # <<>> BY <1>1, LastAppend
  <1>4. Front(y) = z
    <2>1. Front(y) \in Seq(LineType) /\ y = Append(Front(y), x) BY <1>2, <1>3, FrontLast
    <2> QED BY <1>1, <2>1, AppendInjective
  <1>5. \A i \in 1..n : i \in 1..n + 1 /\ i # n + 1 BY <1>2
  <1>6. Parses(y) => AllWhole(z) BY <1>2, <1>5 DEF Parses, AllWhole
  <1>7. AllWhole(y) => AllWhole(z) /\ x.whole
    <2>1. n + 1 \in DOMAIN y BY <1>2
    <2> QED BY <1>2, <1>5, <2>1 DEF AllWhole
  <1>8. ASSUME AllWhole(z), ~x.whole PROVE ReadMessages(y) = ReadMessages(z)
    <2>1. WholeLines(y) = z BY <1>3, <1>4, <1>8 DEF WholeLines
    <2>2. WholeLines(z) = z BY <1>8, WholeIs
    <2> QED BY <2>1, <2>2 DEF ReadMessages
  <1>9. ASSUME AllWhole(z), x.whole
        PROVE  ReadMessages(y) = Append(ReadMessages(z), Message(x.role, x.blocks))
    <2> DEFINE d == [lines |-> z, open |-> FALSE]
    <2>1. DiskOK(d) /\ d.lines = z /\ d.open = FALSE BY DEF DiskOK
    <2>2. PICK e : e = Write(d, x) OBVIOUS
    <2>3. e.lines = y BY <2>1, <2>2 DEF Write
    <2> HIDE DEF d
    <2>4. ReadMessages(e.lines) = Append(ReadMessages(d.lines), Message(x.role, x.blocks))
      BY <1>9, <2>1, <2>2, WriteWhole
    <2> QED BY <2>1, <2>3, <2>4
  <1> QED BY <1>4, <1>6, <1>7, <1>8, <1>9

LEMMA GrowSober ==
  ASSUME NEW d, DiskOK(d), NEW n \in Nat, NEW k \in Nat, n <= k, Sober(d, n),
         NEW line, LineOK(line), line.whole,
         d.open = FALSE /\ AllWhole(d.lines) =>
             Sound(Append(ReadMessages(d.lines), Message(line.role, line.blocks)), k),
         NEW part \in {Broken, line},
         NEW e, e.lines = Write(d, part).lines, e.open \in BOOLEAN
  PROVE  Sober(e, k)
  <1> DEFINE z == Settled(d)
             x == IF d.open THEN Broken ELSE part
             y == e.lines
  <1>1. y = Append(z, x) BY DEF Write, Settled
  <1>2. LineOK(x) BY BrokenFacts
  <1>3. x.whole => d.open = FALSE /\ x = line
    BY BrokenFacts DEF DiskOK
  <1>4. LinesOK(z) BY SettledType
  <1>5. AllWhole(z) => Sound(ReadMessages(z), k) BY SettledType, SoundMore DEF Sober
  <1>6. x.whole => z = d.lines BY <1>3 DEF Settled
  <1>7. Settled(e) = IF e.open THEN Front(y) ELSE y BY DEF Settled
  <1> HIDE DEF z, x, y
  <1>8. ASSUME AllWhole(z) PROVE Sound(ReadMessages(y), k)
    <2>1. CASE x.whole
      <3>1. ReadMessages(y) = Append(ReadMessages(z), Message(x.role, x.blocks))
        BY <1>1, <1>2, <1>4, <1>8, <2>1, AppendReads
      <3> QED BY <1>3, <1>6, <1>8, <2>1, <3>1
    <2>2. CASE ~x.whole
      <3>1. ReadMessages(y) = ReadMessages(z) BY <1>1, <1>2, <1>4, <1>8, <2>2, AppendReads
      <3> QED BY <1>5, <1>8, <3>1
    <2> QED BY <2>1, <2>2
  <1>9. (Parses(y) \/ AllWhole(y) => AllWhole(z)) /\ Front(y) = z
    BY <1>1, <1>2, <1>4, AppendReads
  <1>10. Parses(y) => Sound(ReadMessages(y), k) BY <1>8, <1>9
  <1>11. AllWhole(Settled(e)) => Sound(ReadMessages(Settled(e)), k)
    <2>1. CASE e.open BY <1>5, <1>7, <1>9, <2>1
    <2>2. CASE ~e.open BY <1>7, <1>8, <1>9, <2>2
    <2> QED BY <2>1, <2>2
  <1> QED BY <1>10, <1>11 DEF Sober, y

LEMMA CopySober ==
  ASSUME NEW g, NEW n \in Nat, Good(g, n)
  PROVE  Sober(CopyOf(g), n)
  <1>1. g \in Seq(Messages) /\ Sound(g, n) BY SoundSelf
  <1>2. AllWhole(CopyOf(g).lines) /\ ReadMessages(CopyOf(g).lines) = g
        /\ CopyOf(g).open = FALSE
    BY <1>1, CopyReads, CopyOK
  <1> QED BY <1>1, <1>2 DEF Sober, Settled

-----------------------------------------------------------------------------
(* The inductive invariant of well-formed requests, torn appends included: *)
(* the worker's memory is a sound history of its own, and so is what any   *)
(* relaunch can read.                                                      *)
Read == ReadMessages(disk.lines)
NextId == 10 * (turns + 1)
Holding == {"seeded", "draining", "flushed", "calling"}
(* A turn of the model awaits its answer, in memory and, if the file still *)
(* parses, in the Thread; its ids are newer than any before it.            *)
Awaited(h, s, b) ==
    LET m == Message("assistant", b) IN
    /\ worker.messages = Append(h, m) /\ Good(h, 10 * turns)
    /\ AllWhole(disk.lines) => Read = Append(s, m) /\ Sound(s, 10 * turns)
Clean ==
    /\ Sober(disk, NextId)
    /\ worker.pc \in Holding => Good(worker.messages, NextId)
    /\ worker.pc = "answered" =>
          /\ disk.open = FALSE
          /\ \E h, s \in Seq(Messages), b \in TurnContents(turns) : Awaited(h, s, b)

LEMMA IdsNat == Typed => turns \in Nat /\ 10 * turns \in Nat /\ NextId \in Nat
  BY BoundsAssumption DEF Typed, CountsOK, NextId

LEMMA CleanInit == Init => Clean
  <1> SUFFICES ASSUME Init PROVE Clean OBVIOUS
  <1>1. disk.lines = <<>> /\ disk.open = FALSE /\ turns = 0 /\ worker.pc = "off"
    BY OffType DEF Init, EmptyDisk
  <1>2. WholeLines(<<>>) = <<>> BY DEF WholeLines
  <1>3. ReadMessages(<<>>) = <<>> BY <1>2 DEF ReadMessages
  <1>4. NextId \in Nat BY <1>1 DEF NextId
  <1>5. Sound(<<>>, NextId) BY <1>4, GoodNone, SoundSelf
  <1> QED BY <1>1, <1>3, <1>5 DEF Clean, Sober, Settled, Holding

(* Steps that leave the Thread alone.                                      *)
LEMMA CleanQuiet ==
  ASSUME Clean, disk' = disk, turns' = turns,
         \/ worker'.messages = worker.messages
            /\ worker'.pc \in Holding /\ worker.pc \in Holding
         \/ worker'.pc \notin Holding \cup {"answered"}
         \/ worker' = worker
  PROVE  Clean'
  <1>1. NextId' = NextId /\ Sober(disk, NextId)' BY DEF Clean, NextId
  <1>2. CASE worker' = worker
    <2>1. ASSUME NEW h, NEW s, NEW b, Awaited(h, s, b) PROVE Awaited(h, s, b)'
      BY <1>2, <2>1 DEF Awaited, Read
    <2> QED BY <1>1, <1>2, <2>1 DEF Clean
  <1>3. CASE worker'.messages = worker.messages /\ worker'.pc \in Holding /\ worker.pc \in Holding
    <2>1. worker'.pc # "answered" BY <1>3 DEF Holding
    <2> QED BY <1>1, <1>3, <2>1 DEF Clean
  <1>4. CASE worker'.pc \notin Holding \cup {"answered"} BY <1>1, <1>4 DEF Clean
  <1> QED BY <1>2, <1>3, <1>4

(* The answer as a function of the turn it answers.                        *)
LEMMA AnswerIs ==
  ASSUME NEW h \in Seq(Messages), NEW b \in Contents, NEW accepted \in BOOLEAN,
         worker.messages = Append(h, Message("assistant", b))
  PROVE  Answer(accepted) = AnswerTo(b, accepted)
  <1>1. Message("assistant", b) \in Messages /\ Message("assistant", b).blocks = b
    BY MessageType DEF Contents
  <1>2. Last(worker.messages) = Message("assistant", b) BY <1>1, LastAppend
  <1>3. LastTurn = b BY <1>1, <1>2 DEF LastTurn
  <1> QED BY <1>3 DEF Answer, AnswerTo

(* Whatever record comes next, a file that parses stays sound with it.     *)
After(t) == 10 * (t + 1)
LEMMA NextSound ==
  ASSUME Typed, Clean, NEW line \in NextLines, disk.open = FALSE, AllWhole(disk.lines),
         NEW t, t = IF worker.pc = "calling" THEN turns + 1 ELSE turns
  PROVE  Sound(Append(Read, Message(line.role, line.blocks)), After(t))
  <1>1. LineOK(line) /\ line.whole BY NextLinesFacts
  <1>2. Settled(disk) = disk.lines BY DEF Settled
  <1>3. Read \in Seq(Messages) /\ Sound(Read, NextId)
    BY <1>2, SettledType DEF Typed, Clean, Sober, Read
  <1>4. turns \in Nat /\ NextId \in Nat BY IdsNat
  <1>5. ASSUME line.role = "user", Ids(line.blocks, TieKinds) = {}, t = turns
        PROVE  Sound(Append(Read, Message(line.role, line.blocks)), After(t))
    <2>1. line.blocks \in Seq(Blocks) /\ line.blocks # <<>> BY NextLinesFacts
    <2>2. Sound(Append(Read, User(line.blocks)), NextId) BY <1>3, <1>4, <1>5, <2>1, SoundRide
    <2>3. After(t) = NextId BY <1>5 DEF After, NextId
    <2> QED BY <1>5, <2>2, <2>3 DEF User
  <1>6. CASE worker.pc = "calling"
    <2>1. line \in {Line("assistant", blocks) : blocks \in TurnContents(turns + 1)}
      BY <1>6 DEF NextLines, Injecting
    <2>2. PICK b \in TurnContents(turns + 1) : line = Line("assistant", b) BY <2>1
    <2>3. line.role = "assistant" /\ line.blocks = b BY <2>2 DEF Line
    <2>4. t \in Nat /\ NextId = 10 * t /\ t = turns + 1 BY <1>4, <1>6 DEF NextId
    <2>5. Sound(Append(Read, Message("assistant", b)), 10 * (t + 1))
      BY <1>3, <2>2, <2>4, SoundTurn
    <2> QED BY <2>3, <2>5 DEF After
  <1>7. CASE worker.pc = "answered"
    <2>1. PICK h \in Seq(Messages), s \in Seq(Messages), b \in TurnContents(turns) : Awaited(h, s, b)
      BY <1>7 DEF Clean
    <2>2. PICK accepted \in Acceptance : line = Line("user", Answer(accepted))
      BY <1>7, NextLinesFacts
    <2>3. accepted \in BOOLEAN BY DEF Acceptance
    <2>4. b \in Contents BY <1>4, TurnContentsType DEF Contents
    <2>5. Answer(accepted) = AnswerTo(b, accepted) BY <2>1, <2>3, <2>4, AnswerIs DEF Awaited
    <2>6. line.role = "user" /\ line.blocks = AnswerTo(b, accepted) /\ line.blocks # <<>>
      <3>1. line.blocks # <<>> BY NextLinesFacts
      <3> QED BY <2>2, <2>5, <3>1 DEF Line
    <2>7. t = turns /\ t \in Nat BY <1>4, <1>7
    <2>8. Read = Append(s, Message("assistant", b)) /\ Sound(s, 10 * t)
      BY <2>1, <2>7 DEF Awaited
    <2>9. Sound(Append(Append(s, Message("assistant", b)), User(line.blocks)), 10 * (t + 1))
      BY <2>3, <2>6, <2>7, <2>8, SoundAnswer
    <2> QED BY <2>6, <2>8, <2>9 DEF After, User
  <1>8. CASE worker.pc = "seeded"
    <2>1. line = Line("user", <<Text>>) BY <1>8, NextLinesFacts
    <2>2. line.role = "user" /\ line.blocks = <<Text>> BY <2>1 DEF Line
    <2>3. Ids(<<Text>>, TieKinds) = {}
      BY TextType, IdsOne DEF TieKinds, UseKinds, ResultKinds
    <2> QED BY <1>5, <1>8, <2>2, <2>3
  <1>9. CASE Injecting
    <2>1. line = SteerLine(Eldest) BY <1>9, NextLinesFacts
    <2>2. Eldest \in Steers BY <1>9, EldestIs DEF Injecting, Typed
    <2>3. line.role = "user" /\ line.blocks = <<Block("steer", Eldest)>>
      BY <2>1, <2>2, SteerLineFacts
    <2>4. Ids(line.blocks, TieKinds) = {}
      <3>1. Block("steer", Eldest).kind = "steer" BY DEF Block
      <3> QED BY <2>3, <3>1, IdsOne DEF TieKinds, UseKinds, ResultKinds
    <2>5. t = turns BY <1>9 DEF Injecting
    <2> QED BY <1>5, <2>3, <2>4, <2>5
  <1>10. CASE worker.pc \notin {"seeded", "calling", "answered"} /\ ~Injecting
    BY <1>10 DEF NextLines
  <1> QED BY <1>6, <1>7, <1>8, <1>9, <1>10

(* The append, complete or torn.                                           *)
LEMMA WriteClean ==
  ASSUME Typed, Clean, NEW line \in NextLines,
         disk' = Write(disk, line) \/ disk' \in Torn(disk, line),
         turns' = IF worker.pc = "calling" THEN turns + 1 ELSE turns
  PROVE  Sober(disk, NextId)'
  <1> DEFINE d == disk
             e == disk'
             n == NextId
             k == NextId'
  <1>1. DiskOK(d) /\ Sober(d, n) BY DEF Typed, Clean
  <1>2. n \in Nat /\ k \in Nat /\ n <= k /\ k = After(turns')
    <2>1. turns \in Nat BY IdsNat
    <2>2. turns' \in Nat /\ turns <= turns' BY <2>1
    <2> QED BY <2>1, <2>2 DEF NextId, After
  <1>3. LineOK(line) /\ line.whole BY NextLinesFacts
  <1>4. d.open = FALSE /\ AllWhole(d.lines) =>
            Sound(Append(ReadMessages(d.lines), Message(line.role, line.blocks)), k)
    BY <1>2, NextSound DEF Read
  <1> HIDE DEF d, e, n, k
  <1>5. CASE e = d BY <1>1, <1>2, <1>5, SoberMore DEF e, k
  <1>6. CASE e # d
    <2>1. PICK part \in {Broken, line} :
             e = Write(d, part) \/ e = [Write(d, part) EXCEPT !.open = TRUE]
      BY <1>6 DEF Torn, d, e
    <2>2. PICK w : w = Write(d, part) OBVIOUS
    <2>3. w = [lines |-> w.lines, open |-> FALSE] BY <2>2 DEF Write
    <2>4. e = w \/ e = [w EXCEPT !.open = TRUE] BY <2>1, <2>2
    <2>5. e.lines = w.lines /\ e.open \in BOOLEAN
      <3>1. PICK l : w = [lines |-> l, open |-> FALSE] BY <2>3
      <3>2. e = [lines |-> l, open |-> FALSE] \/ e = [lines |-> l, open |-> TRUE]
        BY <2>4, <3>1
      <3>3. w.lines = l BY <3>1
      <3>4. e.lines = l
        <4>1. CASE e = [lines |-> l, open |-> FALSE] BY <4>1
        <4>2. CASE e = [lines |-> l, open |-> TRUE] BY <4>2
        <4> QED BY <3>2, <4>1, <4>2
      <3>5. e.open \in BOOLEAN
        <4>1. CASE e = [lines |-> l, open |-> FALSE] BY <4>1
        <4>2. CASE e = [lines |-> l, open |-> TRUE] BY <4>2
        <4> QED BY <3>2, <4>1, <4>2
      <3> QED BY <3>3, <3>4, <3>5
    <2>6. Sober(e, k) BY <1>1, <1>2, <1>3, <1>4, <2>2, <2>5, GrowSober
    <2> QED BY <2>6 DEF e, k
  <1> QED BY <1>5, <1>6

LEMMA CleanStart == ASSUME Typed, Clean, Start PROVE Clean'
  <1>1. disk' = disk /\ turns' = turns BY DEF Start, StartKnowing
  <1>2. NextId' = NextId /\ Sober(disk, NextId)' BY <1>1 DEF Clean, NextId
  <1>3. CASE Parses(disk.lines)
    <2>1. worker' = [Off EXCEPT !.pc = "seeded", !.messages = Replay(disk.lines),
                                !.known = ReadSteerIds(disk.lines)]
      BY <1>3 DEF Start, StartKnowing
    <2>2. worker'.pc = "seeded" /\ worker'.messages = Replay(disk.lines) BY <2>1 DEF Off
    <2>3. Replay(disk.lines) = HistoryOf(Read) BY DEF Replay, HistoryOf, Read
    <2>4. Good(HistoryOf(Read), NextId) BY <1>3 DEF Clean, Sober, Sound, Read
    <2> QED BY <1>2, <2>2, <2>3, <2>4 DEF Clean
  <1>4. CASE ~Parses(disk.lines)
    <2>1. worker'.pc = "ended" BY <1>4, OffType DEF Start, StartKnowing, WorkerType
    <2> QED BY <1>2, <2>1 DEF Clean, Holding
  <1> QED BY <1>3, <1>4

(* The turns that open a Thread or ask for more answer nothing.            *)
LEMMA TextRides ==
  ASSUME NEW n \in Nat, NEW h, Good(h, n)
  PROVE  Good(Ride(h, <<Text>>), n)
  <1>1. Ids(<<Text>>, TieKinds) = {} BY TextType, IdsOne DEF TieKinds, UseKinds, ResultKinds
  <1> QED BY <1>1, TextType, GoodRide

LEMMA OpeningIs ==
  /\ Ride(<<>>, <<Text>>) = <<User(<<Text>>)>>
  /\ <<User(<<Text>>)>> \in Seq(Messages)
  <1>1. Append(<<>>, User(<<Text>>)) = <<User(<<Text>>)>> BY TextType, UserType, PairIs
  <1>2. <<User(<<Text>>)>> \in Seq(Messages) BY TextType, UserType, PairIs
  <1> QED BY <1>1, <1>2 DEF Ride

(* What Open makes of the worker.                                          *)
LEMMA OpenFacts ==
  ASSUME Typed, Open
  PROVE  /\ worker'.pc = "draining"
         /\ worker.messages # <<>> => disk' = disk /\ worker'.messages = worker.messages
         /\ worker.messages = <<>> =>
               /\ worker'.messages = Ride(<<>>, <<Text>>)
               /\ \E line \in NextLines : disk' = Write(disk, line) /\ line = Line("user", <<Text>>)
  <1>1. worker.pc = "seeded" BY DEF Open
  <1>2. ASSUME worker.messages = <<>>
        PROVE  /\ worker'.pc = "draining" /\ worker'.messages = Ride(<<>>, <<Text>>)
               /\ \E line \in NextLines : disk' = Write(disk, line) /\ line = Line("user", <<Text>>)
    <2>1. PICK line \in NextLines :
              /\ disk' = Write(disk, line)
              /\ worker' = Draining([worker EXCEPT !.messages = <<User(line.blocks)>>])
      BY <1>2 DEF Open
    <2>2. line = Line("user", <<Text>>) BY <1>1, <2>1, NextLinesFacts
    <2>3. line.blocks = <<Text>> BY <2>2, TextType, LineFacts
    <2> DEFINE w == [worker EXCEPT !.messages = <<User(<<Text>>)>>]
    <2>4. w \in WorkerType /\ w.messages = <<User(<<Text>>)>>
      BY OpeningIs DEF Typed, WorkerOK, WorkerType
    <2>5. worker' = Draining(w) BY <2>1, <2>3
    <2> HIDE DEF w
    <2>6. worker'.pc = "draining" /\ worker'.messages = <<User(<<Text>>)>>
      BY <2>4, <2>5, DrainingType DEF Typed, FilesOK, LandedIn
    <2> QED BY <2>1, <2>2, <2>6, OpeningIs
  <1>3. ASSUME worker.messages # <<>>
        PROVE  worker'.pc = "draining" /\ disk' = disk /\ worker'.messages = worker.messages
    <2>1. worker' = Draining(worker) /\ disk' = disk BY <1>3 DEF Open
    <2> QED BY <2>1, DrainingType DEF Typed, WorkerOK, FilesOK, LandedIn
  <1> QED BY <1>2, <1>3

LEMMA CleanOpen == ASSUME Typed, Clean, Open PROVE Clean'
  <1>1. turns' = turns /\ worker.pc = "seeded" BY DEF Open
  <1>2. NextId \in Nat /\ NextId' = NextId BY <1>1, IdsNat DEF NextId
  <1>3. Good(worker.messages, NextId) BY <1>1 DEF Clean, Holding
  <1>4. worker'.pc = "draining" BY OpenFacts
  <1>5. CASE worker.messages = <<>>
    <2>1. PICK line \in NextLines : disk' = Write(disk, line) BY <1>5, OpenFacts
    <2>2. Sober(disk, NextId)' BY <1>1, <2>1, WriteClean
    <2>3. worker'.messages = Ride(<<>>, <<Text>>) BY <1>5, OpenFacts
    <2>4. Good(Ride(worker.messages, <<Text>>), NextId) BY <1>2, <1>3, TextRides
    <2> QED BY <1>2, <1>4, <1>5, <2>2, <2>3, <2>4 DEF Clean
  <1>6. CASE worker.messages # <<>>
    BY <1>1, <1>4, <1>6, OpenFacts, CleanQuiet DEF Holding
  <1> QED BY <1>5, <1>6

(* What Inject makes of the worker, and what it writes.                    *)
LEMMA InjectFacts ==
  ASSUME Typed, Inject
  PROVE  \E line \in NextLines :
            /\ disk' = Write(disk, line) /\ LineOK(line) /\ line.whole /\ line.role = "user"
            /\ line.blocks \in Seq(Blocks) /\ line.blocks # <<>>
            /\ Ids(line.blocks, TieKinds) = {}
            /\ worker.pc = "draining" /\ worker'.pc = "flushed"
            /\ worker'.messages = Ride(worker.messages, line.blocks)
  <1>1. Injecting BY DEF Inject
  <1>2. PICK line \in NextLines :
         /\ disk' = Write(disk, line)
         /\ worker' = [worker EXCEPT !.pc = "flushed",
                                     !.messages = Ride(@, line.blocks),
                                     !.known = @ \cup {line.steer}]
    BY DEF Inject
  <1>3. LineOK(line) /\ line.whole /\ line = SteerLine(Eldest) BY <1>1, NextLinesFacts
  <1>4. Eldest \in Steers BY <1>1, EldestIs DEF Injecting, Typed
  <1>5. /\ line.role = "user" /\ line.blocks \in Seq(Blocks) /\ line.blocks # <<>>
        /\ line.blocks = <<Block("steer", Eldest)>>
    BY <1>3, <1>4, SteerLineFacts
  <1>6. Ids(line.blocks, TieKinds) = {}
    <2>1. Block("steer", Eldest).kind = "steer" BY DEF Block
    <2> QED BY <1>5, <2>1, IdsOne DEF TieKinds, UseKinds, ResultKinds
  <1>7. worker'.pc = "flushed" /\ worker'.messages = Ride(worker.messages, line.blocks)
    BY <1>2 DEF Typed, WorkerOK, WorkerType
  <1> QED BY <1>1, <1>2, <1>3, <1>5, <1>6, <1>7 DEF Injecting

LEMMA CleanInject == ASSUME Typed, Clean, Inject PROVE Clean'
  <1>1. turns' = turns BY DEF Inject
  <1>2. NextId \in Nat /\ NextId' = NextId BY <1>1, IdsNat DEF NextId
  <1>3. PICK line \in NextLines :
            /\ disk' = Write(disk, line) /\ LineOK(line) /\ line.whole /\ line.role = "user"
            /\ line.blocks \in Seq(Blocks) /\ line.blocks # <<>>
            /\ Ids(line.blocks, TieKinds) = {}
            /\ worker.pc = "draining" /\ worker'.pc = "flushed"
            /\ worker'.messages = Ride(worker.messages, line.blocks)
    BY InjectFacts
  <1>4. Sober(disk, NextId)' BY <1>1, <1>3, WriteClean
  <1>5. Good(worker.messages, NextId) BY <1>3 DEF Clean, Holding
  <1>6. Good(Ride(worker.messages, line.blocks), NextId) BY <1>2, <1>3, <1>5, GoodRide
  <1> QED BY <1>2, <1>3, <1>4, <1>6 DEF Clean

(* What ReceiveTurn makes of the worker, and what it writes.               *)
LEMMA ReceiveFacts ==
  ASSUME Typed, ReceiveTurn
  PROVE  \E line \in NextLines, b \in TurnContents(turns + 1) :
            /\ disk' = Write(disk, line) /\ LineOK(line) /\ line.whole
            /\ line.role = "assistant" /\ line.blocks = b
            /\ b \in Seq(Blocks) /\ b # <<>>
            /\ worker.pc = "calling" /\ worker'.pc = "answered"
            /\ worker'.messages = Append(worker.messages, Message("assistant", b))
  <1>1. worker.pc = "calling" BY DEF ReceiveTurn
  <1>2. PICK line \in NextLines :
         /\ disk' = Write(disk, line)
         /\ worker' = [worker EXCEPT !.pc = "answered",
                           !.messages = Append(@, Message("assistant", line.blocks))]
    BY DEF ReceiveTurn
  <1>3. LineOK(line) /\ line.whole /\ line.role = "assistant"
        /\ line.blocks \in Seq(Blocks) /\ line.blocks # <<>>
    BY <1>1, NextLinesFacts
  <1>4. line \in {Line("assistant", blocks) : blocks \in TurnContents(turns + 1)}
    BY <1>1, <1>2 DEF NextLines, Injecting
  <1>5. PICK b \in TurnContents(turns + 1) : line = Line("assistant", b) BY <1>4
  <1>6. line.blocks = b BY <1>5 DEF Line
  <1>7. /\ worker'.pc = "answered"
        /\ worker'.messages = Append(worker.messages, Message("assistant", line.blocks))
    BY <1>2 DEF Typed, WorkerOK, WorkerType
  <1> QED BY <1>1, <1>2, <1>3, <1>6, <1>7

LEMMA CleanReceive == ASSUME Typed, Clean, ReceiveTurn PROVE Clean'
  <1>1. turns' = turns + 1 BY DEF ReceiveTurn
  <1>2. PICK line \in NextLines, b \in TurnContents(turns + 1) :
            /\ disk' = Write(disk, line) /\ LineOK(line) /\ line.whole
            /\ line.role = "assistant" /\ line.blocks = b
            /\ b \in Seq(Blocks) /\ b # <<>>
            /\ worker.pc = "calling" /\ worker'.pc = "answered"
            /\ worker'.messages = Append(worker.messages, Message("assistant", b))
    BY ReceiveFacts
  <1>3. \E d, h, t, n : d = disk /\ h = worker.messages /\ t = turns' /\ n = NextId OBVIOUS
  <1>4. PICK d, h, t, n : d = disk /\ h = worker.messages /\ t = turns' /\ n = NextId BY <1>3
  <1> DEFINE m == Message("assistant", b)
             y == Write(d, line).lines
  <1>5. Sober(disk, NextId)' BY <1>1, <1>2, WriteClean
  <1>6. turns \in Nat /\ n = 10 * t BY <1>1, <1>4, IdsNat DEF NextId
  <1>7. DiskOK(d) /\ Sober(d, n) /\ Good(h, n) BY <1>2, <1>4 DEF Typed, Clean, Holding
  <1>8. disk'.lines = y /\ disk'.open = FALSE BY <1>2, <1>4 DEF Write
  <1>9. Read' = ReadMessages(y) BY <1>8 DEF Read
  <1>10. h \in Seq(Messages) BY <1>7 DEF Good
  <1> HIDE DEF y, m
  <1>11. \E s \in Seq(Messages) :
            AllWhole(y) => ReadMessages(y) = Append(s, m) /\ Sound(s, n)
    <2>1. CASE d.open = FALSE /\ AllWhole(d.lines)
      <3>1. Settled(d) = d.lines BY <2>1 DEF Settled
      <3>2. ReadMessages(d.lines) \in Seq(Messages) /\ Sound(ReadMessages(d.lines), n)
        BY <1>7, <2>1, <3>1, SettledType DEF Sober
      <3>3. y = Append(d.lines, line) BY <2>1 DEF y, Write
      <3>4. ReadMessages(y) = Append(ReadMessages(d.lines), m)
        <4>1. LinesOK(d.lines) BY <1>7 DEF DiskOK
        <4>2. ReadMessages(y) = Append(ReadMessages(d.lines), Message(line.role, line.blocks))
          <5>1. LineOK(line) /\ line.whole BY <1>2
          <5>2. PICK l : l = d.lines OBVIOUS
          <5>3. LinesOK(l) /\ AllWhole(l) /\ y = Append(l, line) BY <2>1, <3>3, <4>1, <5>2
          <5>4. ReadMessages(y) = Append(ReadMessages(l), Message(line.role, line.blocks))
            BY <5>1, <5>3, AppendReads
          <5> QED BY <5>2, <5>4
        <4> QED BY <1>2, <4>2 DEF m
      <3> QED BY <3>2, <3>4
    <2>2. CASE ~(d.open = FALSE /\ AllWhole(d.lines))
      <3> DEFINE z == Settled(d)
                 x == IF d.open THEN Broken ELSE line
      <3>1. y = Append(z, x) BY DEF y, Write, Settled
      <3>2. LinesOK(z) /\ LineOK(x) BY <1>2, <1>7, SettledType, BrokenFacts
      <3>3. ~AllWhole(z) \/ ~x.whole BY <1>7, <2>2, BrokenFacts DEF Settled, DiskOK
      <3> HIDE DEF z, x
      <3>4. ~AllWhole(y) BY <3>1, <3>2, <3>3, AppendReads
      <3> QED BY <1>10, <3>4
    <2> QED BY <2>1, <2>2
  <1>12. PICK s \in Seq(Messages) : AllWhole(y) => ReadMessages(y) = Append(s, m) /\ Sound(s, n)
    BY <1>11
  <1>13. Awaited(h, s, b)' BY <1>2, <1>4, <1>6, <1>7, <1>8, <1>9, <1>12 DEF Awaited, m
  <1>14. b \in TurnContents(turns') BY <1>1
  <1> QED BY <1>2, <1>5, <1>8, <1>10, <1>13, <1>14 DEF Clean, Holding

(* What AnswerTurn makes of the worker, and what it writes.                *)
LEMMA AnswerFacts ==
  ASSUME Typed, AnswerTurn, NEW h \in Seq(Messages), NEW b \in TurnContents(turns),
         worker.messages = Append(h, Message("assistant", b))
  PROVE  \E accepted \in BOOLEAN, a \in Seq(Blocks) :
            /\ a = AnswerTo(b, accepted) /\ (~accepted => a # <<>>)
            /\ IF a = <<>> THEN disk' = disk
               ELSE /\ disk' = Write(disk, Line("user", a))
                    /\ Line("user", a) \in NextLines
            /\ accepted => worker'.pc = "sweeping"
            /\ ~accepted => /\ worker'.pc = "draining"
                            /\ worker'.messages = Append(worker.messages, User(a))
  <1>1. worker.pc = "answered" BY DEF AnswerTurn
  <1>2. PICK accepted \in Acceptance :
          /\ disk' = IF Answer(accepted) = <<>> THEN disk
                     ELSE Write(disk, Line("user", Answer(accepted)))
          /\ worker' = IF accepted THEN [worker EXCEPT !.pc = "sweeping"]
                       ELSE Draining([worker EXCEPT !.messages = Append(@, User(Answer(accepted)))])
    BY DEF AnswerTurn
  <1>3. PICK a, g : a = Answer(accepted) /\ g = Append(worker.messages, User(a)) OBVIOUS
  <1>4. accepted \in BOOLEAN BY DEF Acceptance
  <1>5. a \in Seq(Blocks) /\ (~accepted => a # <<>>) BY <1>1, <1>3, <1>4, AnswerType DEF Typed
  <1>6. a = AnswerTo(b, accepted)
    <2>1. b \in Contents BY IdsNat, TurnContentsType DEF Contents
    <2> QED BY <1>3, <1>4, <2>1, AnswerIs
  <1>7. a # <<>> => Line("user", a) \in NextLines
    <2>1. ~Injecting BY <1>1 DEF Injecting
    <2>2. Line("user", a).blocks = a BY DEF Line
    <2> QED BY <1>1, <1>2, <1>3, <2>1, <2>2 DEF NextLines
  <1>8. accepted => worker'.pc = "sweeping" BY <1>2 DEF Typed, WorkerOK, WorkerType
  <1>9. ASSUME ~accepted PROVE worker'.pc = "draining" /\ worker'.messages = g
    <2> DEFINE w == [worker EXCEPT !.messages = g]
    <2>1. g \in Seq(Messages)
      <3>1. User(a) \in Messages BY <1>5, <1>9, UserType
      <3>2. worker.messages \in Seq(Messages) BY DEF Typed, WorkerOK, WorkerType
      <3> QED BY <1>3, <3>1, <3>2, AppendProperties
    <2>2. w \in WorkerType /\ w.messages = g BY <2>1 DEF Typed, WorkerOK, WorkerType
    <2>3. worker' = Draining(w) BY <1>2, <1>3, <1>9
    <2> HIDE DEF w
    <2> QED BY <2>2, <2>3, DrainingType DEF Typed, FilesOK, LandedIn
  <1> QED BY <1>2, <1>3, <1>4, <1>5, <1>6, <1>7, <1>8, <1>9

LEMMA CleanAnswer == ASSUME Typed, Clean, AnswerTurn PROVE Clean'
  <1>1. turns' = turns /\ worker.pc = "answered" BY DEF AnswerTurn
  <1>2. PICK h \in Seq(Messages), s \in Seq(Messages), b \in TurnContents(turns) : Awaited(h, s, b)
    BY <1>1 DEF Clean
  <1>3. PICK accepted \in BOOLEAN, a \in Seq(Blocks) :
            /\ a = AnswerTo(b, accepted) /\ (~accepted => a # <<>>)
            /\ IF a = <<>> THEN disk' = disk
               ELSE /\ disk' = Write(disk, Line("user", a))
                    /\ Line("user", a) \in NextLines
            /\ accepted => worker'.pc = "sweeping"
            /\ ~accepted => /\ worker'.pc = "draining"
                            /\ worker'.messages = Append(worker.messages, User(a))
    BY <1>2, AnswerFacts DEF Awaited
  <1>4. turns \in Nat /\ NextId' = NextId /\ 10 * turns \in Nat BY <1>1, IdsNat DEF NextId
  <1>5. Sober(disk, NextId)'
    <2>1. CASE a = <<>> BY <1>3, <1>4, <2>1 DEF Clean
    <2>2. CASE a # <<>> BY <1>1, <1>3, <2>2, WriteClean
    <2> QED BY <2>1, <2>2
  <1>6. ASSUME ~accepted PROVE Good(worker'.messages, NextId)
    <2> DEFINE m == Message("assistant", b)
               q == Append(Append(h, m), User(a))
    <2>1. worker.messages = Append(h, m) /\ Good(h, 10 * turns) BY <1>2 DEF Awaited
    <2>2. HistoryOf(h) = h /\ Sound(h, 10 * turns) BY <1>4, <2>1, SoundSelf
    <2>3. Sound(q, 10 * (turns + 1)) /\ Joined(h, m, a, accepted)
      BY <1>3, <1>4, <1>6, <2>1, <2>2, SoundAnswer
    <2>4. HistoryOf(q) = q BY <1>6, <2>2, <2>3 DEF Joined
    <2>5. worker'.messages = q BY <1>3, <1>6, <2>1
    <2> HIDE DEF q
    <2> QED BY <2>3, <2>4, <2>5 DEF Sound, NextId
  <1>7. CASE accepted BY <1>3, <1>5, <1>7 DEF Clean, Holding
  <1>8. CASE ~accepted BY <1>3, <1>4, <1>5, <1>6, <1>8 DEF Clean
  <1> QED BY <1>7, <1>8

LEMMA CleanResume == ASSUME Typed, Clean, Resume PROVE Clean'
  <1>1. /\ UNCHANGED <<worker, turns>> /\ status \in {"interrupted", "done"}
        /\ disk' = CopyOf(MergeFollowUp(Replay(disk.lines))) /\ Parses(disk.lines)
    BY DEF Resume
  <1>2. worker'.pc = "off" BY <1>1 DEF Typed, WorkerOK
  <1>3. NextId \in Nat /\ NextId' = NextId BY <1>1, IdsNat DEF NextId
  <1>4. Good(Replay(disk.lines), NextId) BY <1>1 DEF Clean, Sober, Sound, HistoryOf, Replay
  <1>5. Good(MergeFollowUp(Replay(disk.lines)), NextId) BY <1>3, <1>4, TextRides DEF MergeFollowUp
  <1>6. Sober(disk, NextId)' BY <1>1, <1>3, <1>5, CopySober
  <1> QED BY <1>2, <1>6 DEF Clean, Holding

LEMMA CleanCrash == ASSUME Typed, Clean, Crash PROVE Clean'
  <1>1. /\ worker' = Off
        /\ disk' = disk \/ \E line \in NextLines : disk' \in Torn(disk, line)
        /\ turns' = IF worker.pc = "calling" /\ disk' # disk THEN turns + 1 ELSE turns
    BY DEF Crash
  <1>2. worker'.pc = "off" BY <1>1, OffType
  <1>3. Sober(disk, NextId)'
    <2>1. CASE disk' = disk BY <1>1, <2>1 DEF Clean, NextId
    <2>2. CASE disk' # disk
      <3>1. PICK line \in NextLines : disk' \in Torn(disk, line) BY <1>1, <2>2
      <3> QED BY <1>1, <2>2, <3>1, WriteClean
    <2> QED BY <2>1, <2>2
  <1> QED BY <1>2, <1>3 DEF Clean, Holding

LEMMA CleanStep == Typed /\ Clean /\ [Next]_vars => Clean'
  <1> SUFFICES ASSUME Typed, Clean, [Next]_vars PROVE Clean' OBVIOUS
  <1>1. CASE \/ \E n \in Steers : SteerBegin(n) \/ SteerLand(n) \/ SteerReport(n)
             \/ GracePasses \/ UNCHANGED vars
    <2>1. UNCHANGED <<disk, worker, turns>>
      BY <1>1 DEF SteerBegin, SteerLand, SteerReport, GracePasses, vars
    <2> QED BY <2>1, CleanQuiet
  <1>2. CASE Start \/ Open \/ Inject BY <1>2, CleanStart, CleanOpen, CleanInject
  <1>3. CASE ReceiveTurn \/ AnswerTurn \/ Resume \/ Crash
    BY <1>3, CleanReceive, CleanAnswer, CleanResume, CleanCrash
  <1>4. CASE Acknowledge \/ Skip
    <2>1. UNCHANGED <<disk, turns>> /\ worker' = Passed
          /\ worker.pc \in {"flushed", "draining"}
      BY <1>4 DEF Acknowledge, Skip, Injecting
    <2>2. worker'.pc = "draining" /\ worker'.messages = worker.messages
      BY <2>1, PassedType DEF Typed
    <2> QED BY <2>1, <2>2, CleanQuiet DEF Holding
  <1>5. CASE SendRequest
    <2>1. UNCHANGED <<disk, turns>> /\ worker.pc = "draining"
          /\ worker'.pc = "calling" /\ worker'.messages = worker.messages
      BY <1>5 DEF SendRequest, Typed, WorkerOK, WorkerType
    <2> QED BY <2>1, CleanQuiet DEF Holding
  <1>6. CASE CallFails \/ Sweep \/ Terminate
    <2>1. UNCHANGED <<disk, turns>> BY <1>6 DEF CallFails, Sweep, Terminate
    <2>2. worker'.pc \in {"sweeping", "ended", "off"}
      BY <1>6, OffType DEF CallFails, Sweep, Terminate, Typed, WorkerOK, WorkerType
    <2> QED BY <2>1, <2>2, CleanQuiet DEF Holding
  <1> QED BY <1>1, <1>2, <1>3, <1>4, <1>5, <1>6 DEF Next

(* Whatever crashes, torn appends, relaunches, resumes, nudges and steers  *)
(* come between, every request is one an endpoint accepts: no two user     *)
(* turns in a row, every tool use answered once at the head of the next    *)
(* turn (`run_loop`, `repair_messages`, `coalesce_user_turns`).            *)
THEOREM RequestsWellFormed == Spec => []RequestIsWellFormed
  <1>1. Init => Typed /\ Clean BY TypedInit, CleanInit
  <1>2. (Typed /\ Clean) /\ [Next]_vars => (Typed /\ Clean)' BY TypedStep, CleanStep
  <1>3. Typed /\ Clean => RequestIsWellFormed
    BY DEF Clean, Good, Holding, Calling, RequestIsWellFormed
  <1> QED BY <1>1, <1>2, <1>3, PTL DEF Spec

-----------------------------------------------------------------------------
(* Where no append is torn, the worker's memory is what a relaunch would   *)
(* read, and both repeat the last request.                                 *)
Answering(s, b) ==
    LET m == Message("assistant", b) IN
    /\ Read = Append(s, m) /\ worker.messages = Append(HistoryOf(s), m)
    /\ Sound(s, 10 * turns) /\ Extends(HistoryOf(s), seen)
Kept ==
    /\ Extends(HistoryOf(Read), seen)
    /\ worker.pc \in Holding => worker.messages = HistoryOf(Read)
    /\ worker.pc = "answered" =>
          \E s \in Seq(Messages), b \in TurnContents(turns) : Answering(s, b)

LEMMA ReadSound ==
  ASSUME Typed, Sent, Clean
  PROVE  Read \in Seq(Messages) /\ Sound(Read, NextId) /\ HistoryOf(Read) \in Seq(Messages)
  <1>1. Read \in Seq(Messages) /\ Parses(disk.lines) BY RecordedType DEF Read
  <1>2. Sound(Read, NextId) BY <1>1 DEF Clean, Sober, Read
  <1> QED BY <1>1, <1>2 DEF Sound, Good

LEMMA ReadWrite ==
  ASSUME Typed, Sent, NEW line, LineOK(line), line.whole, disk' = Write(disk, line)
  PROVE  /\ Read \in Seq(Messages)
         /\ Read' = Append(Read, Message(line.role, line.blocks))
  <1> DEFINE d == disk
             e == disk'
  <1>1. DiskOK(d) /\ d.open = FALSE /\ AllWhole(d.lines) /\ e = Write(d, line)
    BY DEF Typed, Sent
  <1>2. Read = ReadMessages(d.lines) /\ Read' = ReadMessages(e.lines) BY DEF Read
  <1>3. Read \in Seq(Messages) BY RecordedType DEF Read
  <1> HIDE DEF d, e
  <1>4. ReadMessages(e.lines) = Append(ReadMessages(d.lines), Message(line.role, line.blocks))
    BY <1>1, WriteWhole
  <1> QED BY <1>2, <1>3, <1>4

LEMMA KeptInit == Init => Kept
  <1> SUFFICES ASSUME Init PROVE Kept OBVIOUS
  <1>1. disk.lines = <<>> /\ seen = <<>> /\ worker.pc = "off"
    BY OffType DEF Init, EmptyDisk
  <1>2. WholeLines(<<>>) = <<>> BY DEF WholeLines
  <1>3. Read = <<>> BY <1>1, <1>2 DEF Read, ReadMessages
  <1>4. HistoryOf(<<>>) = <<>> BY GoodNone, SoundSelf
  <1>5. Extends(<<>>, <<>>) BY DEF Extends
  <1> QED BY <1>1, <1>3, <1>4, <1>5 DEF Kept, Holding

(* Steps that neither write the Thread nor send a request.                 *)
LEMMA KeptQuiet ==
  ASSUME Kept, disk' = disk, turns' = turns, seen' = seen,
         \/ worker'.messages = worker.messages
            /\ worker'.pc \in Holding /\ worker.pc \in Holding
         \/ worker'.pc \notin Holding \cup {"answered"}
         \/ worker' = worker
  PROVE  Kept'
  <1>1. Read' = Read /\ Extends(HistoryOf(Read), seen)' BY DEF Read, Kept
  <1>2. CASE worker' = worker
    <2>1. ASSUME NEW s, NEW b, Answering(s, b) PROVE Answering(s, b)'
      BY <1>1, <1>2, <2>1 DEF Answering
    <2> QED BY <1>1, <1>2, <2>1 DEF Kept
  <1>3. CASE worker'.messages = worker.messages /\ worker'.pc \in Holding /\ worker.pc \in Holding
    <2>1. worker'.pc # "answered" BY <1>3 DEF Holding
    <2> QED BY <1>1, <1>3, <2>1 DEF Kept
  <1>4. CASE worker'.pc \notin Holding \cup {"answered"} BY <1>1, <1>4 DEF Kept
  <1> QED BY <1>2, <1>3, <1>4

(* A user turn that answers nothing joins the end of the history.          *)
LEMMA KeptRide ==
  ASSUME Typed, Sent, Clean, Kept, NEW line, LineOK(line), line.whole,
         disk' = Write(disk, line), line.role = "user",
         line.blocks \in Seq(Blocks), line.blocks # <<>>,
         Ids(line.blocks, TieKinds) = {}, seen' = seen
  PROVE  /\ HistoryOf(Read)' = Ride(HistoryOf(Read), line.blocks)
         /\ Extends(HistoryOf(Read), seen)'
  <1>1. \E r, n, u : r = Read /\ n = NextId /\ u = line.blocks OBVIOUS
  <1>2. PICK r, n, u : r = Read /\ n = NextId /\ u = line.blocks BY <1>1
  <1> DEFINE h == HistoryOf(r)
  <1>3. n \in Nat BY <1>2, IdsNat
  <1>4. r \in Seq(Messages) /\ Sound(r, n) /\ h \in Seq(Messages) BY <1>2, ReadSound
  <1>5. Read' = Append(r, User(u)) BY <1>2, ReadWrite DEF User
  <1>6. Extends(h, seen) /\ seen \in Seq(Messages) BY <1>2 DEF Kept, Typed, CountsOK
  <1>7. u \in Seq(Blocks) /\ u # <<>> /\ Ids(u, TieKinds) = {} BY <1>2
  <1>8. HistoryOf(Append(r, User(u))) = Ride(h, u) BY <1>3, <1>4, <1>7, SoundRide
  <1> HIDE DEF h
  <1>9. Extends(Ride(h, u), seen)
    <2>1. Ride(h, u) \in Seq(Messages) BY <1>4, <1>7, RideFacts
    <2>2. Extends(Ride(h, u), h) BY <1>4, <1>7, ExtendsRide
    <2> QED BY <1>4, <1>6, <2>1, <2>2, ExtendsTrans
  <1> QED BY <1>2, <1>5, <1>8, <1>9 DEF h

LEMMA KeptStart == ASSUME Typed, Sent, Kept, Start PROVE Kept'
  <1>1. UNCHANGED <<disk, seen>> BY DEF Start, StartKnowing
  <1>2. Read' = Read /\ Extends(HistoryOf(Read), seen)' BY <1>1 DEF Read, Kept
  <1>3. worker' = [Off EXCEPT !.pc = "seeded", !.messages = Replay(disk.lines),
                              !.known = ReadSteerIds(disk.lines)]
    BY RecordedType DEF Start, StartKnowing
  <1>4. worker'.pc = "seeded" /\ worker'.messages = Replay(disk.lines) BY <1>3 DEF Off
  <1>5. Replay(disk.lines) = HistoryOf(Read) BY DEF Replay, HistoryOf, Read
  <1> QED BY <1>2, <1>4, <1>5 DEF Kept

LEMMA KeptOpen == ASSUME Typed, Sent, Clean, Kept, Open PROVE Kept'
  <1>1. UNCHANGED <<turns, seen>> /\ worker.pc = "seeded" BY DEF Open
  <1>2. worker.messages = HistoryOf(Read) BY <1>1 DEF Kept, Holding
  <1>3. worker'.pc = "draining" BY OpenFacts
  <1>4. CASE worker.messages = <<>>
    <2>1. PICK line \in NextLines : disk' = Write(disk, line) /\ line = Line("user", <<Text>>)
      BY <1>4, OpenFacts
    <2>2. LineOK(line) /\ line.whole BY NextLinesFacts
    <2>3. line.role = "user" /\ line.blocks = <<Text>> BY <2>1, TextType, LineFacts
    <2>4. Ids(<<Text>>, TieKinds) = {}
      BY TextType, IdsOne DEF TieKinds, UseKinds, ResultKinds
    <2>5. /\ HistoryOf(Read)' = Ride(HistoryOf(Read), <<Text>>)
          /\ Extends(HistoryOf(Read), seen)'
      BY <1>1, <2>1, <2>2, <2>3, <2>4, TextType, KeptRide
    <2>6. worker'.messages = Ride(<<>>, <<Text>>) BY <1>4, OpenFacts
    <2> QED BY <1>2, <1>3, <1>4, <2>5, <2>6 DEF Kept
  <1>5. CASE worker.messages # <<>>
    BY <1>1, <1>3, <1>5, OpenFacts, KeptQuiet DEF Holding
  <1> QED BY <1>4, <1>5

LEMMA KeptInject == ASSUME Typed, Sent, Clean, Kept, Inject PROVE Kept'
  <1>1. seen' = seen BY DEF Inject
  <1>2. PICK line \in NextLines :
            /\ disk' = Write(disk, line) /\ LineOK(line) /\ line.whole /\ line.role = "user"
            /\ line.blocks \in Seq(Blocks) /\ line.blocks # <<>>
            /\ Ids(line.blocks, TieKinds) = {}
            /\ worker.pc = "draining" /\ worker'.pc = "flushed"
            /\ worker'.messages = Ride(worker.messages, line.blocks)
    BY InjectFacts
  <1>3. /\ HistoryOf(Read)' = Ride(HistoryOf(Read), line.blocks)
        /\ Extends(HistoryOf(Read), seen)'
    BY <1>1, <1>2, KeptRide
  <1>4. worker.messages = HistoryOf(Read) BY <1>2 DEF Kept, Holding
  <1> QED BY <1>2, <1>3, <1>4 DEF Kept

(* A resumed Job finds the history as it was copied.                       *)
LEMMA KeptResume == ASSUME Typed, Sent, Clean, Kept, Resume PROVE Kept'
  <1>1. /\ UNCHANGED <<worker, seen>> /\ status \in {"interrupted", "done"}
        /\ disk' = CopyOf(MergeFollowUp(Replay(disk.lines)))
    BY DEF Resume
  <1>2. worker'.pc = "off" BY <1>1 DEF Typed, WorkerOK
  <1> DEFINE h == HistoryOf(Read)
             g == Ride(h, <<Text>>)
  <1>3. NextId \in Nat BY IdsNat
  <1>4. Good(h, NextId) /\ h \in Seq(Messages) BY ReadSound DEF Sound
  <1>5. Extends(h, seen) /\ seen \in Seq(Messages) BY DEF Kept, Typed, CountsOK
  <1>6. disk' = CopyOf(g) BY <1>1 DEF MergeFollowUp, Replay, HistoryOf, Read
  <1> HIDE DEF h
  <1>7. Good(g, NextId) BY <1>3, <1>4, TextRides
  <1>8. g \in Seq(Messages) /\ HistoryOf(g) = g BY <1>3, <1>7, SoundSelf
  <1>9. Extends(g, seen)
    <2>1. Extends(g, h) BY <1>4, TextType, ExtendsRide
    <2> QED BY <1>4, <1>5, <1>8, <2>1, ExtendsTrans
  <1> HIDE DEF g
  <1>10. Read' = g BY <1>6, <1>8, CopyReads DEF Read
  <1> QED BY <1>1, <1>2, <1>8, <1>9, <1>10 DEF Kept, Holding

LEMMA KeptSend ==
  ASSUME Typed, Sent, Clean, Kept, SendRequest PROVE Kept' /\ Extends(seen', seen)
  <1>1. disk' = disk /\ worker.pc = "draining" /\ seen' = worker.messages
        /\ worker' = [worker EXCEPT !.pc = "calling"]
    BY DEF SendRequest
  <1>2. Read' = Read BY <1>1 DEF Read
  <1>3. worker.messages = HistoryOf(Read) BY <1>1 DEF Kept, Holding
  <1>4. worker'.pc = "calling" /\ worker'.messages = worker.messages
    BY <1>1 DEF Typed, WorkerOK, WorkerType
  <1>5. Extends(HistoryOf(Read), HistoryOf(Read)) BY ReadSound, ExtendsSelf
  <1>6. Extends(seen', seen) BY <1>1, <1>3 DEF Kept
  <1> QED BY <1>1, <1>2, <1>3, <1>4, <1>5, <1>6 DEF Kept

LEMMA KeptReceive == ASSUME Typed, Sent, Clean, Kept, ReceiveTurn PROVE Kept'
  <1>1. turns' = turns + 1 /\ seen' = seen BY DEF ReceiveTurn
  <1>2. PICK line \in NextLines, b \in TurnContents(turns + 1) :
            /\ disk' = Write(disk, line) /\ LineOK(line) /\ line.whole
            /\ line.role = "assistant" /\ line.blocks = b
            /\ b \in Seq(Blocks) /\ b # <<>>
            /\ worker.pc = "calling" /\ worker'.pc = "answered"
            /\ worker'.messages = Append(worker.messages, Message("assistant", b))
    BY ReceiveFacts
  <1>3. \E r, t, m : r = Read /\ t = turns + 1 /\ m = Message("assistant", b) OBVIOUS
  <1>4. PICK r, t, m : r = Read /\ t = turns + 1 /\ m = Message("assistant", b) BY <1>3
  <1> DEFINE h == HistoryOf(r)
             q == Append(h, m)
  <1>5. t \in Nat /\ NextId = 10 * t /\ turns' = t BY <1>1, <1>4, IdsNat DEF NextId
  <1>6. r \in Seq(Messages) /\ Sound(r, 10 * t) /\ h \in Seq(Messages)
    BY <1>4, <1>5, ReadSound
  <1>7. Read' = Append(r, m) BY <1>2, <1>4, ReadWrite
  <1>8. Extends(h, seen) /\ seen \in Seq(Messages) BY <1>4 DEF Kept, Typed, CountsOK
  <1>9. worker.messages = h BY <1>2, <1>4 DEF Kept, Holding
  <1>10. m \in Messages /\ Append(r, m) \in Seq(Messages) /\ Sound(Append(r, m), 10 * (t + 1))
         /\ \E p \in Seq(Blocks) : HistoryOf(Append(r, m)) = Close(Append(HistoryOf(r), m), p)
    BY <1>2, <1>4, <1>5, <1>6, SoundTurn
  <1>11. PICK p \in Seq(Blocks) : HistoryOf(Append(r, m)) = Close(q, p) BY <1>10
  <1>12. Answering(r, b)'
    BY <1>1, <1>2, <1>4, <1>5, <1>6, <1>7, <1>8, <1>9 DEF Answering
  <1> HIDE DEF h
  <1>13. q \in Seq(Messages) /\ Extends(q, seen)
    <2>1. q \in Seq(Messages) /\ Extends(q, h) BY <1>6, <1>10, ExtendsAppend
    <2> QED BY <1>6, <1>8, <2>1, ExtendsTrans
  <1> HIDE DEF q
  <1>14. Extends(Close(q, p), seen)
    <2>1. CASE p = <<>> BY <1>13, <2>1 DEF Close
    <2>2. CASE p # <<>>
      <3>1. Close(q, p) = Append(q, User(p)) BY <2>2 DEF Close
      <3>2. User(p) \in Messages BY <2>2, UserType
      <3>3. Append(q, User(p)) \in Seq(Messages) /\ Extends(Append(q, User(p)), q)
        BY <1>13, <3>2, ExtendsAppend
      <3> QED BY <1>8, <1>13, <3>1, <3>3, ExtendsTrans
    <2> QED BY <2>1, <2>2
  <1>15. Extends(HistoryOf(Read), seen)' BY <1>1, <1>7, <1>11, <1>14
  <1>16. b \in TurnContents(turns') BY <1>1
  <1> QED BY <1>2, <1>6, <1>12, <1>15, <1>16 DEF Kept, Holding

LEMMA KeptAnswer == ASSUME Typed, Sent, Clean, Kept, AnswerTurn PROVE Kept'
  <1>1. UNCHANGED <<turns, seen>> /\ worker.pc = "answered" BY DEF AnswerTurn
  <1>2. PICK s \in Seq(Messages), b \in TurnContents(turns) : Answering(s, b) BY <1>1 DEF Kept
  <1>3. \E h, t : h = HistoryOf(s) /\ t = turns OBVIOUS
  <1>4. PICK h, t : h = HistoryOf(s) /\ t = turns BY <1>3
  <1> DEFINE m == Message("assistant", b)
  <1>5. t \in Nat /\ Sound(s, 10 * t) /\ h \in Seq(Messages)
    BY <1>2, <1>4, IdsNat DEF Answering, Sound, Good
  <1>6. Read = Append(s, m) /\ worker.messages = Append(h, m) BY <1>2, <1>4 DEF Answering
  <1>7. Extends(h, seen) /\ seen \in Seq(Messages)
    BY <1>2, <1>4 DEF Answering, Typed, CountsOK
  <1>8. PICK accepted \in BOOLEAN, a \in Seq(Blocks) :
            /\ a = AnswerTo(b, accepted) /\ (~accepted => a # <<>>)
            /\ IF a = <<>> THEN disk' = disk
               ELSE /\ disk' = Write(disk, Line("user", a))
                    /\ Line("user", a) \in NextLines
            /\ accepted => worker'.pc = "sweeping"
            /\ ~accepted => /\ worker'.pc = "draining"
                            /\ worker'.messages = Append(worker.messages, User(a))
    BY <1>4, <1>5, <1>6, AnswerFacts
  <1>9. CASE a = <<>>
    BY <1>1, <1>8, <1>9, KeptQuiet DEF Holding
  <1>10. CASE a # <<>>
    <2> DEFINE r == Append(Append(s, m), User(a))
               q == Append(h, m)
    <2>1. Line("user", a).role = "user" /\ Line("user", a).blocks = a
          /\ LineOK(Line("user", a)) /\ Line("user", a).whole
      BY <1>10, LineFacts
    <2>2. Read' = r
      <3>1. Read' = Append(Read, Message(Line("user", a).role, Line("user", a).blocks))
        BY <1>8, <1>10, <2>1, ReadWrite
      <3> QED BY <1>6, <2>1, <3>1 DEF User
    <2>3. PICK c \in Seq(Blocks) :
             /\ c # <<>> /\ (~accepted => c = a)
             /\ HistoryOf(r) = Append(q, User(c))
      <3>1. b \in TurnContents(t) BY <1>4
      <3>2. a = AnswerTo(b, accepted) BY <1>8
      <3>3. Joined(s, m, a, accepted)
        <4>1. t \in Nat /\ Sound(s, 10 * t) BY <1>5
        <4> QED BY <1>10, <3>1, <3>2, <4>1, SoundAnswer
      <3> QED BY <1>4, <3>3 DEF Joined
    <2>4. m \in Messages
      <3>1. b \in Seq(Blocks) /\ b # <<>> BY <1>4, <1>5, TurnContentsType
      <3> QED BY <1>4, <3>1, MessageType
    <2>5. q \in Seq(Messages) /\ Extends(q, h) BY <1>5, <2>4, ExtendsAppend
    <2>6. User(c) \in Messages BY <2>3, UserType
    <2> HIDE DEF q, r
    <2>7. Extends(q, seen) BY <1>5, <1>7, <2>5, ExtendsTrans
    <2>8. Append(q, User(c)) \in Seq(Messages) /\ Extends(Append(q, User(c)), q)
      BY <2>5, <2>6, ExtendsAppend
    <2>9. Extends(Append(q, User(c)), seen) BY <1>7, <2>5, <2>7, <2>8, ExtendsTrans
    <2>10. Extends(HistoryOf(Read), seen)' BY <1>1, <2>2, <2>3, <2>9
    <2>11. CASE accepted BY <1>8, <2>10, <2>11 DEF Kept, Holding
    <2>12. CASE ~accepted
      <3>1. worker'.messages = Append(q, User(a)) BY <1>6, <1>8, <2>12 DEF q
      <3> QED BY <1>8, <2>2, <2>3, <2>10, <2>12, <3>1 DEF Kept
    <2> QED BY <2>11, <2>12
  <1> QED BY <1>9, <1>10

LEMMA KeptStep ==
  Typed /\ Sent /\ Clean /\ Kept /\ [Next]_vars /\ ~MayTear => Kept'
  <1> SUFFICES ASSUME Typed, Sent, Clean, Kept, [Next]_vars, ~MayTear PROVE Kept' OBVIOUS
  <1>1. CASE \/ \E n \in Steers : SteerBegin(n) \/ SteerLand(n) \/ SteerReport(n)
             \/ GracePasses \/ UNCHANGED vars
    <2>1. UNCHANGED <<disk, worker, turns, seen>>
      BY <1>1 DEF SteerBegin, SteerLand, SteerReport, GracePasses, vars
    <2> QED BY <2>1, KeptQuiet
  <1>2. CASE Start \/ Open \/ Inject BY <1>2, KeptStart, KeptOpen, KeptInject
  <1>3. CASE SendRequest \/ ReceiveTurn \/ AnswerTurn \/ Resume
    BY <1>3, KeptSend, KeptReceive, KeptAnswer, KeptResume
  <1>4. CASE Acknowledge \/ Skip
    <2>1. UNCHANGED <<disk, turns, seen>> /\ worker' = Passed
          /\ worker.pc \in {"flushed", "draining"}
      BY <1>4 DEF Acknowledge, Skip, Injecting
    <2>2. worker'.pc = "draining" /\ worker'.messages = worker.messages
      BY <2>1, PassedType DEF Typed
    <2> QED BY <2>1, <2>2, KeptQuiet DEF Holding
  <1>5. CASE CallFails \/ Sweep
    <2>1. UNCHANGED <<disk, turns, seen>> BY <1>5 DEF CallFails, Sweep
    <2>2. worker'.pc \in {"sweeping", "ended"}
      BY <1>5 DEF CallFails, Sweep, Typed, WorkerOK, WorkerType
    <2> QED BY <2>1, <2>2, KeptQuiet DEF Holding
  <1>6. CASE Terminate \/ Crash
    <2>1. UNCHANGED <<disk, seen>> /\ worker' = Off /\ turns' = turns
      BY <1>6 DEF Terminate, Crash
    <2>2. worker'.pc = "off" BY <2>1, OffType
    <2> QED BY <2>1, <2>2, KeptQuiet DEF Holding
  <1> QED BY <1>1, <1>2, <1>3, <1>4, <1>5, <1>6 DEF Next

(* What the model was sent it is sent again: a relaunch or a resume replays*)
(* the exact history of every earlier request and adds to its end          *)
(* (`read_repaired_messages`, `merge_follow_up`).                          *)
THEOREM HistoryGrows == ASSUME ~MayTear PROVE Spec => HistoryOnlyGrows
  <1> DEFINE Inv == Typed /\ Sent /\ Clean /\ Kept
  <1>1. Init => Inv BY TypedInit, SentInit, CleanInit, KeptInit
  <1>2. Inv /\ [Next]_vars => Inv' BY TypedStep, SentStep, CleanStep, KeptStep
  <1>3. Inv /\ [Next]_vars => [Extends(seen', seen)]_seen
    <2> SUFFICES ASSUME Inv, [Next]_vars PROVE [Extends(seen', seen)]_seen OBVIOUS
    <2>1. CASE SendRequest BY <2>1, KeptSend
    <2>2. CASE ~SendRequest
      <3>1. seen' = seen
        BY <2>2
           DEF Next, SteerBegin, SteerLand, SteerReport, Start, StartKnowing, Open, Inject,
               Acknowledge, Skip, ReceiveTurn, CallFails, AnswerTurn, Sweep, Terminate,
               Crash, GracePasses, Resume, vars
      <3> QED BY <3>1
    <2> QED BY <2>1, <2>2
  <1> QED BY <1>1, <1>2, <1>3, PTL DEF Spec, HistoryOnlyGrows
=============================================================================
