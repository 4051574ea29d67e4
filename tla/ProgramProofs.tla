--------------------------- MODULE ProgramProofs ---------------------------
(***************************************************************************)
(* Of the components in Program, for every value of the constants: a memory*)
(* module is shown once and no socket and module agree better with one     *)
(* another than with what they were given; the window can be used when     *)
(* nothing goes on in it; the curve of a load graph stays inside its       *)
(* drawing; a row's details are those of its own last scan; the modules    *)
(* that are needed are loaded, no others, and once; a benchmark's list has *)
(* this machine among its neighbours; a report has what was ticked; and a  *)
(* processor has what /proc/cpuinfo says of it.                            *)
(***************************************************************************)
EXTENDS Program, SequenceTheorems, FiniteSetTheorems, WellFoundedInduction, TLAPS

-----------------------------------------------------------------------------
(* The memory. *)
TypeOK ==
  /\ sock_queue \in Seq(Sockets)
  /\ spd \in [Sockets -> Spds \cup {None}]
  /\ dmi_socket \in [Spds -> Sockets \cup {None}]
  /\ match_score \in [Spds -> Nat]

(* A socket has a module when the module has the socket. *)
PairsAgree == \A s \in Sockets, e \in Spds : spd[s] = e <=> dmi_socket[e] = s

(* A socket that queues has no module and queues once. *)
QueueLooks ==
  /\ \A i \in 1 .. Len(sock_queue) : spd[sock_queue[i]] = None
  /\ \A i, j \in 1 .. Len(sock_queue) : sock_queue[i] = sock_queue[j] => i = j

OnlyPopulated == \A s \in Sockets : spd[s] # None => says.socket[s].populated

(* Stable, of the sockets that do not queue, while the search goes on. *)
Queues(s) == \E i \in 1 .. Len(sock_queue) : sock_queue[i] = s
Content(s) == \A e \in Spds : Score(s, e) <= Has(s) \/ Score(s, e) <= match_score[e]
Settled == \A s \in Sockets : says.socket[s].populated /\ ~Queues(s) => Content(s)

IInv == TypeOK /\ PairsAgree /\ QueueLooks /\ OnlyPopulated /\ Settled

-----------------------------------------------------------------------------
(* A set of natural numbers that is not empty has a least one. *)
LEMMA Least ==
  ASSUME NEW T, T \subseteq Nat, T # {}
  PROVE  \E x \in T : \A y \in T : x <= y
<1> DEFINE R == {ss \in Nat \X Nat : ss[1] < ss[2]}
<1>1. IsWellFoundedOn(R, Nat)
      BY NatLessThanWellFounded, Zenon DEF OpToRel
<1> HIDE DEF R
<1>2. PICK x \in T : \A y \in T : ~ (<<y, x>> \in R)
      BY <1>1, WFMin
<1>3. ASSUME NEW y \in T PROVE x <= y
  <2>1. <<y, x>> \in Nat \X Nat
        OBVIOUS
  <2> QED
      BY <2>1, <1>2 DEF R
<1> QED
    BY <1>2, <1>3

(* Of some subsets of a finite set, one has none of the others in it. *)
LEMMA Smallest ==
  ASSUME NEW A, IsFiniteSet(A), NEW B, B \subseteq SUBSET A, B # {}
  PROVE  \E s \in B : \A r \in B : r \subseteq s => r = s
<1>1. \A s \in B : IsFiniteSet(s) /\ Cardinality(s) \in Nat
      BY FS_Subset, FS_CardinalityType
<1> DEFINE Sizes == {Cardinality(s) : s \in B}
<1>2. PICK n \in Sizes : \A m \in Sizes : n <= m
  <2>1. Sizes \subseteq Nat /\ Sizes # {}
        BY <1>1
  <2> QED
      BY <2>1, Least
<1>3. PICK s \in B : Cardinality(s) = n
      OBVIOUS
<1>4. ASSUME NEW r \in B, r \subseteq s PROVE r = s
  <2>1. Cardinality(r) <= Cardinality(s) /\ (Cardinality(s) = Cardinality(r) => s = r)
        BY <1>1, <1>4, FS_Subset
  <2>2. Cardinality(s) <= Cardinality(r)
        BY <1>2, <1>3
  <2> QED
      BY <1>1, <2>1, <2>2
<1> QED
    BY <1>4

(* The sum over a finite set: the value of one member and the sum of the    *)
(* others.                                                                  *)
Picked(s) == CHOOSE x \in s : TRUE
Sums(v, A) ==
  CHOOSE f : f = [s \in SUBSET A |->
    IF s = {} THEN 0 ELSE v[Picked(s)] + f[s \ {Picked(s)}]]

LEMMA PickedFacts ==
  ASSUME NEW s, s # {}
  PROVE  Picked(s) \in s /\ s \ {Picked(s)} # s /\ s \ {Picked(s)} \subseteq s
BY DEF Picked

(* There is such a function, for it can be had for the sets of up to n, any n. *)
LEMMA SumsExist ==
  ASSUME NEW A, IsFiniteSet(A), NEW v
  PROVE  Sums(v, A) = [s \in SUBSET A |->
           IF s = {} THEN 0 ELSE v[Picked(s)] + Sums(v, A)[s \ {Picked(s)}]]
<1> DEFINE Upto(n) == {s \in SUBSET A : Cardinality(s) <= n}
           OneStep(f, s) == IF s = {} THEN 0 ELSE v[Picked(s)] + f[s \ {Picked(s)}]
           Good(n) == \E f : DOMAIN f = Upto(n) /\ \A s \in Upto(n) : f[s] = OneStep(f, s)
<1>1. \A s \in SUBSET A : IsFiniteSet(s) /\ Cardinality(s) \in Nat /\ Cardinality(s) <= Cardinality(A)
      BY FS_Subset, FS_CardinalityType
<1>2. \A s \in SUBSET A : s # {} => s \ {Picked(s)} \in SUBSET A /\ Cardinality(s \ {Picked(s)}) = Cardinality(s) - 1
      BY <1>1, PickedFacts, FS_RemoveElement
<1>3. \A s \in SUBSET A : s # {} => Cardinality(s) > 0
      BY <1>1, FS_EmptySet
<1> HIDE DEF Upto
<1>4. Good(0)
  <2> DEFINE f == [s \in Upto(0) |-> 0]
  <2>1. \A s \in Upto(0) : s = {}
        BY <1>1, <1>3 DEF Upto
  <2>2. DOMAIN f = Upto(0) /\ \A s \in Upto(0) : f[s] = OneStep(f, s)
        BY <2>1
  <2> QED
      BY <2>2
<1>5. ASSUME NEW n \in Nat, Good(n) PROVE Good(n + 1)
  <2>1. PICK f : DOMAIN f = Upto(n) /\ \A s \in Upto(n) : f[s] = OneStep(f, s)
        BY <1>5
  <2> DEFINE g == [s \in Upto(n + 1) |-> OneStep(f, s)]
  <2>2. \A s \in Upto(n) : g[s] = f[s]
        BY <1>1, <2>1 DEF Upto
  <2>3. \A s \in Upto(n + 1) : s # {} => s \ {Picked(s)} \in Upto(n)
        BY <1>1, <1>2 DEF Upto
  <2>4. \A s \in Upto(n + 1) : g[s] = OneStep(g, s)
        BY <2>2, <2>3
  <2> QED
      BY <2>4
<1> HIDE DEF Good
<1>6. Good(Cardinality(A))
  <2> SUFFICES ASSUME ~Good(Cardinality(A)) PROVE FALSE
      OBVIOUS
  <2> DEFINE Bad == {n \in Nat : ~Good(n)}
  <2>1. Bad \subseteq Nat /\ Bad # {}
        BY FS_CardinalityType
  <2>2. PICK n \in Bad : \A m \in Bad : n <= m
        BY <2>1, Least
  <2>3. n # 0 /\ n \in Nat
        BY <1>4
  <2>4. n - 1 \in Nat /\ n - 1 \notin Bad
        BY <2>2, <2>3
  <2>5. Good((n - 1) + 1)
        BY <1>5, <2>4
  <2> QED
      BY <2>3, <2>5
<1>7. PICK f : DOMAIN f = SUBSET A /\ \A s \in SUBSET A : f[s] = OneStep(f, s)
  <2>1. Upto(Cardinality(A)) = SUBSET A
        BY <1>1 DEF Upto
  <2> QED
      BY <1>6, <2>1 DEF Good
<1>8. Upto(Cardinality(A)) = SUBSET A
      BY <1>1 DEF Upto
<1>9. \E g : g = [s \in SUBSET A |-> OneStep(g, s)]
  <2> DEFINE g == [s \in SUBSET A |-> f[s]]
  <2>1. \A s \in SUBSET A : s # {} => s \ {Picked(s)} \in SUBSET A
        OBVIOUS
  <2>2. \A s \in SUBSET A : g[s] = OneStep(g, s)
        BY <1>7, <2>1
  <2>3. g = [s \in SUBSET A |-> OneStep(g, s)]
        BY <2>2
  <2> QED
      BY <2>3
<1> QED
    BY <1>9 DEF Sums

LEMMA SumsUnfold ==
  ASSUME NEW A, IsFiniteSet(A), NEW v, NEW s \in SUBSET A
  PROVE  Sums(v, A)[s] = IF s = {} THEN 0 ELSE v[Picked(s)] + Sums(v, A)[s \ {Picked(s)}]
<1> DEFINE S == Sums(v, A)
<1>1. S = [r \in SUBSET A |-> IF r = {} THEN 0 ELSE v[Picked(r)] + S[r \ {Picked(r)}]]
      BY SumsExist
<1> HIDE DEF S
<1>2. S[s] = IF s = {} THEN 0 ELSE v[Picked(s)] + S[s \ {Picked(s)}]
      BY <1>1
<1> QED
    BY <1>2 DEF S

LEMMA SumsNat ==
  ASSUME NEW A, IsFiniteSet(A), NEW v, \A x \in A : v[x] \in Nat
  PROVE  \A s \in SUBSET A : Sums(v, A)[s] \in Nat
<1> DEFINE S == Sums(v, A)
           Bad == {s \in SUBSET A : S[s] \notin Nat}
<1>1. \A s \in SUBSET A : S[s] = IF s = {} THEN 0 ELSE v[Picked(s)] + S[s \ {Picked(s)}]
      BY SumsUnfold
<1> HIDE DEF S
<1> SUFFICES ASSUME Bad # {} PROVE FALSE
    BY DEF S
<1>b. Bad \subseteq SUBSET A /\ Bad # {}
      OBVIOUS
<1>2. PICK s \in Bad : \A r \in Bad : r \subseteq s => r = s
  <2> HIDE DEF Bad
  <2> QED
      BY <1>b, Smallest
<1>3. s # {} /\ s \in SUBSET A
  <2>1. s \in SUBSET A
        BY <1>b
  <2>2. ASSUME s = {} PROVE FALSE
        BY <1>1, <2>1, <2>2
  <2> QED
      BY <2>1, <2>2
<1>4. s \ {Picked(s)} \in SUBSET A /\ s \ {Picked(s)} \notin Bad /\ Picked(s) \in A
      BY <1>2, <1>3, PickedFacts
<1> QED
    BY <1>1, <1>3, <1>4

(* The sum depends on what is added only. *)
LEMMA SumsAgree ==
  ASSUME NEW B, IsFiniteSet(B), NEW A, A \subseteq B, NEW v, NEW w, \A x \in A : v[x] = w[x]
  PROVE  \A s \in SUBSET A : Sums(w, B)[s] = Sums(v, A)[s]
<1> DEFINE S == Sums(v, A)
           T == Sums(w, B)
           Bad == {s \in SUBSET A : T[s] # S[s]}
<1>0. IsFiniteSet(A)
      BY FS_Subset
<1>s. ASSUME NEW s \in SUBSET A PROVE S[s] = IF s = {} THEN 0 ELSE v[Picked(s)] + S[s \ {Picked(s)}]
      BY <1>0, SumsUnfold, Zenon
<1>t. ASSUME NEW s \in SUBSET A PROVE T[s] = IF s = {} THEN 0 ELSE w[Picked(s)] + T[s \ {Picked(s)}]
  <2>1. s \in SUBSET B
        OBVIOUS
  <2> QED BY <2>1, SumsUnfold, Zenon
<1> HIDE DEF S, T
<1>1. \A s \in SUBSET A : /\ S[s] = IF s = {} THEN 0 ELSE v[Picked(s)] + S[s \ {Picked(s)}]
                          /\ T[s] = IF s = {} THEN 0 ELSE w[Picked(s)] + T[s \ {Picked(s)}]
      BY <1>s, <1>t, Zenon
<1> SUFFICES ASSUME Bad # {} PROVE FALSE
    BY DEF S, T
<1>b. Bad \subseteq SUBSET A /\ Bad # {}
      OBVIOUS
<1>2. PICK s \in Bad : \A r \in Bad : r \subseteq s => r = s
  <2> HIDE DEF Bad
  <2> QED
      BY <1>0, <1>b, Smallest
<1>3. s # {} /\ s \in SUBSET A
  <2>1. s \in SUBSET A
        BY <1>b
  <2>2. ASSUME s = {} PROVE FALSE
        BY <1>1, <2>1, <2>2
  <2> QED
      BY <2>1, <2>2
<1>4. s \ {Picked(s)} \in SUBSET A /\ s \ {Picked(s)} \notin Bad /\ Picked(s) \in A
      BY <1>2, <1>3, PickedFacts
<1> QED
    BY <1>1, <1>3, <1>4

(* Whichever member is taken out first, the sum is the same. *)
LEMMA SumsTakeOut ==
  ASSUME NEW A, IsFiniteSet(A), NEW v, \A x \in A : v[x] \in Nat
  PROVE  \A s \in SUBSET A : \A x \in s : Sums(v, A)[s] = v[x] + Sums(v, A)[s \ {x}]
<1> DEFINE S == Sums(v, A)
           Bad == {s \in SUBSET A : \E x \in s : S[s] # v[x] + S[s \ {x}]}
<1>1. \A s \in SUBSET A : S[s] \in Nat /\ S[s] = IF s = {} THEN 0 ELSE v[Picked(s)] + S[s \ {Picked(s)}]
      BY SumsUnfold, SumsNat
<1> HIDE DEF S
<1> SUFFICES ASSUME Bad # {} PROVE FALSE
    BY DEF S
<1>b. Bad \subseteq SUBSET A /\ Bad # {}
      OBVIOUS
<1>2. PICK s \in Bad : \A r \in Bad : r \subseteq s => r = s
  <2> HIDE DEF Bad
  <2> QED
      BY <1>b, Smallest
<1>3. PICK x \in s : S[s] # v[x] + S[s \ {x}]
      OBVIOUS
<1> DEFINE p == Picked(s)
<1>4. p \in s /\ p \in A /\ x \in A /\ s \in SUBSET A
      BY PickedFacts
<1>5. S[s] = v[p] + S[s \ {p}] /\ p # x
      BY <1>1, <1>3, <1>4
<1> HIDE DEF p
<1>6. s \ {p} \notin Bad /\ s \ {x} \notin Bad /\ s \ {p} \in SUBSET A /\ s \ {x} \in SUBSET A
      BY <1>2, <1>4
<1>7. S[s \ {p}] = v[x] + S[(s \ {p}) \ {x}]
      BY <1>5, <1>6
<1>8. S[s \ {x}] = v[p] + S[(s \ {x}) \ {p}]
      BY <1>4, <1>5, <1>6
<1>9. (s \ {x}) \ {p} = (s \ {p}) \ {x} /\ (s \ {p}) \ {x} \in SUBSET A
      BY <1>4
<1>10. v[x] \in Nat /\ v[p] \in Nat /\ S[(s \ {p}) \ {x}] \in Nat
       BY <1>1, <1>4, <1>9
<1>11. S[(s \ {x}) \ {p}] = S[(s \ {p}) \ {x}]
       BY <1>9
<1> HIDE DEF Bad
<1> QED
    BY <1>3, <1>5, <1>7, <1>8, <1>10, <1>11

(* One more to add. *)
LEMMA SumOneMore ==
  ASSUME NEW A, IsFiniteSet(A), NEW x, x \notin A, NEW v, \A y \in A \cup {x} : v[y] \in Nat
  PROVE  Sums(v, A \cup {x})[A \cup {x}] = v[x] + Sums(v, A)[A]
<1> DEFINE B == A \cup {x}
<1>1. IsFiniteSet(B) /\ A \subseteq B /\ B \ {x} = A /\ x \in B
      BY FS_AddElement
<1> HIDE DEF B
<1>2. \A y \in B : v[y] \in Nat
      BY DEF B
<1>3. Sums(v, B)[B] = v[x] + Sums(v, B)[A]
      BY <1>1, <1>2, SumsTakeOut
<1>4. Sums(v, B)[A] = Sums(v, A)[A]
      BY <1>1, SumsAgree
<1> QED
    BY <1>3, <1>4 DEF B

LEMMA SumsSame ==
  ASSUME NEW A, IsFiniteSet(A), NEW v, NEW w, \A x \in A : v[x] = w[x]
  PROVE  Sums(w, A)[A] = Sums(v, A)[A]
<1>1. \A s \in SUBSET A : Sums(w, A)[s] = Sums(v, A)[s]
  <2> DEFINE B == A
  <2>1. IsFiniteSet(B) /\ A \subseteq B
        OBVIOUS
  <2> HIDE DEF B
  <2>2. \A s \in SUBSET A : Sums(w, B)[s] = Sums(v, A)[s]
        BY <2>1, SumsAgree
  <2> QED BY <2>2 DEF B
<1> QED BY <1>1

-----------------------------------------------------------------------------
(* The score of a socket and a module, dmi_spd_match_score(). *)
LEMMA ScoreType == \A s, e : Score(s, e) \in 0 .. 35
BY DEF Score

(* Where any module agrees with s better than with the socket it is in, the *)
(* loop over the modules ends with one of these, and none is better.        *)
LEMMA BestIsBest ==
  ASSUME NEW s, Candidates(s) # {}
  PROVE  /\ Best(s) \in Candidates(s)
         /\ \A f \in Candidates(s) : Score(s, f) <= Score(s, Best(s))
<1> DEFINE Lacks(e) == 35 - Score(s, e)
           Better(e, f) == Score(s, f) < Score(s, e) \/ (Score(s, f) = Score(s, e) /\ e <= f)
<1>s. \A e : Score(s, e) \in 0 .. 35
      BY ScoreType
<1>n. Candidates(s) \subseteq Nat
      BY SizesAssumption DEF Candidates, Spds
<1>1. PICK m \in {Lacks(e) : e \in Candidates(s)} : \A y \in {Lacks(e) : e \in Candidates(s)} : m <= y
  <2>1. {Lacks(e) : e \in Candidates(s)} \subseteq Nat /\ {Lacks(e) : e \in Candidates(s)} # {}
        BY <1>s
  <2> HIDE DEF Lacks
  <2> QED
      BY <2>1, Least
<1>2. \A f \in Candidates(s) : m <= Lacks(f)
      BY <1>1
<1>3. PICK b \in {e \in Candidates(s) : Lacks(e) = m} : \A y \in {e \in Candidates(s) : Lacks(e) = m} : b <= y
  <2>1. {e \in Candidates(s) : Lacks(e) = m} \subseteq Nat /\ {e \in Candidates(s) : Lacks(e) = m} # {}
        BY <1>n, <1>1
  <2> HIDE DEF Lacks
  <2> QED
      BY <2>1, Least
<1>4. b \in Candidates(s) /\ \A f \in Candidates(s) : Better(b, f)
  <2>1. ASSUME NEW f \in Candidates(s) PROVE Better(b, f)
    <3>1. Score(s, b) \in Int /\ Score(s, f) \in Int /\ Lacks(b) <= Lacks(f)
          BY <1>s, <1>2, <1>3
    <3>2. CASE Lacks(f) = m
          BY <3>2, <1>3, <3>1
    <3>3. CASE Lacks(f) # m
          BY <3>3, <1>3, <3>1
    <3> QED
        BY <3>2, <3>3
  <2> QED
      BY <2>1, <1>3
<1>5. Best(s) \in Candidates(s) /\ \A f \in Candidates(s) : Better(Best(s), f)
      BY <1>4, Zenon DEF Best
<1> QED
    BY <1>5, <1>s

-----------------------------------------------------------------------------
LEMMA IInvInit == Init => IInv
<1> SUFFICES ASSUME Init PROVE IInv
    OBVIOUS
<1> USE SizesAssumption
<1>1. sock_queue = [i \in 1 .. NSockets |-> i] /\ sock_queue \in Seq(Sockets) /\ Len(sock_queue) = NSockets
      BY DEF Init, Sockets
<1>2. TypeOK
  <2>1. spd \in [Sockets -> Spds \cup {None}] /\ dmi_socket \in [Spds -> Sockets \cup {None}]
        BY DEF Init
  <2>2. match_score \in [Spds -> Nat]
        BY DEF Init
  <2> QED
      BY <1>1, <2>1, <2>2 DEF TypeOK
<1>3. PairsAgree
      BY DEF Init, PairsAgree, Sockets, Spds
<1>4. QueueLooks /\ OnlyPopulated
      BY <1>1 DEF Init, QueueLooks, OnlyPopulated, Sockets
<1>5. Settled
      BY <1>1 DEF Settled, Queues, Sockets
<1> QED
    BY <1>2, <1>3, <1>4, <1>5 DEF IInv

(* The turn of a socket takes it off the queue, and nobody else. *)
LEMMA Popped ==
  ASSUME IInv, Searching
  PROVE  /\ Head(sock_queue) \in Sockets /\ spd[Head(sock_queue)] = None
         /\ Queues(Head(sock_queue))
         /\ Tail(sock_queue) \in Seq(Sockets)
         /\ Len(Tail(sock_queue)) \in Nat
         /\ \A i \in 1 .. Len(Tail(sock_queue)) :
              /\ Tail(sock_queue)[i] # Head(sock_queue)
              /\ spd[Tail(sock_queue)[i]] = None
         /\ \A i, j \in 1 .. Len(Tail(sock_queue)) : Tail(sock_queue)[i] = Tail(sock_queue)[j] => i = j
         /\ \A t : (\E i \in 1 .. Len(Tail(sock_queue)) : Tail(sock_queue)[i] = t)
                     <=> Queues(t) /\ t # Head(sock_queue)
<1> DEFINE q == sock_queue
<1>1. q \in Seq(Sockets) /\ q # <<>> /\ Len(q) \in Nat /\ Len(q) >= 1 /\ Head(q) = q[1]
      BY DEF IInv, TypeOK, Searching
<1>2. /\ Tail(q) \in Seq(Sockets) /\ Len(Tail(q)) = Len(q) - 1
      /\ \A i \in 1 .. Len(Tail(q)) : Tail(q)[i] = q[i + 1]
      BY <1>1
<1>3. \A i \in 1 .. Len(Tail(q)) : i + 1 \in 1 .. Len(q) /\ i + 1 # 1
      BY <1>1, <1>2
<1>4. /\ 1 \in 1 .. Len(q)
      /\ \A i \in 1 .. Len(q) : spd[q[i]] = None
      /\ \A i, j \in 1 .. Len(q) : q[i] = q[j] => i = j
      BY <1>1 DEF IInv, QueueLooks
<1>5. q[1] \in Sockets
      BY <1>1
<1>6. ASSUME NEW t, Queues(t), t # q[1] PROVE \E i \in 1 .. Len(Tail(q)) : Tail(q)[i] = t
  <2>1. PICK i \in 1 .. Len(q) : q[i] = t
        BY <1>6 DEF Queues
  <2>2. i - 1 \in 1 .. Len(Tail(q)) /\ (i - 1) + 1 = i
        BY <2>1, <1>6, <1>1, <1>2
  <2> QED
      BY <2>1, <2>2, <1>2
<1>7. ASSUME NEW t, NEW i \in 1 .. Len(Tail(q)), Tail(q)[i] = t PROVE Queues(t) /\ t # q[1]
      BY <1>7, <1>2, <1>3, <1>4 DEF Queues
<1>8. \A i, j \in 1 .. Len(Tail(q)) : Tail(q)[i] = Tail(q)[j] => i = j
  <2> SUFFICES ASSUME NEW i \in 1 .. Len(Tail(q)), NEW j \in 1 .. Len(Tail(q)), Tail(q)[i] = Tail(q)[j]
               PROVE  i = j
      OBVIOUS
  <2>1. i + 1 = j + 1
        BY <1>2, <1>3, <1>4
  <2> QED
      BY <2>1
<1>9. Queues(q[1])
      BY <1>4 DEF Queues
<1>10. \A i \in 1 .. Len(Tail(q)) : spd[Tail(q)[i]] = None /\ Tail(q)[i] # q[1]
      BY <1>2, <1>3, <1>4
<1> HIDE DEF q
<1>11. \A t : (\E i \in 1 .. Len(Tail(q)) : Tail(q)[i] = t) <=> Queues(t) /\ t # q[1]
      BY <1>6, <1>7
<1>12. Len(Tail(q)) \in Nat
      BY <1>1, <1>2
<1> QED
    BY <1>1, <1>2, <1>4, <1>5, <1>8, <1>9, <1>10, <1>11, <1>12 DEF q

(* A socket that no module agrees with better keeps none: it is settled. *)
LEMMA IInvPassBy ==
  ASSUME IInv, Searching, PassBy(Head(sock_queue)), UNCHANGED says
  PROVE  IInv'
<1> DEFINE s == Head(sock_queue)
<1>1. sock_queue' = Tail(sock_queue) /\ spd' = spd /\ dmi_socket' = dmi_socket
      /\ match_score' = match_score /\ says' = says
      BY DEF PassBy
<1>2. TypeOK'
      BY <1>1, Popped DEF IInv, TypeOK
<1>3. PairsAgree' /\ OnlyPopulated'
      BY <1>1 DEF IInv, PairsAgree, OnlyPopulated
<1>4. QueueLooks'
      BY <1>1, Popped DEF QueueLooks
<1>5. Settled'
  <2> SUFFICES ASSUME NEW t \in Sockets, says.socket[t].populated, ~Queues(t)', NEW e \in Spds
               PROVE  Score(t, e) <= Has(t) \/ Score(t, e) <= match_score[e]
      BY <1>1 DEF Settled, Content, Has, Score
  <2>1. ~Queues(t) \/ t = s
        BY <1>1, Popped DEF Queues
  <2>2. CASE t = s
    <3>1. Candidates(t) = {}
          BY <2>2 DEF PassBy
    <3>2. Score(t, e) \in 0 .. 35 /\ match_score[e] \in Nat
          BY ScoreType DEF IInv, TypeOK
    <3> QED
        BY <3>1, <3>2 DEF Candidates
  <2>3. CASE ~Queues(t)
        BY <2>3 DEF IInv, Settled, Content
  <2> QED
      BY <2>1, <2>2, <2>3
<1> QED
    BY <1>2, <1>3, <1>4, <1>5 DEF IInv

(* A socket takes its best module; the socket that had it queues up again. *)
LEMMA IInvTake ==
  ASSUME IInv, Searching, Take(Head(sock_queue)), UNCHANGED says
  PROVE  IInv'
<1> DEFINE s == Head(sock_queue)
           b == Best(s)
           d == dmi_socket[b]
           q == Tail(sock_queue)
<1>s. None \notin Int /\ Sockets \subseteq Int /\ Spds \subseteq Int
      BY SizesAssumption DEF Sockets, Spds
<1>t. /\ spd \in [Sockets -> Spds \cup {None}]
      /\ dmi_socket \in [Spds -> Sockets \cup {None}]
      /\ match_score \in [Spds -> Nat]
      BY DEF IInv, TypeOK
<1>p. /\ \A t \in Sockets, e \in Spds : spd[t] = e <=> dmi_socket[e] = t
      /\ \A t \in Sockets : spd[t] # None => says.socket[t].populated
      BY DEF IInv, PairsAgree, OnlyPopulated
<1>1. /\ s \in Sockets /\ spd[s] = None /\ says.socket[s].populated
      /\ b \in Candidates(s) /\ \A f \in Candidates(s) : Score(s, f) <= Score(s, b)
      BY Popped, BestIsBest DEF Take
<1>2. b \in Spds /\ Score(s, b) \in Nat /\ Score(s, b) > match_score[b]
      BY <1>1, ScoreType DEF Candidates
<1>3. d \in Sockets \cup {None} /\ (d # None => spd[d] = b /\ d # s /\ ~Queues(d))
  <2>1. d \in Sockets \cup {None}
        BY <1>2, <1>t
  <2>2. ASSUME d # None PROVE spd[d] = b /\ d # s
    <3>1. d \in Sockets /\ dmi_socket[b] = d
          BY <2>1, <2>2
    <3>2. spd[d] = b
          BY <3>1, <1>2, <1>p
    <3>3. b # None
          BY <1>2, <1>s
    <3> QED
        BY <3>2, <3>3, <1>1
  <2>3. ASSUME d # None, Queues(d) PROVE FALSE
    <3>1. spd[d] = None
          BY <2>3 DEF Queues, IInv, QueueLooks
    <3> QED
        BY <3>1, <2>2, <2>3, <1>2, <1>s
  <2> QED
      BY <2>1, <2>2, <2>3
<1>4. /\ spd' = [t \in Sockets |-> IF t = s THEN b ELSE IF t = d THEN None ELSE spd[t]]
      /\ dmi_socket' = [dmi_socket EXCEPT ![b] = s]
      /\ match_score' = [match_score EXCEPT ![b] = Score(s, b)]
      /\ sock_queue' = IF d = None THEN q ELSE Append(q, d)
      /\ says' = says
      BY DEF Take, Paired, Requeued
<1>5. /\ q \in Seq(Sockets) /\ Len(q) \in Nat
      /\ \A i \in 1 .. Len(q) : q[i] # s /\ spd[q[i]] = None /\ q[i] \in Sockets
      /\ \A i, j \in 1 .. Len(q) : q[i] = q[j] => i = j
      /\ \A t : (\E i \in 1 .. Len(q) : q[i] = t) <=> Queues(t) /\ t # s
      BY Popped
<1>6. d # None => \A i \in 1 .. Len(q) : q[i] # d
      BY <1>5, <1>3
<1> HIDE DEF s, b, d, q
<1>7. /\ sock_queue' \in Seq(Sockets)
      /\ d = None => sock_queue' = q
      /\ d # None => /\ Len(sock_queue') = Len(q) + 1
                     /\ \A i \in 1 .. Len(q) : sock_queue'[i] = q[i]
                     /\ sock_queue'[Len(q) + 1] = d
      BY <1>3, <1>4, <1>5
<1>8. TypeOK'
  <2>1. spd' \in [Sockets -> Spds \cup {None}]
        BY <1>4, <1>2, <1>t
  <2>2. dmi_socket' \in [Spds -> Sockets \cup {None}] /\ match_score' \in [Spds -> Nat]
        BY <1>4, <1>1, <1>2, <1>t
  <2> QED
      BY <1>7, <2>1, <2>2 DEF TypeOK
<1>9. PairsAgree'
  <2> SUFFICES ASSUME NEW t \in Sockets, NEW e \in Spds
               PROVE  spd'[t] = e <=> dmi_socket'[e] = t
      BY DEF PairsAgree
  <2>1. dmi_socket'[e] = (IF e = b THEN s ELSE dmi_socket[e])
        BY <1>4, <1>t
  <2>2. spd'[t] = IF t = s THEN b ELSE IF t = d THEN None ELSE spd[t]
        BY <1>4
  <2>3. e # None
        BY <1>s
  <2>4. CASE e = b
    <3>1. spd[t] = e => t = d
          BY <2>4, <1>p DEF d
    <3> QED
        BY <2>1, <2>2, <2>3, <2>4, <3>1
  <2>5. CASE e # b
    <3>1. dmi_socket[e] # s
          BY <1>p, <1>1, <2>3
    <3>2. t = d => dmi_socket[e] # t
          BY <1>p, <1>3, <1>s, <2>5
    <3> QED
        BY <2>1, <2>2, <2>3, <2>5, <3>1, <3>2, <1>p
  <2> QED
      BY <2>4, <2>5
<1>10. QueueLooks'
  <2>1. \A i \in 1 .. Len(q) : spd'[q[i]] = None
        BY <1>4, <1>5
  <2>2. d # None => spd'[d] = None
        BY <1>3, <1>4
  <2>3. CASE d = None
        BY <2>1, <2>3, <1>5, <1>7 DEF QueueLooks
  <2>4. CASE d # None
    <3>1. \A i \in 1 .. Len(sock_queue') : i \in 1 .. Len(q) \/ i = Len(q) + 1
          BY <2>4, <1>5, <1>7
    <3>2. \A i \in 1 .. Len(sock_queue') : spd'[sock_queue'[i]] = None
          BY <2>4, <2>1, <2>2, <3>1, <1>7
    <3>3. \A i, j \in 1 .. Len(sock_queue') : sock_queue'[i] = sock_queue'[j] => i = j
          BY <2>4, <3>1, <1>5, <1>6, <1>7
    <3> QED
        BY <3>2, <3>3 DEF QueueLooks
  <2> QED
      BY <2>3, <2>4
<1>11. OnlyPopulated'
       BY <1>1, <1>4, <1>p DEF OnlyPopulated
<1>12. \A t : ~Queues(t)' => (~Queues(t) \/ t = s) /\ (t = d => d = None)
  <2> SUFFICES ASSUME NEW t, ~Queues(t)' PROVE (~Queues(t) \/ t = s) /\ (t = d => d = None)
      OBVIOUS
  <2>1. d # None => t # d
    <3>1. d # None => Len(q) + 1 \in 1 .. Len(sock_queue')
          BY <1>5, <1>7
    <3> QED
        BY <3>1, <1>7 DEF Queues
  <2>2. ASSUME Queues(t), t # s PROVE FALSE
    <3>1. PICK i \in 1 .. Len(q) : q[i] = t
          BY <2>2, <1>5
    <3>2. i \in 1 .. Len(sock_queue') /\ sock_queue'[i] = t
          BY <3>1, <1>5, <1>7
    <3> QED
        BY <3>2 DEF Queues
  <2> QED
      BY <2>1, <2>2
<1>13. \A e \in Spds : match_score[e] \in Nat /\ match_score'[e] \in Nat /\ match_score[e] <= match_score'[e]
  <2> SUFFICES ASSUME NEW e \in Spds PROVE match_score[e] \in Nat /\ match_score'[e] \in Nat
                /\ match_score[e] <= match_score'[e]
      OBVIOUS
  <2>1. match_score'[e] = IF e = b THEN Score(s, b) ELSE match_score[e]
        BY <1>4, <1>t
  <2> QED
      BY <2>1, <1>2, <1>t
<1>14. Settled'
  <2> SUFFICES ASSUME NEW t \in Sockets, says.socket[t].populated, ~Queues(t)', NEW e \in Spds
               PROVE  Score(t, e) <= (IF spd'[t] = None THEN 0 ELSE Score(t, spd'[t]))
                      \/ Score(t, e) <= match_score'[e]
      BY <1>4 DEF Settled, Content, Has, Score
  <2>1. Score(t, e) \in Nat
        BY ScoreType
  <2>2. CASE t = s
    <3>1. spd'[t] = b /\ b # None
          BY <2>2, <1>1, <1>2, <1>4, <1>s
    <3>2. Score(t, e) <= Score(t, b) \/ Score(t, e) <= match_score[e]
          BY <2>1, <2>2, <1>1, <1>13 DEF Candidates
    <3> QED
        BY <3>1, <3>2, <2>1, <1>13
  <2>3. CASE t # s
    <3>1. spd'[t] = spd[t]
      <4>1. t # None
            BY <1>s
      <4> QED
          BY <4>1, <2>3, <1>4, <1>12
    <3>2. Score(t, e) <= (IF spd[t] = None THEN 0 ELSE Score(t, spd[t])) \/ Score(t, e) <= match_score[e]
          BY <2>3, <1>12 DEF IInv, Settled, Content, Has
    <3> QED
        BY <3>1, <3>2, <2>1, <1>13
  <2> QED
      BY <2>2, <2>3
<1> QED
    BY <1>8, <1>9, <1>10, <1>11, <1>14 DEF IInv

LEMMA IInvNext == IInv /\ [Next]_vars => IInv'
<1> SUFFICES ASSUME IInv, [Next]_vars PROVE IInv'
    OBVIOUS
<1>1. CASE Turn
      BY <1>1, IInvPassBy, IInvTake DEF Turn
<1>2. CASE EndMatch \/ UNCHANGED vars
  <2>1. UNCHANGED <<says, sock_queue, spd, dmi_socket, match_score>>
        BY <1>2 DEF EndMatch, vars
  <2> QED
      BY <2>1 DEF IInv, TypeOK, PairsAgree, QueueLooks, OnlyPopulated, Settled, Queues, Content, Has, Score
<1> QED
    BY <1>1, <1>2 DEF Next

-----------------------------------------------------------------------------
LEMMA ShownOnceFromIInv == IInv => ShownOnce
<1> SUFFICES ASSUME IInv, NEW e \in Spds
             PROVE  IF e \in Unmatched THEN \A s \in Sockets : SpdShownIn[s] # e
                    ELSE \E s \in Sockets : \A t \in Sockets : SpdShownIn[t] = e <=> t = s
    BY DEF ShownOnce
<1>1. e # None /\ None \notin Sockets
      BY SizesAssumption DEF Spds, Sockets
<1>2. \A s \in Sockets : SpdShownIn[s] = e <=> dmi_socket[e] = s
      BY <1>1 DEF IInv, PairsAgree, OnlyPopulated, SpdShownIn
<1>3. dmi_socket[e] \in Sockets \cup {None}
      BY DEF IInv, TypeOK
<1> QED
    BY <1>1, <1>2, <1>3 DEF Unmatched

(* Every module is listed once, in the details of one socket or in a row of *)
(* its own, whatever was displaced on the way (dmi_memory.c:525).           *)
THEOREM OnceForAll == Spec => []ShownOnce
<1> QED
    BY IInvInit, IInvNext, ShownOnceFromIInv, PTL DEF Spec

(* Where nobody queues, no populated socket and module agree better with one *)
(* another than each does with what it was given.                            *)
THEOREM StableForAll == Spec => []Stable
<1>1. IInv => Stable
      BY DEF IInv, Settled, Content, Queues, Stable
<1> QED
    BY <1>1, IInvInit, IInvNext, PTL DEF Spec

-----------------------------------------------------------------------------
(* The window: the operations that are going on.                           *)
Ops == [op : {"scan", "all", "selected", "summary", "reload", "refresh", "bench", "report", "sync"},
        row : Win!Rows \cup {None}]
Restorers == {"selected", "summary", "report", "sync", "reload"}
Held(s)       == \E i \in 1 .. Len(s) : s[i].op \in Restorers
Refreshing(s) == \E i \in 1 .. Len(s) : s[i].op = "refresh"
Owned(s) ==
  \A i \in 1 .. Len(s) : s[i].op \in {"scan", "all"} =>
    i < Len(s) /\ s[i + 1].op \in {"selected", "reload"}
Reloading(s) == \E i \in 1 .. Len(s) : s[i].op = "reload"

Usable ==
  /\ stack \in Seq(Ops)
  /\ hbox \in BOOLEAN
  /\ hbox \/ Held(stack) \/ (tree = WinBare /\ (reportOn \/ Refreshing(stack)))
  /\ Owned(stack)
  /\ tree \in Win!Rows \cup {None} /\ shellSelected \in WinEntries \cup {None}
  /\ tree \in Win!Rows \/ (shellSelected = None /\ ~Reloading(stack))

LEMMA PushFacts ==
  ASSUME NEW s \in Seq(Ops), NEW e \in Ops, NEW t, t = <<e>> \o s
  PROVE  /\ t \in Seq(Ops)
         /\ Held(t) <=> e.op \in Restorers \/ Held(s)
         /\ Refreshing(t) <=> e.op = "refresh" \/ Refreshing(s)
         /\ Reloading(t) <=> e.op = "reload" \/ Reloading(s)
         /\ Owned(t) <=> Owned(s) /\ (e.op \in {"scan", "all"} => s # <<>>
                       /\ s[1].op \in {"selected", "reload"})
<1>1. t \in Seq(Ops) /\ Len(t) = Len(s) + 1 /\ t[1] = e /\ \A i \in 1 .. Len(s) : t[i + 1] = s[i]
      OBVIOUS
<1>2. 1 \in 1 .. Len(t) /\ \A i \in 1 .. Len(s) : i + 1 \in 1 .. Len(t)
      BY <1>1
<1>3. \A i \in 1 .. Len(t) : i = 1 \/ (i - 1 \in 1 .. Len(s) /\ t[i] = s[i - 1])
      BY <1>1
<1>4. Held(t) <=> e.op \in Restorers \/ Held(s)
      BY <1>1, <1>2, <1>3 DEF Held
<1>5. Refreshing(t) <=> e.op = "refresh" \/ Refreshing(s)
      BY <1>1, <1>2, <1>3 DEF Refreshing
<1>6. Reloading(t) <=> e.op = "reload" \/ Reloading(s)
      BY <1>1, <1>2, <1>3 DEF Reloading
<1>7. Owned(t) <=> Owned(s) /\ (e.op \in {"scan", "all"} => s # <<>> /\ s[1].op \in {"selected", "reload"})
  <2>1. ASSUME Owned(t) PROVE Owned(s)
        BY <1>1, <1>2, <2>1 DEF Owned
  <2>2. ASSUME Owned(t), e.op \in {"scan", "all"} PROVE s # <<>> /\ s[1].op \in {"selected", "reload"}
        BY <1>1, <1>2, <2>2 DEF Owned
  <2>3. ASSUME Owned(s), e.op \in {"scan", "all"} => s # <<>> /\ s[1].op \in {"selected", "reload"},
               NEW i \in 1 .. Len(t), t[i].op \in {"scan", "all"}
        PROVE  i < Len(t) /\ t[i + 1].op \in {"selected", "reload"}
    <3>1. CASE i = 1
          BY <1>1, <2>3, <3>1
    <3>2. CASE i # 1
          BY <1>1, <1>3, <2>3, <3>2 DEF Owned
    <3> QED BY <3>1, <3>2
  <2> QED BY <2>1, <2>2, <2>3 DEF Owned
<1> QED BY <1>1, <1>4, <1>5, <1>6, <1>7

LEMMA PopFacts ==
  ASSUME NEW s \in Seq(Ops), s # <<>>
  PROVE  s[1] \in Ops /\ Tail(s) \in Seq(Ops) /\ s = <<s[1]>> \o Tail(s)
OBVIOUS

LEMMA Push ==
  \A s \in Seq(Ops), e \in Ops :
    /\ <<e>> \o s \in Seq(Ops)
    /\ Held(<<e>> \o s) <=> e.op \in Restorers \/ Held(s)
    /\ Refreshing(<<e>> \o s) <=> e.op = "refresh" \/ Refreshing(s)
    /\ Reloading(<<e>> \o s) <=> e.op = "reload" \/ Reloading(s)
    /\ Owned(<<e>> \o s) <=> Owned(s) /\ (e.op \in {"scan", "all"} => s # <<>>
                  /\ s[1].op \in {"selected", "reload"})
    /\ <<e>> \o s # <<>> /\ (<<e>> \o s)[1] = e
<1> TAKE s \in Seq(Ops), e \in Ops
<1> DEFINE t == <<e>> \o s
<1>1. t = <<e>> \o s /\ t # <<>> /\ t[1] = e
      OBVIOUS
<1> HIDE DEF t
<1>2. t \in Seq(Ops) /\ (Held(t) <=> e.op \in Restorers \/ Held(s))
      /\ (Refreshing(t) <=> e.op = "refresh" \/ Refreshing(s))
      /\ (Reloading(t) <=> e.op = "reload" \/ Reloading(s))
      /\ (Owned(t) <=> Owned(s) /\ (e.op \in {"scan", "all"} => s # <<>> /\ s[1].op \in {"selected", "reload"}))
      BY <1>1, PushFacts
<1> QED BY <1>1, <1>2

LEMMA Pop ==
  \A s \in Seq(Ops) : s # <<>> =>
    /\ s[1] \in Ops /\ Tail(s) \in Seq(Ops)
    /\ Held(s) <=> s[1].op \in Restorers \/ Held(Tail(s))
    /\ Refreshing(s) <=> s[1].op = "refresh" \/ Refreshing(Tail(s))
    /\ Reloading(s) <=> s[1].op = "reload" \/ Reloading(Tail(s))
    /\ Owned(s) <=> Owned(Tail(s)) /\ (s[1].op \in {"scan", "all"} => Tail(s) # <<>>
                  /\ Tail(s)[1].op \in {"selected", "reload"})
<1> TAKE s \in Seq(Ops)
<1> HAVE s # <<>>
<1>1. s[1] \in Ops /\ Tail(s) \in Seq(Ops) /\ s = <<s[1]>> \o Tail(s)
      OBVIOUS
<1> QED BY ONLY <1>1, PushFacts

(* module_selected() either begins an operation that ends with a sensitive  *)
(* window, or one goes on below, or the row is one without a summary.       *)
LEMMA Selected ==
  ASSUME NEW picked \in Win!Rows, NEW below \in Seq(Ops), Owned(below), hbox \in BOOLEAN,
         tree' = picked, shellSelected \in WinEntries \cup {None},
         hbox \/ Held(below) \/ Refreshing(below),
         Win!ModuleSelected(picked, below)
  PROVE  /\ stack' \in Seq(Ops) /\ Owned(stack') /\ hbox' \in BOOLEAN
         /\ shellSelected' \in WinEntries \cup {None}
         /\ hbox' \/ Held(stack') \/ (picked = WinBare /\ Refreshing(stack'))
<1>1. CASE Win!Updating(below) /\ stack' = below /\ UNCHANGED <<shellSelected, Win!sensitive, progress>>
  <2>1. Held(below)
        BY <1>1 DEF Win!Updating, Held, Restorers
  <2> QED BY <1>1, <2>1 DEF Win!sensitive
<1>2. CASE /\ ~Win!Updating(below) /\ picked \in WinEntries
           /\ shellSelected' = picked /\ Win!StatusOn
           /\ stack' = <<[op |-> "scan", row |-> picked], [op |-> "selected", row |-> picked]>> \o below
           /\ UNCHANGED Win!sensitive
  <2> DEFINE scan == [op |-> "scan", row |-> picked]
             selected == [op |-> "selected", row |-> picked]
  <2>1. scan \in Ops /\ selected \in Ops /\ scan.op = "scan" /\ selected.op = "selected"
        BY DEF Ops
  <2>2. stack' = <<scan>> \o (<<selected>> \o below)
        BY <1>2, <2>1
  <2> HIDE DEF scan, selected
  <2>3. <<selected>> \o below \in Seq(Ops) /\ Owned(<<selected>> \o below) /\ Held(<<selected>> \o below)
        /\ <<selected>> \o below # <<>> /\ (<<selected>> \o below)[1] = selected
        BY <2>1, Push DEF Restorers
  <2>4. stack' \in Seq(Ops) /\ Owned(stack') /\ Held(stack')
        BY ONLY <2>1, <2>2, <2>3, Push
  <2> QED BY <1>2, <2>4 DEF Win!sensitive
<1>3. CASE /\ ~Win!Updating(below) /\ picked \notin WinEntries
           /\ refreshOn' = FALSE
           /\ IF picked = WinSummary THEN Win!Push("summary", picked, below) ELSE stack' = below
           /\ UNCHANGED <<shellSelected, hbox, reportOn, progress>>
  <2>1. CASE picked = WinSummary
    <3> DEFINE summary == [op |-> "summary", row |-> picked]
    <3>1. summary \in Ops /\ summary.op = "summary" /\ stack' = <<summary>> \o below
          BY <1>3, <2>1 DEF Ops, Win!Push
    <3> HIDE DEF summary
    <3>2. stack' \in Seq(Ops) /\ Owned(stack') /\ Held(stack')
          BY <3>1, Push DEF Restorers
    <3> QED BY <1>3, <3>2
  <2>2. CASE picked # WinSummary
        BY <1>3, <2>2 DEF Win!Rows
  <2> QED BY <2>1, <2>2
<1> QED BY <1>1, <1>2, <1>3 DEF Win!ModuleSelected

LEMMA UsableInit == ASSUME Win!Init PROVE Usable
<1>1. stack = <<>> /\ Len(stack) = 0
      BY DEF Win!Init
<1> QED BY <1>1 DEF Win!Init, Usable, Owned, Reloading

(* An operation that ends or that events begin: what the window's parts are. *)
LEMMA UsableNext == ASSUME Usable, Win!Next PROVE Usable'
<1> USE DEF Usable
<1>1. ASSUME NEW picked \in Win!Rows, Win!SelectRow(picked) PROVE Usable'
  <2>1. hbox /\ tree' = picked /\ Win!ModuleSelected(picked, stack)
        BY <1>1 DEF Win!SelectRow
  <2> QED BY <2>1, Selected
<1>2. ASSUME Win!StatusPulse PROVE Usable'
  <2>1. stack # <<>> /\ stack[1].op \in Win!Pulsing /\ UNCHANGED <<stack, tree, shellSelected>>
        BY <1>2 DEF Win!StatusPulse
  <2>2. Held(Tail(stack)) \/ stack[1].op \in Restorers
    <3>1. CASE stack[1].op \in {"scan", "all"}
      <4>1. Tail(stack) \in Seq(Ops) /\ Tail(stack) # <<>> /\ Tail(stack)[1].op \in {"selected", "reload"}
            BY <2>1, <3>1, Pop
      <4> QED BY <4>1, Pop DEF Restorers
    <3> QED BY <2>1, <3>1 DEF Win!Pulsing, Restorers
  <2>3. Held(stack) /\ hbox' \in BOOLEAN
        BY <1>2, <2>1, <2>2, Pop DEF Win!StatusPulse, Win!sensitive
  <2> QED BY <2>1, <2>3
<1>3. ASSUME Win!ScanEnds PROVE Usable'
  <2>1. stack # <<>> /\ stack[1].op = "scan" /\ stack' = Tail(stack)
                /\ UNCHANGED <<tree, shellSelected, hbox, reportOn>>
        BY <1>3 DEF Win!ScanEnds, Win!sensitive
  <2> QED BY <2>1, Pop DEF Restorers
<1>4. ASSUME Win!ScanAll PROVE Usable'
  <2> DEFINE scanned == [stack[1] EXCEPT !.op = "all"]
  <2>1. stack # <<>> /\ stack[1].op = "scan" /\ UNCHANGED <<tree, shellSelected>> /\ hbox' = FALSE
        BY <1>4 DEF Win!ScanAll, Win!ViewEnabled
  <2>0. stack[1] \in Ops
        BY <2>1, Pop
  <2>2. scanned \in Ops /\ scanned.op = "all"
        BY ONLY <2>0 DEF Ops
  <2>3. stack' = <<scanned>> \o Tail(stack)
        BY <1>4, <2>1 DEF Win!ScanAll
  <2> HIDE DEF scanned
  <2>4. Tail(stack) # <<>> /\ Tail(stack) \in Seq(Ops) /\ Tail(stack)[1].op \in {"selected", "reload"}
                /\ Owned(Tail(stack))
        /\ (Reloading(stack) <=> Reloading(Tail(stack)))
        BY <2>1, Pop
  <2>5. Held(Tail(stack))
        BY <2>4, Pop DEF Restorers
  <2>6. stack' \in Seq(Ops) /\ Owned(stack') /\ Held(stack') /\ (Reloading(stack') <=> Reloading(stack))
        BY <2>2, <2>3, <2>4, <2>5, Push
  <2> QED BY <2>1, <2>6
<1>5. ASSUME Win!AllScanned \/ Win!SummaryEnds \/ Win!SelectionEnds \/ Win!ReportEnds PROVE Usable'
  <2>1. stack # <<>> /\ stack' = Tail(stack) /\ hbox' = TRUE /\ UNCHANGED <<tree, shellSelected>>
        BY <1>5 DEF Win!AllScanned, Win!SummaryEnds, Win!SelectionEnds, Win!ReportEnds, Win!StatusOff, Win!ViewEnabled
  <2> QED BY <2>1, Pop
<1>6. ASSUME Win!Refresh PROVE Usable'
  <2> DEFINE scan == [op |-> "scan", row |-> shellSelected]
             reload == [op |-> "reload", row |-> shellSelected]
  <2>1. /\ shellSelected # None /\ UNCHANGED <<tree, shellSelected, hbox>>
        /\ stack' = <<scan, reload>> \o stack
        BY <1>6 DEF Win!Refresh
  <2>2. scan \in Ops /\ scan.op = "scan" /\ reload \in Ops /\ reload.op = "reload"
        BY <2>1 DEF Ops, Win!Rows
  <2>3. stack' = <<scan>> \o (<<reload>> \o stack)
        BY <2>1, <2>2
  <2> HIDE DEF scan, reload
  <2>4. <<reload>> \o stack \in Seq(Ops) /\ Owned(<<reload>> \o stack) /\ Held(<<reload>> \o stack)
        /\ <<reload>> \o stack # <<>> /\ (<<reload>> \o stack)[1] = reload
        BY <2>2, Push DEF Restorers
  <2>5. stack' \in Seq(Ops) /\ Owned(stack') /\ Held(stack')
        BY ONLY <2>2, <2>3, <2>4, Push
  <2> QED BY <2>1, <2>5
<1>7. ASSUME Win!Reloaded PROVE Usable'
  <2> DEFINE refresh == [op |-> "refresh", row |-> tree]
             below == <<refresh>> \o Tail(stack)
  <2>1. stack # <<>> /\ stack[1].op = "reload" /\ Win!ModuleSelected(tree, below) /\ UNCHANGED tree
        BY <1>7 DEF Win!Reloaded
  <2>2. refresh \in Ops /\ refresh.op = "refresh"
        BY DEF Ops
  <2> HIDE DEF refresh
  <2>3. tree \in Win!Rows
        BY <2>1, Pop
  <2>4. below \in Seq(Ops) /\ Owned(below) /\ Refreshing(below)
        BY <2>1, <2>2, Pop, Push
  <2> HIDE DEF below
  <2> QED BY <2>1, <2>3, <2>4, Selected
<1>8. ASSUME Win!RefreshEnds PROVE Usable'
  <2>1. stack # <<>> /\ stack[1].op = "refresh" /\ stack' = Tail(stack) /\ reportOn' = TRUE
                /\ UNCHANGED <<tree, shellSelected, hbox>>
        BY <1>8 DEF Win!RefreshEnds
  <2> QED BY <2>1, Pop DEF Restorers
<1>9. ASSUME Win!Benchmark PROVE Usable'
  <2> DEFINE bench == [op |-> "bench", row |-> None]
  <2>1. /\ stack # <<>> /\ stack[1].op \in {"scan", "report", "sync"} /\ hbox' = FALSE
        /\ stack' = <<bench>> \o stack /\ UNCHANGED <<tree, shellSelected>>
        BY <1>9 DEF Win!Benchmark, Win!ViewEnabled, Win!Push
  <2>2. bench \in Ops /\ bench.op = "bench"
        BY DEF Ops
  <2> HIDE DEF bench
  <2>3. Held(stack)
    <3>1. CASE stack[1].op = "scan"
      <4>1. Tail(stack) \in Seq(Ops) /\ Tail(stack) # <<>> /\ Tail(stack)[1].op \in {"selected", "reload"}
            BY <2>1, <3>1, Pop
      <4> QED BY <2>1, <4>1, Pop DEF Restorers
    <3> QED BY <2>1, <3>1, Pop DEF Restorers
  <2> QED BY <2>1, <2>2, <2>3, Push
<1>10. ASSUME Win!BenchmarkEnds PROVE Usable'
  <2>1. /\ stack # <<>> /\ stack[1].op = "bench" /\ stack' = Tail(stack) /\ UNCHANGED <<tree, shellSelected>>
        /\ hbox' = TRUE \/ UNCHANGED <<hbox, reportOn>>
        BY <1>10 DEF Win!BenchmarkEnds, Win!ViewEnabled, Win!sensitive
  <2>2. stack' \in Seq(Ops) /\ Owned(stack') /\ (Reloading(stack') <=> Reloading(stack))
        /\ (Held(stack') <=> Held(stack)) /\ (Refreshing(stack') <=> Refreshing(stack))
        BY <2>1, Pop DEF Restorers
  <2>3. CASE hbox' = TRUE
        BY <2>1, <2>2, <2>3
  <2>4. CASE UNCHANGED <<hbox, reportOn>>
        BY <2>1, <2>2, <2>4
  <2> QED BY <2>1, <2>3, <2>4
<1>11. ASSUME NEW op \in {"report", "sync"}, Win!Push(op, None, stack), Win!ViewEnabled(FALSE),
              UNCHANGED <<tree, shellSelected>>
       PROVE  Usable'
  <2> DEFINE top == [op |-> op, row |-> None]
  <2>1. top \in Ops /\ top.op \in {"report", "sync"} /\ stack' = <<top>> \o stack /\ hbox' = FALSE
        BY <1>11 DEF Ops, Win!Push, Win!ViewEnabled
  <2> HIDE DEF top
  <2> QED BY <1>11, <2>1, Push DEF Restorers
<1>12. ASSUME Win!Report \/ Win!Synchronize PROVE Usable'
       BY <1>11, <1>12 DEF Win!Report, Win!Synchronize
<1> QED BY <1>1, <1>2, <1>3, <1>4, <1>5, <1>6, <1>7, <1>8, <1>9, <1>10, <1>12 DEF Win!Next

LEMMA LiveStays == ProgramNext => live' = live
BY DEF ProgramNext

(* Both hold of the memory when it is a part of the program.                *)
THEOREM MemoryForAll == ProgramSpec => [](live = "memory" => ShownOnce /\ Stable)
<1> DEFINE I == live = "memory" => IInv
<1>1. ProgramInit => I
      BY IInvInit DEF ProgramInit, Own
<1>2. I /\ [ProgramNext]_its => I'
  <2>1. ASSUME I, ProgramNext, live = "memory" PROVE IInv'
        BY <2>1, IInvNext DEF ProgramNext, Own
  <2>2. ASSUME IInv, UNCHANGED its PROVE IInv'
        BY <2>2, IInvNext DEF its
  <2> QED BY <2>1, <2>2, LiveStays DEF its
<1>3. I => (live = "memory" => ShownOnce /\ Stable)
      BY ShownOnceFromIInv DEF IInv, Settled, Content, Queues, Stable
<1> HIDE DEF I
<1> QED BY <1>1, <1>2, <1>3, PTL DEF ProgramSpec

(* When no operation is going on, the window can be used or a report can be *)
(* asked for, however they were begun inside one another, for any rows.     *)
THEOREM WindowRecovers == ProgramSpec => []UsableAtRest
<1> DEFINE I == live = "window" => Usable
<1>1. ProgramInit => I
      BY UsableInit DEF ProgramInit, Own
<1>2. I /\ [ProgramNext]_its => I'
  <2>1. ASSUME I, ProgramNext, live = "window" PROVE Usable'
        BY <2>1, UsableNext DEF ProgramNext, Own
  <2>2. ASSUME Usable, UNCHANGED its PROVE Usable'
        BY <2>2 DEF its, Win!vars, Win!sensitive, Usable
  <2> QED BY <2>1, <2>2, LiveStays DEF its
<1>3. I => UsableAtRest
      BY DEF Usable, UsableAtRest, Win!UsableAtRest, Held, Refreshing
<1> HIDE DEF I
<1> QED BY <1>1, <1>2, <1>3, PTL DEF ProgramSpec

-----------------------------------------------------------------------------
(* The load graph: the samples are below the maximum, and the curve is what *)
(* is drawn of them to that scale, or a flat line when there were none.     *)
Below == \A i \in 1 .. GraphSize : data[i] <= max_value
Curve ==
  /\ data \in Seq(Nat) /\ Len(data) = GraphSize
  /\ max_value \in Nat
  /\ Below
  /\ \/ points = Graph!Drawn(data, max_value)
     \/ points = Graph!Flat /\ max_value = 1 /\ \A i \in 1 .. GraphSize : data[i] = 0

LEMMA Greatest ==
  ASSUME NEW S, S \subseteq Nat, S # {}, NEW b \in Nat, \A x \in S : x <= b
  PROVE  Graph!Max(S) \in S /\ \A x \in S : x <= Graph!Max(S)
<1> DEFINE T == {b - x : x \in S}
<1>1. T \subseteq Nat /\ T # {}
  <2>1. \A x \in S : b - x \in Nat
        OBVIOUS
  <2>2. PICK x0 \in S : TRUE
        OBVIOUS
  <2> QED BY <2>1, <2>2
<1>2. PICK t \in T : \A y \in T : t <= y
  <2> HIDE DEF T
  <2> QED BY <1>1, Least
<1>3. PICK m \in S : t = b - m
      BY <1>2
<1>4. \A x \in S : m >= x
      BY <1>2, <1>3
<1>5. Graph!Max(S) \in S /\ \A x \in S : Graph!Max(S) >= x
      BY <1>3, <1>4, Zenon DEF Graph!Max
<1> QED BY <1>5

LEMMA ShiftedIs ==
  ASSUME data \in Seq(Nat), Len(data) = GraphSize, NEW value \in Nat
  PROVE  /\ Graph!Shifted(value) \in Seq(Nat) /\ Len(Graph!Shifted(value)) = GraphSize
         /\ \A i \in 1 .. GraphSize : Graph!Shifted(value)[i] = IF i = GraphSize THEN value ELSE data[i + 1]
<1> DEFINE rest == Tail(data)
<1>1. rest \in Seq(Nat) /\ Len(rest) = GraphSize - 1 /\ \A i \in 1 .. Len(rest) : rest[i] = data[i + 1]
      BY GraphAssumption
<1> HIDE DEF rest
<1>2. Append(rest, value) \in Seq(Nat) /\ Len(Append(rest, value)) = GraphSize
      /\ \A i \in 1 .. GraphSize : Append(rest, value)[i] = IF i = GraphSize THEN value ELSE rest[i]
      BY <1>1, GraphAssumption
<1> QED BY <1>1, <1>2, GraphAssumption DEF Graph!Shifted, rest

LEMMA CurveInit == ASSUME Graph!Init PROVE Curve
<1>1. /\ data = [i \in 1 .. GraphSize |-> 0] /\ max_value = 1 /\ points = Graph!Flat
      BY DEF Graph!Init, Graph!Zeroes
<1>2. data \in Seq(Nat) /\ Len(data) = GraphSize
      BY <1>1, GraphAssumption
<1> QED BY <1>1, <1>2, GraphAssumption DEF Curve, Below

LEMMA CurveNext == ASSUME Curve, Graph!Next PROVE Curve'
<1>1. ASSUME NEW value \in GraphValues, value >= 0, data' = Graph!Shifted(value),
             \/ max_value' = Graph!Largest(data')
             \/ max_value' = Graph!Max({value, max_value}),
             points' = Graph!Drawn(data', max_value')
      PROVE  Curve'
  <2>1. value \in Nat
        BY <1>1, GraphAssumption
  <2>2. data' \in Seq(Nat) /\ Len(data') = GraphSize
        /\ \A i \in 1 .. GraphSize : data'[i] = IF i = GraphSize THEN value ELSE data[i + 1]
        BY <1>1, <2>1, ShiftedIs DEF Curve
  <2>3. PICK b \in Nat : value <= b /\ max_value <= b
        BY <2>1 DEF Curve
  <2>4. \A i \in 1 .. GraphSize : data'[i] \in Nat /\ data'[i] <= b
        /\ (data'[i] = value \/ data'[i] <= max_value)
        BY <2>1, <2>2, <2>3, GraphAssumption DEF Curve, Below
  <2>5. max_value' \in Nat /\ \A i \in 1 .. GraphSize : data'[i] <= max_value'
    <3>1. CASE max_value' = Graph!Largest(data')
      <4> DEFINE S == {data'[i] : i \in 1 .. GraphSize}
      <4>0. DOMAIN data' = 1 .. GraphSize
            BY <2>2, GraphAssumption
      <4>1. Graph!ToSet(data') = S
            BY <4>0, Zenon DEF Graph!ToSet
      <4>2. S \subseteq Nat /\ S # {} /\ \A x \in S : x <= b
            BY <2>4, GraphAssumption
      <4>3. \A i \in 1 .. GraphSize : data'[i] \in S
            OBVIOUS
      <4> HIDE DEF S
      <4>4. Graph!Max(S) \in S /\ \A x \in S : x <= Graph!Max(S)
            BY <4>2, <2>3, Greatest
      <4> QED BY <3>1, <4>1, <4>2, <4>3, <4>4 DEF Graph!Largest
    <3>2. CASE max_value' = Graph!Max({value, max_value})
      <4> DEFINE S == {value, max_value}
      <4>1. S \subseteq Nat /\ S # {} /\ \A x \in S : x <= b
            BY <2>1, <2>3 DEF Curve
      <4>2. value \in S /\ max_value \in S
            OBVIOUS
      <4>3. max_value' = Graph!Max(S)
            BY <3>2
      <4> HIDE DEF S
      <4>4. Graph!Max(S) \in S /\ \A x \in S : x <= Graph!Max(S)
            BY <4>1, <2>3, Greatest
      <4>5. max_value' \in S
            BY <4>3, <4>4
      <4>6. max_value' \in Nat /\ value <= max_value' /\ max_value <= max_value'
            BY <4>1, <4>2, <4>3, <4>4, <4>5
      <4>7. ASSUME NEW i \in 1 .. GraphSize PROVE data'[i] <= max_value'
            BY <2>1, <2>4, <4>6 DEF Curve
      <4> QED BY <4>6, <4>7
    <3> QED BY <1>1, <3>1, <3>2
  <2> QED BY <1>1, <2>2, <2>5 DEF Curve, Below
<1>2. ASSUME Graph!load_graph_clear PROVE Curve'
  <2>1. /\ data' = [i \in 1 .. GraphSize |-> 0] /\ max_value' = 1 /\ points' = Graph!Flat
        BY <1>2 DEF Graph!load_graph_clear, Graph!Zeroes
  <2>2. data' \in Seq(Nat) /\ Len(data') = GraphSize
        BY <2>1, GraphAssumption
  <2> QED BY <2>1, <2>2, GraphAssumption DEF Curve, Below, Graph!Flat
<1> QED BY <1>1, <1>2 DEF Graph!Next, Graph!load_graph_update

(* Of what is drawn d of a maximum m no point is higher than nine tenths of *)
(* h, and that of the maximum as high.                                      *)
LEMMA NineTenths ==
  ASSUME NEW d \in Nat, NEW m \in Nat, NEW h \in Nat, d <= m
  PROVE  10 * (d * 9 * h) <= 9 * h * (10 * m) /\ 10 * (m * 9 * h) = 9 * h * (10 * m)
<1>1. PICK k \in Nat : m = d + k
      OBVIOUS
<1> DEFINE dh == d * h
           kh == k * h
           mh == m * h
<1>2. mh = dh + kh /\ dh \in Nat /\ kh \in Nat /\ mh \in Nat
      BY <1>1
<1>3. d * 9 * h = 9 * dh /\ 9 * h * (10 * m) = 90 * mh /\ m * 9 * h = 9 * mh
      OBVIOUS
<1> HIDE DEF dh, kh, mh
<1> QED BY <1>2, <1>3

LEMMA CurveInside == ASSUME Curve PROVE Graph!CurveStaysInside
<1> USE GraphAssumption
<1>1. CASE points = Graph!Flat /\ max_value = 1 /\ \A i \in 1 .. GraphSize : data[i] = 0
  <2>1. DOMAIN points = 2 .. GraphSize /\ \A i \in 2 .. GraphSize : points[i] = [num |-> 0, den |-> 1]
        BY <1>1 DEF Graph!Flat
  <2>2. points # Graph!Undrawable
    <3>1. 2 \in DOMAIN points
          BY <2>1
    <3> QED BY <3>1 DEF Graph!Undrawable
  <2>3. max_value \notin Graph!ToSet(Tail(data))
    <3>1. DOMAIN Tail(data) = 1 .. (GraphSize - 1) /\ \A i \in DOMAIN Tail(data) : Tail(data)[i] = data[i + 1]
          BY DEF Curve
    <3> QED BY <1>1, <3>1 DEF Graph!ToSet
  <2>4. \A i \in DOMAIN points : 10 * points[i].num <= 9 * GraphHeight * points[i].den
        BY <2>1
  <2> QED BY <2>2, <2>3, <2>4 DEF Graph!CurveStaysInside
<1>2. CASE points = Graph!Drawn(data, max_value) /\ max_value = 0
  <2>1. \A i \in 1 .. GraphSize : data[i] = 0
        BY <1>2 DEF Curve, Below
  <2>2. Graph!ToSet(data) = {0}
    <3>1. 1 \in DOMAIN data /\ DOMAIN data = 1 .. GraphSize
          BY DEF Curve
    <3> QED BY <2>1, <3>1 DEF Graph!ToSet
  <2>3. points = Graph!Undrawable
        BY <1>2 DEF Graph!Drawn
  <2> QED BY <2>2, <2>3 DEF Graph!CurveStaysInside
<1>3. CASE points = Graph!Drawn(data, max_value) /\ max_value # 0
  <2>1. DOMAIN points = 2 .. GraphSize
        /\ \A i \in 2 .. GraphSize : points[i].num = data[i] * 9 * GraphHeight /\ points[i].den = 10 * max_value
        BY <1>3 DEF Graph!Drawn, Curve
  <2>2. points # Graph!Undrawable
    <3>1. 2 \in DOMAIN points
          BY <2>1
    <3> QED BY <3>1 DEF Graph!Undrawable
  <2>3. ASSUME NEW i \in DOMAIN points PROVE 10 * points[i].num <= 9 * GraphHeight * points[i].den
    <3>0. i \in 1 .. GraphSize /\ DOMAIN data = 1 .. GraphSize
          BY <2>1 DEF Curve
    <3>1. data[i] \in Nat /\ max_value \in Nat /\ data[i] <= max_value
          BY <3>0 DEF Curve, Below
    <3>2. 10 * (data[i] * 9 * GraphHeight) <= 9 * GraphHeight * (10 * max_value)
          BY <3>1, NineTenths
    <3> QED BY <2>1, <3>2
  <2>4. ASSUME max_value \in Graph!ToSet(Tail(data))
        PROVE  \E i \in DOMAIN points : 10 * points[i].num = 9 * GraphHeight * points[i].den
    <3>1. DOMAIN Tail(data) = 1 .. (GraphSize - 1) /\ \A i \in DOMAIN Tail(data) : Tail(data)[i] = data[i + 1]
          BY DEF Curve
    <3>2. PICK i \in 1 .. (GraphSize - 1) : data[i + 1] = max_value
          BY <2>4, <3>1 DEF Graph!ToSet
    <3>0. DOMAIN points = 2 .. GraphSize
          BY <2>1
    <3>a. i + 1 \in 2 .. GraphSize
          BY SMT
    <3>b. max_value \in Nat
          BY DEF Curve
    <3>3. i + 1 \in DOMAIN points /\ max_value \in Nat
          BY <3>0, <3>a, <3>b
    <3>4. 10 * (max_value * 9 * GraphHeight) = 9 * GraphHeight * (10 * max_value)
          BY <3>3, NineTenths
    <3>5. 10 * points[i + 1].num = 9 * GraphHeight * points[i + 1].den
          BY <2>1, <3>2, <3>3, <3>4
    <3> QED BY <3>3, <3>5
  <2> QED BY <2>2, <2>3, <2>4 DEF Graph!CurveStaysInside
<1> QED BY <1>1, <1>2, <1>3 DEF Curve

(* No sample is drawn above nine tenths of a load graph, and after a look   *)
(* for the maximum the curve reaches up to there, for any samples.          *)
THEOREM CurveInsideForAll == ProgramSpec => []CurveStaysInside
<1> DEFINE I == live = "graph" => Curve
<1>1. ProgramInit => I
      BY CurveInit DEF ProgramInit, Own
<1>2. I /\ [ProgramNext]_its => I'
  <2>1. ASSUME I, ProgramNext, live = "graph" PROVE Curve'
        BY <2>1, CurveNext DEF ProgramNext, Own
  <2>2. ASSUME Curve, UNCHANGED its PROVE Curve'
        BY <2>2 DEF its, Graph!vars, Curve, Below, Graph!Drawn, Graph!Flat
  <2> QED BY <2>1, <2>2, LiveStays DEF its
<1>3. I => CurveStaysInside
      BY CurveInside DEF CurveStaysInside
<1> HIDE DEF I
<1> QED BY <1>1, <1>2, <1>3, PTL DEF ProgramSpec

-----------------------------------------------------------------------------
(* Rows and their details: the kinds of key that an entry's scan makes, and *)
(* that no other does.                                                      *)
KindsOf(s) ==
  CASE s = "gpu"     -> Sec!Kinds["gpu"] \cup Sec!Kinds["soc_gpu"]
    [] s = "storage" -> Sec!Kinds["udisks"] \cup Sec!Kinds["ide"] \cup Sec!Kinds["scsi"]
    [] OTHER         -> Sec!Kinds[s]
Keyed(k, kinds) == k = <<k[1], k[2], k[3]>> /\ <<k[1], k[2]>> \in kinds

(* A table holds keys of entries; a row's key is one of its own entry, is in *)
(* the table and has there what it has in the list; of an entry that forgets *)
(* nothing else is there.                                                    *)
Tables ==
  /\ DOMAIN list = SecScanned /\ DOMAIN icons = SecScanned
  /\ \A k \in DOMAIN moreinfo : \E s \in Sec!Entries : Keyed(k, KindsOf(s))
  /\ \A s \in SecScanned : \A k \in DOMAIN list[s] : Keyed(k, KindsOf(s))
  /\ \A s \in SecScanned : \A k \in DOMAIN list[s] : k \in DOMAIN moreinfo /\ moreinfo[k] = list[s][k]
  /\ \A s \in SecScanned : s \notin listed => DOMAIN list[s] = {}
  /\ \A s \in Sec!Forgetful : \A k \in DOMAIN moreinfo : Keyed(k, KindsOf(s)) => k \in DOMAIN list[s]
  /\ \A s \in Sec!Forgetful : icons[s] \ Sec!Freed \subseteq DOMAIN list[s]
  /\ \A s \in SecScanned \cap {"users", "filesystems"} : icons[s] = {}

LEMMA AppendedThird ==
  ASSUME NEW S, NEW s \in Seq(S), NEW n \in S, Len(s) = 2
  PROVE  Len(Append(s, n)) = 3 /\ Append(s, n)[3] = n
<1>1. Len(Append(s, n)) = Len(s) + 1
      BY ONLY n \in S, s \in Seq(S), AppendProperties, Zenon
<1>2. Append(s, n)[Len(s) + 1] = n
      BY ONLY n \in S, s \in Seq(S), AppendProperties, Zenon
<1>3. Len(s) + 1 = 3
      OBVIOUS
<1> QED BY ONLY <1>1, <1>2, <1>3

(* The keys have three parts. *)
LEMMA Triples ==
  ASSUME NEW a, NEW b, NEW n
  PROVE  Append(<<a, b>>, n) = <<a, b, n>> /\ Sec!Front(<<a, b, n>>) = <<a, b>>
<1> DEFINE S == {a, b, n}
           pair == <<a, b>>
           triple == <<a, b, n>>
<1>1. pair \in Seq(S) /\ Len(pair) = 2 /\ pair[1] = a /\ pair[2] = b
      OBVIOUS
<1>2. triple \in Seq(S) /\ Len(triple) = 3 /\ triple[1] = a /\ triple[2] = b /\ triple[3] = n
      OBVIOUS
<1>3. n \in S
      OBVIOUS
<1>4. Append(pair, n) = triple
  <2> HIDE DEF S, pair, triple
  <2>1. Append(pair, n) \in Seq(S) /\ Append(pair, n)[1] = a /\ Append(pair, n)[2] = b
        BY <1>1, <1>3
  <2>2. Len(Append(pair, n)) = 3 /\ Append(pair, n)[3] = n
        BY <1>1, <1>3, AppendedThird
  <2>3. \A i \in 1 .. 3 : Append(pair, n)[i] = triple[i]
        BY <1>2, <2>1, <2>2
  <2> QED BY <1>2, <2>1, <2>2, <2>3, SeqEqual
<1>5. Sec!Front(triple) = pair
  <2> HIDE DEF S, pair, triple
  <2>1. SubSeq(triple, 1, 2) \in Seq(S) /\ Len(SubSeq(triple, 1, 2)) = 2
        /\ SubSeq(triple, 1, 2)[1] = a /\ SubSeq(triple, 1, 2)[2] = b
        BY <1>2
  <2>2. \A i \in 1 .. 2 : SubSeq(triple, 1, 2)[i] = pair[i]
        BY <1>1, <2>1
  <2>3. SubSeq(triple, 1, 2) = pair
        BY <1>1, <2>1, <2>2, SeqEqual
  <2> QED BY <1>2, <2>3 DEF Sec!Front
<1> QED BY <1>4, <1>5

LEMMA Prefixes ==
  ASSUME NEW a, NEW b, NEW n
  PROVE  /\ \A c, d : Sec!IsPrefix(<<c, d>>, <<a, b, n>>) <=> a = c /\ b = d
         /\ \A c : Sec!IsPrefix(<<c>>, <<a, b, n>>) <=> a = c
<1> DEFINE S == {a, b, n}
           pair == <<a, b>>
           triple == <<a, b, n>>
<1>1. pair \in Seq(S) /\ Len(pair) = 2 /\ pair[1] = a /\ pair[2] = b
      OBVIOUS
<1>2. triple \in Seq(S) /\ Len(triple) = 3 /\ triple[1] = a /\ triple[2] = b /\ triple[3] = n
      OBVIOUS
<1>4. \A c, d : Sec!IsPrefix(<<c, d>>, triple) <=> a = c /\ b = d
  <2> TAKE c, d
  <2> DEFINE T == S \cup {c, d}
             first == <<c, d>>
  <2>1. first \in Seq(T) /\ Len(first) = 2 /\ first[1] = c /\ first[2] = d /\ triple \in Seq(T)
        BY <1>2
  <2> HIDE DEF T, first
  <2>2. SubSeq(first, 1, 2) \in Seq(T) /\ Len(SubSeq(first, 1, 2)) = 2
        /\ SubSeq(first, 1, 2)[1] = c /\ SubSeq(first, 1, 2)[2] = d
        BY <2>1, SubSeqFull
  <2>3. SubSeq(triple, 1, 2) \in Seq(T) /\ Len(SubSeq(triple, 1, 2)) = 2
        /\ SubSeq(triple, 1, 2)[1] = a /\ SubSeq(triple, 1, 2)[2] = b
        BY <1>2, <2>1
  <2>4. a = c /\ b = d => SubSeq(first, 1, 2) = SubSeq(triple, 1, 2)
    <3> HAVE a = c /\ b = d
    <3>1. \A i \in 1 .. 2 : SubSeq(first, 1, 2)[i] = SubSeq(triple, 1, 2)[i]
          BY <2>2, <2>3
    <3> HIDE DEF triple
    <3> QED BY <2>2, <2>3, <3>1, SeqEqual
  <2>5. Sec!IsPrefix(first, triple) <=> SubSeq(first, 1, 2) = SubSeq(triple, 1, 2)
        BY <1>2, <2>1 DEF Sec!IsPrefix
  <2>6. Sec!IsPrefix(first, triple) <=> a = c /\ b = d
        BY <2>2, <2>3, <2>4, <2>5
  <2> QED BY <2>6 DEF first
<1>5. \A c : Sec!IsPrefix(<<c>>, triple) <=> a = c
  <2> TAKE c
  <2> DEFINE T == S \cup {c}
             first == <<c>>
  <2>1. first \in Seq(T) /\ Len(first) = 1 /\ first[1] = c /\ triple \in Seq(T)
        BY <1>2
  <2> HIDE DEF T, first
  <2>2. SubSeq(first, 1, 1) \in Seq(T) /\ Len(SubSeq(first, 1, 1)) = 1 /\ SubSeq(first, 1, 1)[1] = c
        BY <2>1, SubSeqFull
  <2>3. SubSeq(triple, 1, 1) \in Seq(T) /\ Len(SubSeq(triple, 1, 1)) = 1 /\ SubSeq(triple, 1, 1)[1] = a
        BY <1>2, <2>1
  <2>4. a = c => SubSeq(first, 1, 1) = SubSeq(triple, 1, 1)
    <3> HAVE a = c
    <3>1. \A i \in 1 .. 1 : SubSeq(first, 1, 1)[i] = SubSeq(triple, 1, 1)[i]
          BY <2>2, <2>3
    <3> HIDE DEF triple
    <3> QED BY <2>2, <2>3, <3>1, SeqEqual
  <2>5. Sec!IsPrefix(first, triple) <=> SubSeq(first, 1, 1) = SubSeq(triple, 1, 1)
        BY <1>2, <2>1 DEF Sec!IsPrefix
  <2>6. Sec!IsPrefix(first, triple) <=> a = c
        BY <2>2, <2>3, <2>4, <2>5
  <2> QED BY <2>6 DEF first
<1> QED BY <1>4, <1>5

LEMMA EntryOfKind ==
  \A s \in Sec!Entries, t \in Sec!Entries : KindsOf(s) \cap KindsOf(t) # {} => s = t
<1> DEFINE Of == [PCI |-> "pci", USB |-> "usb", GPU |-> "gpu", INP |-> "input", PRN |-> "printers",
                  UDISKS |-> "storage", IDE |-> "storage", SCSI |-> "storage", MOD |-> "modules",
                  USER |-> "users", locale |-> "languages", FS |-> "filesystems", NET |-> "network"]
    Owner(type) == IF type = <<"DEV", "dt-soc-gpu">> THEN "gpu" ELSE IF type = <<"DEV", "n-DRM">>
                  THEN "monitors" ELSE Of[type[2]]
<1>1. \A s \in Sec!Entries : \A type \in KindsOf(s) : Owner(type) = s
      BY DEF Sec!Entries, KindsOf, Sec!Kinds
<1> HIDE DEF Owner
<1> QED BY <1>1

LEMMA PairsAre ==
  \A part \in DOMAIN Sec!Kinds : \A type \in Sec!Kinds[part] : type = <<type[1], type[2]>>
BY DEF Sec!Kinds

LEMMA RowsKeyed ==
  ASSUME NEW part \in DOMAIN Sec!Kinds, NEW seen, NEW k \in DOMAIN Sec!Rows(part, seen)
  PROVE  Keyed(k, Sec!Kinds[part])
<1>1. PICK type \in Sec!Kinds[part] : k \in DOMAIN Sec!Seen(type, seen[type])
      BY DEF Sec!Rows
<1>2. PICK n : k = Append(type, n)
      BY <1>1 DEF Sec!Seen
<1>3. PICK a, b : type = <<a, b>>
      BY PairsAre
<1>4. k = <<a, b, n>>
      BY <1>2, <1>3, Triples
<1> QED BY <1>3, <1>4 DEF Keyed

(* A scan of s that deletes what P covers and shows the rows R: no key of   *)
(* another entry's is covered, and all of its own are if it forgets.        *)
Scans(s, P, R) ==
  /\ \A k \in DOMAIN moreinfo : Sec!Covers(P, k) => Keyed(k, KindsOf(s))
  /\ s \in Sec!Forgetful /\ s \in listed =>
       \A k \in DOMAIN moreinfo : Keyed(k, KindsOf(s)) => Sec!Covers(P, k)
  /\ \A k \in DOMAIN R : Keyed(k, KindsOf(s))
  /\ moreinfo' = Sec!With(R, Sec!Without(P, moreinfo))
  /\ list' = [list EXCEPT ![s] = R]
  /\ s \notin listed' => DOMAIN R = {}
  /\ \A t \in SecScanned : t # s => (t \in listed' <=> t \in listed)

Icons(s, R) ==
  /\ DOMAIN icons' = SecScanned
  /\ \A t \in SecScanned : t # s => icons'[t] = icons[t]
  /\ s \in Sec!Forgetful => icons'[s] \ Sec!Freed \subseteq DOMAIN R
  /\ s \in {"users", "filesystems"} => icons'[s] = {}

LEMMA ScanKeeps ==
  ASSUME Tables, NEW s \in SecScanned, NEW P, NEW R, Scans(s, P, R), Icons(s, R)
  PROVE  Tables'
<1> USE ScannedAssumption
<1> DEFINE left == Sec!Without(P, moreinfo)
<1>1. /\ DOMAIN left = {k \in DOMAIN moreinfo : ~Sec!Covers(P, k)}
      /\ \A k \in DOMAIN left : left[k] = moreinfo[k]
      BY DEF Sec!Without
<1> HIDE DEF left
<1>2. /\ DOMAIN moreinfo' = DOMAIN R \cup DOMAIN left
      /\ \A k \in DOMAIN R : moreinfo'[k] = R[k]
      /\ \A k \in DOMAIN left : k \notin DOMAIN R => moreinfo'[k] = left[k]
      BY DEF Scans, Sec!With, left
<1>3. /\ DOMAIN list' = SecScanned /\ list'[s] = R
      /\ \A t \in SecScanned : t # s => list'[t] = list[t]
      BY DEF Scans, Tables
<1>4. \A t \in SecScanned : \A k : Keyed(k, KindsOf(t)) /\ Keyed(k, KindsOf(s)) => t = s
  <2> TAKE t \in SecScanned
  <2> TAKE k
  <2> HAVE Keyed(k, KindsOf(t)) /\ Keyed(k, KindsOf(s))
  <2>1. <<k[1], k[2]>> \in KindsOf(t) \cap KindsOf(s)
        BY DEF Keyed
  <2> QED BY <2>1, EntryOfKind
<1>5. \A k \in DOMAIN moreinfo' : \E t \in Sec!Entries : Keyed(k, KindsOf(t))
  <2> TAKE k \in DOMAIN moreinfo'
  <2>1. CASE k \in DOMAIN R
        BY <2>1 DEF Scans
  <2>2. CASE k \in DOMAIN moreinfo
        BY <2>2 DEF Tables
  <2> QED BY <1>1, <1>2, <2>1, <2>2
<1>6. \A t \in SecScanned : \A k \in DOMAIN list'[t] : Keyed(k, KindsOf(t))
      BY <1>3 DEF Tables, Scans
<1>7. ASSUME NEW t \in SecScanned, NEW k \in DOMAIN list'[t]
      PROVE  k \in DOMAIN moreinfo' /\ moreinfo'[k] = list'[t][k]
  <2>1. CASE t = s
        BY <1>2, <1>3, <1>7, <2>1
  <2>2. CASE t # s
    <3>1. k \in DOMAIN list[t] /\ Keyed(k, KindsOf(t)) /\ k \in DOMAIN moreinfo /\ moreinfo[k] = list[t][k]
          BY <1>3, <1>7, <2>2 DEF Tables
    <3>2. ~Keyed(k, KindsOf(s))
          BY <1>4, <2>2, <3>1
    <3>3. k \in DOMAIN left /\ k \notin DOMAIN R
          BY <1>1, <3>1, <3>2 DEF Scans
    <3> QED BY <1>1, <1>2, <1>3, <2>2, <3>1, <3>3
  <2> QED BY <2>1, <2>2
<1>8. \A t \in SecScanned : t \notin listed' => DOMAIN list'[t] = {}
      BY <1>3 DEF Tables, Scans
<1>9. ASSUME NEW t \in Sec!Forgetful, NEW k \in DOMAIN moreinfo', Keyed(k, KindsOf(t))
      PROVE  k \in DOMAIN list'[t]
  <2>0. t \in SecScanned
        BY DEF Sec!Forgetful
  <2>1. CASE t = s
    <3>1. CASE k \in DOMAIN R
          BY <1>3, <2>1, <3>1
    <3>2. CASE k \in DOMAIN left
      <4>1. k \in DOMAIN moreinfo /\ ~Sec!Covers(P, k)
            BY <1>1, <3>2
      <4>2. k \in DOMAIN list[t] /\ t \notin listed
            BY <1>9, <2>1, <4>1 DEF Scans, Tables
      <4> QED BY <2>0, <4>2 DEF Tables
    <3> QED BY <1>2, <3>1, <3>2
  <2>2. CASE t # s
    <3>1. k \notin DOMAIN R
          BY <1>4, <1>9, <2>0, <2>2 DEF Scans
    <3>2. k \in DOMAIN moreinfo
          BY <1>1, <1>2, <3>1
    <3> QED BY <1>3, <1>9, <2>0, <2>2, <3>2 DEF Tables
  <2> QED BY <2>1, <2>2
<1>10. \A t \in Sec!Forgetful : icons'[t] \ Sec!Freed \subseteq DOMAIN list'[t]
  <2> TAKE t \in Sec!Forgetful
  <2>1. t \in SecScanned
        BY DEF Sec!Forgetful
  <2> QED BY <1>3, <2>1 DEF Icons, Tables
<1>11. \A t \in SecScanned \cap {"users", "filesystems"} : icons'[t] = {}
       BY DEF Icons, Tables
<1>12. DOMAIN icons' = SecScanned
       BY DEF Icons
<1> QED BY <1>3, <1>5, <1>6, <1>7, <1>8, <1>9, <1>10, <1>11, <1>12 DEF Tables, Sec!Forgetful, Sec!Freed

(* What prefixes of two parts, or of one, cover.                            *)
LEMMA CoversPair ==
  ASSUME NEW a, NEW b, NEW k, NEW kinds, Keyed(k, kinds)
  PROVE  Sec!Covers({<<a, b>>}, k) <=> <<k[1], k[2]>> = <<a, b>>
<1>1. PICK x, y, z : k = <<x, y, z>>
      BY DEF Keyed
<1>2. Sec!IsPrefix(<<a, b>>, k) <=> k[1] = a /\ k[2] = b
  <2>1. Sec!IsPrefix(<<a, b>>, <<x, y, z>>) <=> x = a /\ y = b
        BY Prefixes
  <2>2. k[1] = x /\ k[2] = y
        BY <1>1
  <2> QED BY <1>1, <2>1, <2>2
<1> QED BY <1>2 DEF Sec!Covers

LEMMA CoversOne ==
  ASSUME NEW a, NEW k, NEW kinds, Keyed(k, kinds)
  PROVE  Sec!Covers({<<a>>}, k) <=> k[1] = a
<1>1. PICK x, y, z : k = <<x, y, z>>
      BY DEF Keyed
<1>2. Sec!IsPrefix(<<a>>, k) <=> k[1] = a
  <2>1. Sec!IsPrefix(<<a>>, <<x, y, z>>) <=> x = a
        BY Prefixes
  <2>2. k[1] = x /\ k[2] = y
        BY <1>1
  <2> QED BY <1>1, <2>1, <2>2
<1> QED BY <1>2 DEF Sec!Covers

LEMMA KindsCovered ==
  ASSUME Tables, NEW s \in SecScanned, NEW P \in SUBSET KindsOf(s)
  PROVE  \A k \in DOMAIN moreinfo : Sec!Covers(P, k) <=> Keyed(k, P)
<1>1. \A p \in P : p = <<p[1], p[2]>>
  <2>1. \A type \in KindsOf(s) : type = <<type[1], type[2]>>
        BY ScannedAssumption DEF KindsOf, Sec!Kinds, Sec!Entries
  <2> QED BY <2>1
<1> TAKE k \in DOMAIN moreinfo
<1>3. k = <<k[1], k[2], k[3]>>
      BY DEF Tables, Keyed
<1>4. PICK t \in Sec!Entries : Keyed(k, KindsOf(t))
      BY DEF Tables
<1>5. ASSUME Sec!Covers(P, k) PROVE Keyed(k, P)
  <2>1. PICK p \in P : Sec!IsPrefix(p, k)
        BY <1>5 DEF Sec!Covers
  <2>2. PICK a, b : p = <<a, b>>
        BY <1>1
  <2>3. Sec!Covers({<<a, b>>}, k)
        BY <2>1, <2>2 DEF Sec!Covers
  <2>4. <<k[1], k[2]>> = <<a, b>>
        BY <1>4, <2>3, CoversPair
  <2> QED BY <1>3, <2>2, <2>4 DEF Keyed
<1>6. ASSUME Keyed(k, P) PROVE Sec!Covers(P, k)
  <2>1. <<k[1], k[2]>> \in P
        BY <1>6 DEF Keyed
  <2> DEFINE a == k[1]
             b == k[2]
  <2>a. <<k[1], k[2]>> = <<a, b>>
        OBVIOUS
  <2> HIDE DEF a, b
  <2>b. Sec!Covers({<<a, b>>}, k) <=> <<k[1], k[2]>> = <<a, b>>
        BY ONLY <1>4, CoversPair, Zenon
  <2>2. Sec!Covers({<<k[1], k[2]>>}, k)
        BY <2>a, <2>b
  <2> QED BY <2>1, <2>2 DEF Sec!Covers
<1> QED BY <1>5, <1>6

LEMMA ScansKinds ==
  ASSUME Tables, NEW s \in SecScanned, NEW P, NEW R,
         P \subseteq KindsOf(s), s \in Sec!Forgetful /\ s \in listed => P = KindsOf(s),
         \A k \in DOMAIN R : Keyed(k, KindsOf(s)), Sec!Shown(s, P, R)
  PROVE  Scans(s, P, R)
<1>1. \A k \in DOMAIN moreinfo : Sec!Covers(P, k) <=> Keyed(k, P)
      BY KindsCovered
<1>2. \A k \in DOMAIN moreinfo : Keyed(k, P) => Keyed(k, KindsOf(s))
      BY DEF Keyed
<1>3. s \in listed' /\ \A t \in SecScanned : t # s => (t \in listed' <=> t \in listed)
      BY DEF Sec!Shown
<1> QED BY <1>1, <1>2, <1>3 DEF Scans, Sec!Shown

LEMMA IconsNew ==
  ASSUME Tables, NEW s \in SecScanned, NEW R, Sec!NewIcons(s, R), s \notin {"users", "filesystems"}
  PROVE  Icons(s, R)
BY DEF Tables, Icons, Sec!NewIcons

LEMMA IconsOld ==
  ASSUME Tables, NEW s \in SecScanned, NEW R, Sec!NoIcons, s \notin Sec!Forgetful
                \/ s \in {"users", "filesystems"}
  PROVE  Icons(s, R)
BY DEF Tables, Icons, Sec!NoIcons

(* The entries whose keys are of one kind, which a scan either deletes all  *)
(* of, once there was a list, or keeps.                                     *)
LEMMA OneKind ==
  /\ KindsOf("pci") = Sec!Kinds["pci"] /\ Sec!Kinds["pci"] = Sec!PciDeletes
  /\ KindsOf("usb") = Sec!Kinds["usb"] /\ Sec!Kinds["usb"] = Sec!UsbDeletes
  /\ KindsOf("input") = Sec!Kinds["input"] /\ Sec!Kinds["input"] = Sec!InputDeletes
  /\ KindsOf("printers") = Sec!Kinds["printers"] /\ Sec!Kinds["printers"] = Sec!PrinterDeletes
  /\ KindsOf("modules") = Sec!Kinds["modules"] /\ Sec!Kinds["modules"] = Sec!ModuleDeletes
  /\ KindsOf("users") = Sec!Kinds["users"] /\ Sec!Kinds["users"] = Sec!UserDeletes
  /\ KindsOf("filesystems") = Sec!Kinds["filesystems"] /\ Sec!Kinds["filesystems"] = Sec!FsDeletes
  /\ KindsOf("monitors") = Sec!Kinds["monitors"] /\ KindsOf("languages") = Sec!Kinds["languages"]
  /\ KindsOf("network") = Sec!Kinds["network"]
  /\ {"pci", "usb", "input", "printers", "modules", "users", "filesystems", "monitors", "languages", "network"}
       \subseteq DOMAIN Sec!Kinds
BY DEF KindsOf, Sec!Kinds, Sec!PciDeletes, Sec!UsbDeletes, Sec!InputDeletes, Sec!PrinterDeletes,
       Sec!ModuleDeletes, Sec!UserDeletes, Sec!FsDeletes

LEMMA OneKindScan ==
  ASSUME Tables, NEW s \in SecScanned, KindsOf(s) = Sec!Kinds[s], s \in DOMAIN Sec!Kinds, NEW f, NEW P,
         \/ P = KindsOf(s) \/ P = Sec!IfListed(s, KindsOf(s))
         \/ P = {} /\ s \notin Sec!Forgetful,
         Sec!Shown(s, P, Sec!Rows(s, f)), Icons(s, Sec!Rows(s, f))
  PROVE  Tables'
<1> DEFINE R == Sec!Rows(s, f)
<1>1. \A k \in DOMAIN R : Keyed(k, KindsOf(s))
      BY RowsKeyed
<1>2. P \subseteq KindsOf(s) /\ (s \in Sec!Forgetful /\ s \in listed => P = KindsOf(s))
      BY DEF Sec!IfListed
<1>3. Sec!Shown(s, P, R) /\ Icons(s, R)
      OBVIOUS
<1> HIDE DEF R
<1>4. Scans(s, P, R)
      BY <1>1, <1>2, <1>3, ScansKinds
<1> QED BY <1>3, <1>4, ScanKeeps

LEMMA TablesNext == ASSUME Tables, Sec!Next PROVE Tables'
<1>0. CASE Sec!InitCups
      BY <1>0 DEF Sec!InitCups, Tables
<1> SUFFICES ASSUME ~Sec!InitCups PROVE Tables'
      BY <1>0
<1>1. PICK s \in SecScanned : Sec!Scan(s)
      BY DEF Sec!Next
<1>2. ASSUME s = "pci", Sec!ScanPci PROVE Tables'
  <2>1. PICK f : /\ Sec!Shown("pci", Sec!IfListed("pci", Sec!PciDeletes), Sec!Rows("pci", f))
                 /\ Sec!NewIcons("pci", Sec!Rows("pci", f))
        BY <1>2 DEF Sec!ScanPci, Sec!PciRows
  <2>2. Icons("pci", Sec!Rows("pci", f))
        BY <1>2, <2>1, IconsNew
  <2> QED BY <1>2, <2>1, <2>2, OneKind, OneKindScan
<1>3. ASSUME s = "usb", Sec!ScanUsb PROVE Tables'
  <2>1. PICK f : /\ Sec!Shown("usb", Sec!IfListed("usb", Sec!UsbDeletes), Sec!Rows("usb", f))
                 /\ Sec!NewIcons("usb", Sec!Rows("usb", f))
        BY <1>3 DEF Sec!ScanUsb, Sec!UsbRows
  <2>2. Icons("usb", Sec!Rows("usb", f))
        BY <1>3, <2>1, IconsNew
  <2> QED BY <1>3, <2>1, <2>2, OneKind, OneKindScan
<1>4. ASSUME s = "gpu", Sec!ScanGpu PROVE Tables'
  <2>1. PICK f, own : /\ Sec!Shown("gpu", Sec!IfListed("gpu", Sec!GpuDeletes), Sec!With(Sec!GpuRows(f), Sec!SocGpuRows(own)))
                      /\ Sec!NoIcons
        BY <1>4 DEF Sec!ScanGpu
  <2> DEFINE R == Sec!With(Sec!GpuRows(f), Sec!SocGpuRows(own))
             P == Sec!IfListed("gpu", Sec!GpuDeletes)
  <2>2. \A k \in DOMAIN Sec!GpuRows(f) : Keyed(k, Sec!Kinds["gpu"])
        BY RowsKeyed DEF Sec!GpuRows, Sec!Kinds
  <2>3. \A k \in DOMAIN Sec!SocGpuRows(own) : Keyed(k, Sec!Kinds["soc_gpu"])
        BY RowsKeyed DEF Sec!SocGpuRows, Sec!Kinds
  <2>4. DOMAIN R = DOMAIN Sec!GpuRows(f) \cup DOMAIN Sec!SocGpuRows(own)
        BY DEF Sec!With
  <2>5. KindsOf("gpu") = Sec!Kinds["gpu"] \cup Sec!Kinds["soc_gpu"]
        BY DEF KindsOf
  <2>6. \A k \in DOMAIN R : Keyed(k, KindsOf("gpu"))
        BY <2>2, <2>3, <2>4, <2>5 DEF Keyed
  <2>7. P \subseteq KindsOf("gpu") /\ "gpu" \notin Sec!Forgetful
        BY <2>5 DEF Sec!IfListed, Sec!GpuDeletes, Sec!Kinds, Sec!Forgetful
  <2>8. Sec!Shown("gpu", P, R)
        BY <2>1
  <2> HIDE DEF R, P
  <2>9. Scans("gpu", P, R) /\ Icons("gpu", R)
        BY <1>4, <2>1, <2>6, <2>7, <2>8, ScansKinds, IconsOld
  <2> QED BY <1>4, <2>9, ScanKeeps
<1>5. ASSUME s = "input", Sec!ScanInput PROVE Tables'
  <2>1. PICK f : /\ Sec!Shown("input", Sec!IfListed("input", Sec!InputDeletes), Sec!Rows("input", f))
                 /\ Sec!NewIcons("input", Sec!Rows("input", f))
        BY <1>5 DEF Sec!ScanInput
  <2>2. Icons("input", Sec!Rows("input", f))
        BY <1>5, <2>1, IconsNew
  <2> QED BY <1>5, <2>1, <2>2, OneKind, OneKindScan
<1>6. ASSUME s = "printers", Sec!ScanPrinters PROVE Tables'
  <2>1. PICK f : /\ Sec!Shown("printers", Sec!PrinterDeletes, Sec!Rows("printers", f))
                 /\ \/ Sec!NewIcons("printers", Sec!Rows("printers", f))
                    \/ icons' = [icons EXCEPT !["printers"] = Sec!Freed]
        BY <1>6 DEF Sec!ScanPrinters
  <2>2. CASE Sec!NewIcons("printers", Sec!Rows("printers", f))
    <3>1. Icons("printers", Sec!Rows("printers", f))
          BY <1>6, <2>2, IconsNew
    <3> QED BY <1>6, <2>1, <3>1, OneKind, OneKindScan
  <2>3. CASE icons' = [icons EXCEPT !["printers"] = Sec!Freed]
    <3>1. Icons("printers", Sec!Rows("printers", f))
          BY <1>6, <2>3 DEF Icons, Tables
    <3> QED BY <1>6, <2>1, <3>1, OneKind, OneKindScan
  <2> QED BY <2>1, <2>2, <2>3
<1>7. ASSUME s = "monitors", Sec!ScanMonitors PROVE Tables'
  <2>1. PICK f : /\ Sec!Shown("monitors", {}, Sec!Rows("monitors", f))
                 /\ Sec!NewIcons("monitors", Sec!Rows("monitors", f))
        BY <1>7 DEF Sec!ScanMonitors
  <2>2. Icons("monitors", Sec!Rows("monitors", f)) /\ "monitors" \notin Sec!Forgetful
        BY <1>7, <2>1, IconsNew DEF Sec!Forgetful
  <2> QED BY <1>7, <2>1, <2>2, OneKind, OneKindScan
<1>8. ASSUME s = "storage", Sec!ScanStorage PROVE Tables'
  <2> DEFINE K == KindsOf("storage")
  <2>1. PICK u \in Sec!Founds("udisks"), i \in Sec!Founds("ide"), c \in Sec!Founds("scsi") :
          LET udisks == Sec!UdisksRows(u)
              drives == IF DOMAIN udisks # {} THEN udisks ELSE Sec!With(Sec!IdeRows(i), Sec!ScsiRows(c))
          IN /\ Sec!Shown("storage", IF DOMAIN udisks # {} THEN Sec!UdisksDeletes
                                     ELSE Sec!UdisksDeletes \cup Sec!DisksDelete, drives)
             /\ icons' = [icons EXCEPT !["storage"] = @ \cup DOMAIN drives]
        BY <1>8 DEF Sec!ScanStorage
  <2> DEFINE some == DOMAIN Sec!UdisksRows(u) # {}
             P == IF some THEN Sec!UdisksDeletes ELSE Sec!UdisksDeletes \cup Sec!DisksDelete
             R == IF some THEN Sec!UdisksRows(u) ELSE Sec!With(Sec!IdeRows(i), Sec!ScsiRows(c))
  <2>9. Sec!Shown("storage", P, R) /\ icons' = [icons EXCEPT !["storage"] = @ \cup DOMAIN R]
        BY <2>1
  <2>10. P \in {Sec!UdisksDeletes, Sec!UdisksDeletes \cup Sec!DisksDelete}
        OBVIOUS
  <2>4. R = Sec!Rows("udisks", u) \/ R = Sec!With(Sec!Rows("ide", i), Sec!Rows("scsi", c))
        BY DEF Sec!UdisksRows, Sec!IdeRows, Sec!ScsiRows
  <2> HIDE DEF some, P, R
  <2>2. K = Sec!Kinds["udisks"] \cup Sec!Kinds["ide"] \cup Sec!Kinds["scsi"]
        BY DEF KindsOf
  <2>3. P \subseteq K /\ "storage" \notin Sec!Forgetful
        BY <2>10, <2>2 DEF Sec!UdisksDeletes, Sec!DisksDelete, Sec!Kinds, Sec!Forgetful
  <2>5. /\ \A k \in DOMAIN Sec!Rows("udisks", u) : Keyed(k, Sec!Kinds["udisks"])
        /\ \A k \in DOMAIN Sec!Rows("ide", i) : Keyed(k, Sec!Kinds["ide"])
        /\ \A k \in DOMAIN Sec!Rows("scsi", c) : Keyed(k, Sec!Kinds["scsi"])
        BY RowsKeyed DEF Sec!Kinds
  <2>6. \A k \in DOMAIN R : Keyed(k, K)
    <3>1. CASE R = Sec!Rows("udisks", u)
          BY <2>2, <2>5, <3>1 DEF Keyed
    <3>2. CASE R = Sec!With(Sec!Rows("ide", i), Sec!Rows("scsi", c))
      <4>1. DOMAIN R = DOMAIN Sec!Rows("ide", i) \cup DOMAIN Sec!Rows("scsi", c)
            BY <3>2 DEF Sec!With
      <4> QED BY <2>2, <2>5, <4>1 DEF Keyed
    <3> QED BY <2>4, <3>1, <3>2
  <2>7. Icons("storage", R)
        BY <1>8, <2>9, <2>3 DEF Icons, Tables
  <2>8. Scans("storage", P, R)
        BY <1>8, <2>9, <2>3, <2>6, ScansKinds
  <2> QED BY <1>8, <2>7, <2>8, ScanKeeps
<1>9. ASSUME s = "modules", Sec!ScanModules PROVE Tables'
  <2>1. PICK f : /\ Sec!Shown("modules", Sec!ModuleDeletes, Sec!Rows("modules", f))
                 /\ Sec!NewIcons("modules", Sec!Rows("modules", f))
        BY <1>9 DEF Sec!ScanModules
  <2>2. Icons("modules", Sec!Rows("modules", f))
        BY <1>9, <2>1, IconsNew
  <2> QED BY <1>9, <2>1, <2>2, OneKind, OneKindScan
<1>10. ASSUME s = "users", Sec!ScanUsers PROVE Tables'
  <2>1. PICK f : /\ Sec!Shown("users", Sec!IfListed("users", Sec!UserDeletes), Sec!Rows("users", f))
                 /\ Sec!NoIcons
        BY <1>10 DEF Sec!ScanUsers
  <2>2. Icons("users", Sec!Rows("users", f))
        BY <1>10, <2>1, IconsOld
  <2> QED BY <1>10, <2>1, <2>2, OneKind, OneKindScan
<1>11. ASSUME s = "languages", Sec!ScanLanguages PROVE Tables'
  <2>1. PICK f : Sec!Shown("languages", {}, Sec!Rows("languages", f)) /\ Sec!NoIcons
        BY <1>11 DEF Sec!ScanLanguages
  <2>2. "languages" \notin Sec!Forgetful
        BY DEF Sec!Forgetful
  <2>3. Icons("languages", Sec!Rows("languages", f))
        BY <1>11, <2>1, <2>2, IconsOld
  <2> QED BY <1>11, <2>1, <2>2, <2>3, OneKind, OneKindScan
<1>12. ASSUME s = "filesystems", Sec!ScanFilesystems PROVE Tables'
  <2>1. PICK f : Sec!Shown("filesystems", Sec!FsDeletes, Sec!Rows("filesystems", f)) /\ Sec!NoIcons
        BY <1>12 DEF Sec!ScanFilesystems
  <2>2. Icons("filesystems", Sec!Rows("filesystems", f))
        BY <1>12, <2>1, IconsOld
  <2> QED BY <1>12, <2>1, <2>2, OneKind, OneKindScan
<1>13. ASSUME s = "network", Sec!ScanNetwork PROVE Tables'
  <2>1. PICK f : /\ Sec!Shown("network", Sec!NetDeletes, Sec!Rows("network", f))
                 /\ Sec!NewIcons("network", Sec!Rows("network", f))
        BY <1>13 DEF Sec!ScanNetwork
  <2> DEFINE R == Sec!Rows("network", f)
  <2>2. \A k \in DOMAIN R : Keyed(k, KindsOf("network"))
        BY OneKind, RowsKeyed
  <2>3. Sec!Shown("network", Sec!NetDeletes, R) /\ Sec!NewIcons("network", R)
        BY <2>1
  <2> HIDE DEF R
  <2>4. \A t \in Sec!Entries : \A type \in KindsOf(t) : type[1] = "NET" <=> type \in KindsOf("network")
        BY DEF Sec!Entries, KindsOf, Sec!Kinds
  <2>5. ASSUME NEW k \in DOMAIN moreinfo PROVE Sec!Covers(Sec!NetDeletes, k) <=> Keyed(k, KindsOf("network"))
    <3>1. PICK t \in Sec!Entries : Keyed(k, KindsOf(t))
          BY DEF Tables
    <3>2. Sec!Covers(Sec!NetDeletes, k) <=> k[1] = "NET"
          BY <3>1, CoversOne DEF Sec!NetDeletes
    <3>3. k = <<k[1], k[2], k[3]>> /\ <<k[1], k[2]>> \in KindsOf(t)
          BY <3>1 DEF Keyed
    <3>4. k[1] = "NET" <=> <<k[1], k[2]>> \in KindsOf("network")
          BY <2>4, <3>3
    <3> QED BY <3>2, <3>3, <3>4 DEF Keyed
  <2>6. Scans("network", Sec!NetDeletes, R)
        BY <2>2, <2>3, <2>5 DEF Scans, Sec!Shown
  <2>7. Icons("network", R)
        BY <1>13, <2>3, IconsNew
  <2> QED BY <1>13, <2>6, <2>7, ScanKeeps
<1>14. ASSUME Sec!ScanNothing(s) PROVE Tables'
  <2> DEFINE R == Sec!Nothing
  <2>0. DOMAIN R = {}
        BY DEF Sec!Nothing
  <2>1. CASE s = "input" /\ UNCHANGED <<moreinfo, list, listed, icons>>
        BY <2>1 DEF Tables
  <2>2. CASE /\ s = "modules"
             /\ moreinfo' = Sec!Without(Sec!ModuleDeletes, moreinfo)
             /\ list' = [list EXCEPT ![s] = Sec!Nothing] /\ listed' = listed \ {s}
             /\ icons' = [icons EXCEPT ![s] = {}]
    <3> DEFINE left == Sec!Without(Sec!ModuleDeletes, moreinfo)
    <3>1. left = [k \in DOMAIN left |-> left[k]]
          BY DEF Sec!Without
    <3>2. Sec!With(R, left) = left
      <4> HIDE DEF left, R
      <4> QED BY <2>0, <3>1 DEF Sec!With
    <3>4. Scans(s, Sec!ModuleDeletes, R)
      <4>1. \A k \in DOMAIN moreinfo : Sec!Covers(Sec!ModuleDeletes, k) <=> Keyed(k, KindsOf(s))
            BY <2>2, OneKind, KindsCovered
      <4> QED BY <2>0, <2>2, <3>2, <4>1 DEF Scans
    <3>5. Icons(s, R)
          BY <2>2 DEF Icons, Tables
    <3> QED BY <3>4, <3>5, ScanKeeps
  <2>3. CASE s = "filesystems" /\ Sec!Shown(s, Sec!FsDeletes, Sec!Nothing) /\ Sec!NoIcons
    <3>1. Icons(s, R)
          BY <2>3, IconsOld
    <3>2. \A k \in DOMAIN R : Keyed(k, KindsOf(s))
          BY <2>0
    <3>3. Sec!FsDeletes = KindsOf(s)
          BY <2>3, OneKind
    <3>4. Sec!Shown(s, Sec!FsDeletes, R)
          BY <2>3
    <3> HIDE DEF R
    <3>5. Scans(s, Sec!FsDeletes, R)
          BY <3>2, <3>3, <3>4, ScansKinds
    <3> QED BY <3>1, <3>5, ScanKeeps
  <2> QED BY <1>14, <2>1, <2>2, <2>3 DEF Sec!ScanNothing
<1> QED BY <1>1, <1>2, <1>3, <1>4, <1>5, <1>6, <1>7, <1>8, <1>9, <1>10, <1>11, <1>12, <1>13, <1>14 DEF Sec!Scan

LEMMA TablesInit == ASSUME Sec!Init PROVE Tables
<1>1. \A s \in SecScanned : DOMAIN list[s] = {} /\ icons[s] = {}
      BY DEF Sec!Init, Sec!Nothing
<1>2. DOMAIN moreinfo = {} /\ DOMAIN list = SecScanned /\ DOMAIN icons = SecScanned
      BY DEF Sec!Init, Sec!Nothing
<1> QED BY <1>1, <1>2 DEF Tables, Sec!Forgetful

LEMMA TablesFacts == ASSUME Tables PROVE Sec!RowsHaveTheirDetails
<1>1. \A s \in Sec!Forgetful : Sec!Kinds[s] = KindsOf(s)
      BY ScannedAssumption DEF Sec!Forgetful, Sec!Entries, KindsOf
<1>2. ASSUME NEW s \in Sec!Forgetful PROVE Sec!KeysOf(s) \subseteq Sec!Rowed(s)
  <2>1. ASSUME NEW k \in DOMAIN moreinfo, Sec!Front(k) \in Sec!Kinds[s] PROVE k \in DOMAIN list[s]
    <3>1. k = <<k[1], k[2], k[3]>>
          BY DEF Tables, Keyed
    <3>2. Sec!Front(k) = <<k[1], k[2]>>
          BY <3>1, Triples
    <3>3. Keyed(k, KindsOf(s))
          BY <1>1, <2>1, <3>1, <3>2 DEF Keyed
    <3> QED BY <3>3 DEF Tables
  <2>2. icons[s] \ Sec!Freed \subseteq DOMAIN list[s]
        BY DEF Tables
  <2> QED BY <2>1, <2>2 DEF Sec!KeysOf, Sec!Rowed
<1>3. \A s \in SecScanned : \A k \in Sec!Rowed(s) : k \in DOMAIN moreinfo /\ moreinfo[k] = list[s][k]
      BY DEF Tables, Sec!Rowed
<1> QED BY <1>2, <1>3 DEF Sec!RowsHaveTheirDetails

(* Whatever devices come and go, and in whatever order the entries are       *)
(* scanned, a row's details are those of its own last scan, and an entry     *)
(* that forgets keeps none but its rows': for any devices and any number of  *)
(* scans.                                                                    *)
THEOREM DetailsFollowRows == ProgramSpec => []RowsHaveTheirDetails
<1> DEFINE I == live = "sections" => Tables
<1>1. ProgramInit => I
      BY TablesInit DEF ProgramInit, Own
<1>2. I /\ [ProgramNext]_its => I'
  <2>1. ASSUME I, ProgramNext, live = "sections" PROVE Tables'
        BY <2>1, TablesNext DEF ProgramNext, Own
  <2>2. ASSUME Tables, UNCHANGED its PROVE Tables'
        BY <2>2 DEF its, Sec!vars, Tables
  <2> QED BY <2>1, <2>2, LiveStays DEF its
<1>3. I => RowsHaveTheirDetails
      BY TablesFacts DEF RowsHaveTheirDetails
<1> HIDE DEF I
<1> QED BY <1>1, <1>2, <1>3, PTL DEF ProgramSpec

-----------------------------------------------------------------------------
(* Sorting by numbers. *)
LEMMA SameCardinality ==
  /\ \A S : Start!Cardinality(S) = Cardinality(S)
  /\ \A S : Bench!Cardinality(S) = Cardinality(S)
  /\ \A S : Rep!Cardinality(S) = Cardinality(S)
BY DEF Start!Cardinality, Bench!Cardinality, Rep!Cardinality, Cardinality

LEMMA UpTo == ASSUME NEW n \in Nat PROVE IsFiniteSet(1 .. n) /\ Cardinality(1 .. n) = n
BY FS_Interval

(* A number for each of n places: the ranks of the places are a bijection,  *)
(* and in its order the numbers do not fall.                                *)
LEMMA Ranking ==
  ASSUME NEW n \in Nat, NEW w \in [1 .. n -> Int], NEW R,
         \/ \A i \in 1 .. n : R[i] = Cardinality({j \in 1 .. n : w[j] < w[i] \/ (w[j] = w[i] /\ j < i)}) + 1
         \/ \A i \in 1 .. n : R[i] = Cardinality({j \in 1 .. n : w[j] < w[i] \/ (w[j] = w[i] /\ j <= i)})
  PROVE  /\ \A i \in 1 .. n : R[i] \in 1 .. n
         /\ \A k \in 1 .. n : \E i \in 1 .. n : R[i] = k
         /\ \A i, j \in 1 .. n : R[i] = R[j] => i = j
         /\ \A i, j \in 1 .. n : R[i] <= R[j] => w[i] <= w[j]
<1> DEFINE D == 1 .. n
           Before(i, j) == w[i] < w[j] \/ (w[i] = w[j] /\ i < j)
           Under(i) == {j \in D : Before(j, i)}
           r == [i \in D |-> Cardinality(Under(i)) + 1]
<1>2. IsFiniteSet(D) /\ Cardinality(D) = n
      BY FS_Interval
<1>3. \A i \in D : w[i] \in Int
      OBVIOUS
<1>4. \A i \in D : Under(i) \subseteq D \ {i} /\ IsFiniteSet(Under(i))
                  /\ Cardinality(Under(i)) \in Nat /\ Cardinality(Under(i)) <= n - 1
  <2> TAKE i \in D
  <2>1. Under(i) \in SUBSET (D \ {i})
        BY <1>3
  <2>2. IsFiniteSet(D \ {i}) /\ Cardinality(D \ {i}) = n - 1
        BY <1>2, FS_RemoveElement
  <2>3. IsFiniteSet(Under(i)) /\ Cardinality(Under(i)) <= n - 1
        BY ONLY <2>1, <2>2, FS_Subset
  <2>4. Cardinality(Under(i)) \in Nat
        BY ONLY <2>3, FS_CardinalityType
  <2> QED BY <2>1, <2>3, <2>4
<1>0. \A i \in D : R[i] = Cardinality(Under(i)) + 1
  <2> TAKE i \in D
  <2>1. CASE \A k \in 1 .. n : R[k] = Cardinality({j \in 1 .. n : w[j] < w[k] \/ (w[j] = w[k] /\ j < k)}) + 1
        BY <2>1
  <2>2. CASE \A k \in 1 .. n : R[k] = Cardinality({j \in 1 .. n : w[j] < w[k] \/ (w[j] = w[k] /\ j <= k)})
    <3> DEFINE U == Under(i)
    <3>1. {j \in 1 .. n : w[j] < w[i] \/ (w[j] = w[i] /\ j <= i)} = U \cup {i}
          BY <1>3
    <3>2. IsFiniteSet(U) /\ i \notin U
          BY <1>4
    <3>3. Cardinality(U \cup {i}) = Cardinality(U) + 1
      <4> HIDE DEF U
      <4> QED BY <3>2, FS_AddElement
    <3> QED BY <2>2, <3>1, <3>3
  <2> QED BY <2>1, <2>2
<1> HIDE DEF Under
<1>5. \A i, j \in D : Before(i, j) => Cardinality(Under(i)) < Cardinality(Under(j))
  <2> TAKE i, j \in D
  <2> HAVE Before(i, j)
  <2>1. Under(i) \cup {i} \in SUBSET Under(j) /\ i \notin Under(i)
        BY <1>3 DEF Under
  <2>2. IsFiniteSet(Under(i) \cup {i}) /\ Cardinality(Under(i) \cup {i}) = Cardinality(Under(i)) + 1
        BY <1>4, <2>1, FS_AddElement
  <2>3. Cardinality(Under(i) \cup {i}) <= Cardinality(Under(j))
        BY <1>4, <2>1, FS_Subset
  <2>4. Cardinality(Under(i)) \in Int /\ Cardinality(Under(j)) \in Int
        BY <1>4
  <2> QED BY <2>2, <2>3, <2>4
<1>a. \A i \in D : r[i] = Cardinality(Under(i)) + 1
      OBVIOUS
<1>b. \A i \in D : Cardinality(Under(i)) + 1 \in D
      BY <1>4
<1>6. r \in [D -> D] /\ \A i \in D : r[i] = R[i]
      BY <1>0, <1>b
<1> HIDE DEF r
<1>7. \A i, j \in D : Before(i, j) => r[i] < r[j]
  <2> TAKE i, j \in D
  <2> HAVE Before(i, j)
  <2>1. Cardinality(Under(i)) < Cardinality(Under(j)) /\ Cardinality(Under(i)) \in Int
                /\ Cardinality(Under(j)) \in Int
        BY <1>4, <1>5
  <2> QED BY <1>a, <2>1
<1>8. \A i, j \in D : r[i] = r[j] => i = j
  <2>1. \A i, j \in D : i # j => Before(i, j) \/ Before(j, i)
        BY <1>3
  <2>2. \A i \in D : r[i] \in Int
        BY <1>6
  <2> QED BY <1>7, <2>1, <2>2
<1>9. r \in Injection(D, D)
      BY <1>6, <1>8 DEF Injection, IsInjective
<1>10. r \in Surjection(D, D)
       BY <1>2, <1>9, FS_Injection
<1>11. \A k \in D : \E i \in D : R[i] = k
       BY <1>6, <1>10 DEF Surjection
<1>12. \A i, j \in D : R[i] <= R[j] => w[i] <= w[j]
  <2> TAKE i, j \in D
  <2>1. R[i] \in Int /\ R[j] \in Int /\ (R[i] <= R[j] => ~Before(j, i))
    <3>1. R[i] = r[i] /\ R[j] = r[j] /\ r[i] \in D /\ r[j] \in D
          BY <1>6
    <3>2. Before(j, i) => r[j] < r[i]
          BY <1>7
    <3> HIDE DEF Before
    <3> QED BY <3>1, <3>2
  <2>2. w[i] \in Int /\ w[j] \in Int
        BY <1>3
  <2> QED BY <2>1, <2>2
<1> QED BY <1>6, <1>8, <1>11, <1>12

-----------------------------------------------------------------------------
(* The modules: the list has those that are wanted and not to be read yet,  *)
(* and none that could be done without, each once; with each check that     *)
(* calls itself it has grown by one.  First, a list in which no module is   *)
(* twice, and what sorting one gives: the ranks of its places are a         *)
(* bijection.                                                               *)
Different(mods) == \A i, j \in 1 .. Len(mods) : mods[i] = mods[j] => i = j
InOrder(mods) == \A i, j \in 1 .. Len(mods) : i < j => ModWeight[mods[i]] <= ModWeight[mods[j]]

LEMMA Lengths ==
  ASSUME NEW mods \in Seq(DOMAIN ModDeps), Different(mods)
  PROVE  Cardinality(Start!ToSet(mods)) = Len(mods) /\ Len(mods) <= Cardinality(DOMAIN ModDeps)
<1> DEFINE D == 1 .. Len(mods)
<1>1. D = DOMAIN mods /\ Len(mods) \in Nat /\ mods \in [D -> DOMAIN ModDeps]
      OBVIOUS
<1>2. IsFiniteSet(D) /\ Cardinality(D) = Len(mods)
      BY <1>1, UpTo
<1>3. Start!ToSet(mods) = {mods[i] : i \in D}
      BY <1>1 DEF Start!ToSet
<1>4. mods \in Bijection(D, Start!ToSet(mods))
      BY <1>1, <1>3 DEF Different, Bijection, Injection, Surjection, IsInjective
<1>5. Cardinality(Start!ToSet(mods)) = Len(mods)
      BY <1>2, <1>4, FS_Bijection DEF ExistsBijection
<1>6. Start!ToSet(mods) \in SUBSET DOMAIN ModDeps
      BY <1>1, <1>3
<1>7. Len(mods) <= Cardinality(DOMAIN ModDeps)
      BY <1>5, <1>6, FS_Subset, ModulesAssumption
<1> QED BY <1>5, <1>7

LEMMA Ranks ==
  ASSUME NEW mods \in Seq(DOMAIN ModDeps)
  PROVE  \E r \in [1 .. Len(mods) -> 1 .. Len(mods)] :
           /\ \A i \in 1 .. Len(mods) : r[i] = Start!Rank(mods, i)
           /\ \A n \in 1 .. Len(mods) : \E i \in 1 .. Len(mods) : r[i] = n
           /\ \A i, j \in 1 .. Len(mods) : r[i] = r[j] => i = j
           /\ \A i, j \in 1 .. Len(mods) : r[i] <= r[j] => ModWeight[mods[i]] <= ModWeight[mods[j]]
<1> DEFINE n == Len(mods)
           w == [i \in 1 .. n |-> ModWeight[mods[i]]]
           r == [i \in 1 .. n |-> Start!Rank(mods, i)]
<1>1. n \in Nat /\ DOMAIN mods = 1 .. n /\ w \in [1 .. n -> Int]
  <2>1. n \in Nat /\ DOMAIN mods = 1 .. n /\ \A i \in 1 .. n : mods[i] \in DOMAIN ModDeps
        OBVIOUS
  <2>2. \A i \in 1 .. n : ModWeight[mods[i]] \in Int
        BY <2>1, ModulesAssumption
  <2> HIDE DEF n
  <2> QED BY <2>1, <2>2
<1>2. \A i \in 1 .. n : r[i] = Cardinality({j \in 1 .. n : w[j] < w[i] \/ (w[j] = w[i] /\ j < i)}) + 1
  <2> TAKE i \in 1 .. n
  <2>1. {j \in DOMAIN mods : Start!Before(mods, j, i)} = {j \in 1 .. n : w[j] < w[i] \/ (w[j] = w[i] /\ j < i)}
        BY <1>1 DEF Start!Before
  <2>2. Start!Rank(mods, i) = Cardinality({j \in DOMAIN mods : Start!Before(mods, j, i)}) + 1
        BY SameCardinality DEF Start!Rank
  <2>3. r[i] = Start!Rank(mods, i)
        OBVIOUS
  <2> HIDE DEF r, w
  <2> QED BY <2>1, <2>2, <2>3
<1>3. \A i \in 1 .. n : w[i] = ModWeight[mods[i]] /\ r[i] = Start!Rank(mods, i)
      OBVIOUS
<1>4. r = [i \in 1 .. n |-> r[i]]
      OBVIOUS
<1> HIDE DEF n, w, r
<1>5. /\ \A i \in 1 .. n : r[i] \in 1 .. n
      /\ \A k \in 1 .. n : \E i \in 1 .. n : r[i] = k
      /\ \A i, j \in 1 .. n : r[i] = r[j] => i = j
      /\ \A i, j \in 1 .. n : r[i] <= r[j] => w[i] <= w[j]
      BY <1>1, <1>2, Ranking
<1>6. r \in [1 .. n -> 1 .. n]
      BY <1>4, <1>5
<1>7. \A i, j \in 1 .. n : r[i] <= r[j] => ModWeight[mods[i]] <= ModWeight[mods[j]]
      BY <1>3, <1>5
<1> QED BY <1>3, <1>5, <1>6, <1>7 DEF n

LEMMA SortedFacts ==
  ASSUME NEW mods \in Seq(DOMAIN ModDeps), Different(mods)
  PROVE  /\ Start!Sorted(mods) \in Seq(DOMAIN ModDeps) /\ Different(Start!Sorted(mods))
         /\ Start!ToSet(Start!Sorted(mods)) = Start!ToSet(mods) /\ InOrder(Start!Sorted(mods))
<1> DEFINE D == 1 .. Len(mods)
           s == Start!Sorted(mods)
           At(n) == CHOOSE i \in D : Start!Rank(mods, i) = n
<1>1. D = DOMAIN mods /\ Len(mods) \in Nat /\ mods \in [D -> DOMAIN ModDeps]
      OBVIOUS
<1>2. PICK r \in [D -> D] :
        /\ \A i \in D : r[i] = Start!Rank(mods, i)
        /\ \A n \in D : \E i \in D : r[i] = n
        /\ \A i, j \in D : r[i] = r[j] => i = j
        /\ \A i, j \in D : r[i] <= r[j] => ModWeight[mods[i]] <= ModWeight[mods[j]]
      BY Ranks
<1>3. r \in [D -> D] /\ (\A i, j \in D : r[i] = r[j] => i = j) /\ \A n \in D : \E i \in D : r[i] = n
      BY <1>2
<1>4. \A n \in D : At(n) \in D /\ Start!Rank(mods, At(n)) = n
  <2> TAKE n \in D
  <2>1. \E i \in D : Start!Rank(mods, i) = n
        BY <1>2, <1>3
  <2> HIDE DEF D
  <2> QED BY <2>1
<1>5. s = [n \in D |-> mods[At(n)]]
      BY <1>1 DEF Start!Sorted
<1> HIDE DEF At, s
<1>6. \A n \in D : r[At(n)] = n
      BY <1>2, <1>4
<1>7. \A i \in D : At(r[i]) = i
      BY <1>3, <1>4, <1>6
<1>8. s \in [D -> DOMAIN ModDeps] /\ s \in Seq(DOMAIN ModDeps) /\ Len(s) = Len(mods) /\ DOMAIN s = D
  <2>1. \A n \in D : mods[At(n)] \in DOMAIN ModDeps
        BY <1>1, <1>4
  <2>2. s \in [D -> DOMAIN ModDeps]
    <3> HIDE DEF D
    <3> QED BY <1>5, <2>1
  <2>3. s \in [1 .. Len(mods) -> DOMAIN ModDeps] /\ Len(mods) \in Nat
        BY <1>1, <2>2
  <2> QED BY ONLY <2>2, <2>3
<1>9. Different(s)
  <2> SUFFICES ASSUME NEW i \in D, NEW j \in D, s[i] = s[j] PROVE i = j
        BY <1>8 DEF Different
  <2>1. mods[At(i)] = mods[At(j)]
        BY <1>5
  <2>2. At(i) = At(j)
        BY <1>4, <2>1 DEF Different
  <2> QED BY <1>6, <2>2
<1>10. Start!ToSet(s) = Start!ToSet(mods)
  <2>1. \A n \in D : s[n] \in Start!ToSet(mods)
        BY <1>1, <1>4, <1>5 DEF Start!ToSet
  <2>2. \A i \in D : mods[i] = s[r[i]] /\ r[i] \in D
        BY <1>3, <1>5, <1>7
  <2> QED BY <1>1, <1>8, <2>1, <2>2 DEF Start!ToSet
<1>11. InOrder(s)
  <2> SUFFICES ASSUME NEW i \in D, NEW j \in D, i < j PROVE ModWeight[s[i]] <= ModWeight[s[j]]
        BY <1>8 DEF InOrder
  <2>1. At(i) \in D /\ At(j) \in D /\ r[At(i)] <= r[At(j)]
        BY <1>1, <1>4, <1>6
  <2>2. ModWeight[mods[At(i)]] <= ModWeight[mods[At(j)]]
        BY <1>2, <2>1
  <2> QED BY <1>5, <2>2
<1> QED BY <1>8, <1>9, <1>10, <1>11 DEF s

-----------------------------------------------------------------------------
Wanted == {f \in DOMAIN ModDeps : Start!Asked(f) /\ Start!Loadable(f)}
AllLoadable == \A f \in DOMAIN ModDeps : \A d \in Start!ToSet(ModDeps[f]) : Start!Loadable(d)
Needed(names) == \A rest \in SUBSET DOMAIN ModDeps : Wanted \subseteq rest
                 /\ Start!Closed(rest) => names \subseteq rest

Loaded ==
  /\ modules \in Seq(DOMAIN ModDeps) /\ Different(modules)
  /\ depth \in Nat /\ unread \subseteq DOMAIN ModDeps
  /\ pc \in {"ui", "load", "check", "overflow", "g_error", "run", "benchmark", "window", "report", "end"}
  /\ Wanted \ unread \subseteq Start!ToSet(modules) /\ Needed(Start!ToSet(modules))
  /\ pc \in {"ui", "load"} => unread \cap Start!ToSet(modules) = {} /\ depth = 0
  /\ pc \notin {"ui", "load"} => unread = {}
  /\ AllLoadable /\ depth > 0 => depth < Len(modules)
  /\ pc \in {"run", "benchmark", "window", "report"} => Start!Closed(Start!ToSet(modules)) /\ InOrder(modules)

LEMMA LoadedInit == ASSUME Start!Init PROVE Loaded
<1>1. modules = <<>> /\ depth = 0 /\ unread = DOMAIN ModDeps /\ pc \in {"ui", "load"}
      BY DEF Start!Init
<1>2. Start!ToSet(modules) = {}
      BY <1>1 DEF Start!ToSet
<1>3. modules \in Seq(DOMAIN ModDeps) /\ Len(modules) = 0
      BY <1>1
<1> QED BY <1>1, <1>2, <1>3 DEF Loaded, Different, Needed, Wanted

(* What is in a list with one module more. *)
LEMMA OneMore ==
  ASSUME NEW mods \in Seq(DOMAIN ModDeps), Different(mods), NEW f \in DOMAIN ModDeps,
         f \notin Start!ToSet(mods),
         NEW longer \in {<<f>> \o mods, Append(mods, f)}
  PROVE  /\ longer \in Seq(DOMAIN ModDeps) /\ Different(longer) /\ Len(longer) = Len(mods) + 1
         /\ Start!ToSet(longer) = Start!ToSet(mods) \cup {f}
<1>1. Len(mods) \in Nat /\ DOMAIN mods = 1 .. Len(mods)
      OBVIOUS
<1>2. \A i \in 1 .. Len(mods) : mods[i] \in DOMAIN ModDeps /\ mods[i] # f
      BY <1>1 DEF Start!ToSet
<1>3. CASE longer = <<f>> \o mods
  <2>1. longer \in Seq(DOMAIN ModDeps) /\ Len(longer) = Len(mods) + 1 /\ longer[1] = f
        BY <1>3
  <2>2. \A i \in 1 .. Len(mods) : longer[i + 1] = mods[i]
        BY <1>3
  <2>3. \A i \in 1 .. Len(longer) : i # 1 => i - 1 \in 1 .. Len(mods) /\ longer[i] = mods[i - 1]
        BY <1>1, <2>1, <2>2
  <2>4. Different(longer)
    <3> SUFFICES ASSUME NEW i \in 1 .. Len(longer), NEW j \in 1 .. Len(longer), longer[i] = longer[j]
      PROVE i = j
          BY DEF Different
    <3>1. CASE i = 1 \/ j = 1
          BY <1>2, <2>1, <2>3, <3>1
    <3>2. CASE i # 1 /\ j # 1
      <4>1. i - 1 \in 1 .. Len(mods) /\ j - 1 \in 1 .. Len(mods) /\ mods[i - 1] = mods[j - 1]
            BY <2>3, <3>2
      <4>2. i - 1 = j - 1
            BY <4>1 DEF Different
      <4> QED BY <1>1, <2>1, <4>2
    <3> QED BY <3>1, <3>2
  <2>5. DOMAIN longer = 1 .. Len(mods) + 1
        BY <2>1
  <2>6. \A i \in 1 .. Len(mods) : mods[i] \in Start!ToSet(longer)
        BY <1>1, <2>2, <2>5 DEF Start!ToSet
  <2>7. f \in Start!ToSet(longer)
        BY <1>1, <2>1, <2>5 DEF Start!ToSet
  <2>8. \A i \in 1 .. Len(longer) : longer[i] \in Start!ToSet(mods) \cup {f}
        BY <1>1, <2>1, <2>3 DEF Start!ToSet
  <2> QED BY <1>1, <2>1, <2>4, <2>5, <2>6, <2>7, <2>8 DEF Start!ToSet
<1>4. CASE longer = Append(mods, f)
  <2>1. longer \in Seq(DOMAIN ModDeps) /\ Len(longer) = Len(mods) + 1 /\ longer[Len(mods) + 1] = f
        BY <1>1, <1>4
  <2>2. \A i \in 1 .. Len(mods) : longer[i] = mods[i]
        BY <1>1, <1>4
  <2>4. Different(longer)
        BY <1>1, <1>2, <2>1, <2>2 DEF Different
  <2>5. DOMAIN longer = 1 .. Len(mods) + 1
        BY <2>1
  <2>6. \A i \in 1 .. Len(mods) : mods[i] \in Start!ToSet(longer)
        BY <1>1, <2>2, <2>5 DEF Start!ToSet
  <2>7. f \in Start!ToSet(longer)
        BY <1>1, <2>1, <2>5 DEF Start!ToSet
  <2>8. ASSUME NEW i \in 1 .. Len(longer) PROVE longer[i] \in Start!ToSet(mods) \cup {f}
    <3>1. CASE i = Len(mods) + 1
          BY <2>1, <3>1
    <3>2. CASE i # Len(mods) + 1
      <4>1. i \in 1 .. Len(mods)
            BY <1>1, <2>1, <3>2
      <4>2. i \in DOMAIN mods /\ longer[i] = mods[i]
            BY <1>1, <2>2, <4>1
      <4> QED BY <4>2 DEF Start!ToSet
    <3> QED BY <3>1, <3>2
  <2> QED BY <1>1, <2>1, <2>4, <2>5, <2>6, <2>7, <2>8 DEF Start!ToSet
<1> QED BY <1>3, <1>4

(* The first dependency that is missing is one of a module in the list. *)
LEMMA IsMissing ==
  ASSUME modules \in Seq(DOMAIN ModDeps), Start!Missing # {}
  PROVE  /\ Start!Dependency \notin Start!ToSet(modules)
         /\ \E f \in Start!ToSet(modules) : Start!Dependency \in Start!ToSet(ModDeps[f])
<1>1. \A m \in Start!Missing : m[1] \in Nat /\ m[2] \in Nat
  <2> TAKE m \in Start!Missing
  <2>1. m[1] \in DOMAIN modules /\ modules[m[1]] \in DOMAIN ModDeps /\ m[2] \in DOMAIN ModDeps[modules[m[1]]]
    <3>1. m[1] \in DOMAIN modules /\ m[2] \in DOMAIN ModDeps[modules[m[1]]]
          BY DEF Start!Missing
    <3> QED BY <3>1
  <2>2. ModDeps[modules[m[1]]] \in Seq(Start!ToSet(ModDeps[modules[m[1]]]))
        BY <2>1, ModulesAssumption DEF Start!ToSet
  <2> QED BY <2>1, <2>2
<1> DEFINE places == {m[1] : m \in Start!Missing}
<1>2. PICK i \in places : \A k \in places : i <= k
  <2>1. places \subseteq Nat /\ places # {}
        BY <1>1
  <2> QED BY <2>1, Least
<1> DEFINE cols == {m[2] : m \in {n \in Start!Missing : n[1] = i}}
<1>3. PICK j \in cols : \A k \in cols : j <= k
  <2>1. cols \subseteq Nat /\ cols # {}
        BY <1>1, <1>2
  <2> QED BY <2>1, Least
<1>4. PICK m \in Start!Missing : m[1] = i /\ m[2] = j
      BY <1>3
<1>5. \A n \in Start!Missing : m[1] < n[1] \/ (m[1] = n[1] /\ m[2] <= n[2])
  <2> TAKE n \in Start!Missing
  <2>1. n[1] \in Nat /\ m[1] \in Nat /\ m[1] <= n[1]
        BY <1>1, <1>2, <1>4
  <2>2. CASE n[1] = m[1]
    <3>1. n[2] \in cols
          BY <1>4, <2>2
    <3> QED BY <1>3, <1>4, <2>2, <3>1
  <2>3. CASE n[1] # m[1]
        BY <2>1, <2>3
  <2> QED BY <2>2, <2>3
<1>6. Start!First \in Start!Missing
      BY <1>5 DEF Start!First
<1>7. Start!First[1] \in DOMAIN modules /\ Start!First[2] \in DOMAIN ModDeps[modules[Start!First[1]]]
      /\ ~Start!Found(Start!Dependency)
  <2> DEFINE f == Start!First
  <2>1. f \in Start!Missing /\ Start!Dependency = ModDeps[modules[f[1]]][f[2]]
        BY <1>6 DEF Start!Dependency
  <2> HIDE DEF f
  <2>2. f[1] \in DOMAIN modules /\ f[2] \in DOMAIN ModDeps[modules[f[1]]] /\ ~Start!Found(Start!Dependency)
        BY <2>1 DEF Start!Missing
  <2> QED BY <2>2 DEF f
<1>8. modules[Start!First[1]] \in Start!ToSet(modules)
      /\ Start!Dependency \in Start!ToSet(ModDeps[modules[Start!First[1]]])
      BY <1>7 DEF Start!ToSet, Start!Dependency
<1> QED BY <1>7, <1>8 DEF Start!Found

LEMMA LoadedNext == ASSUME Loaded, Start!Next PROVE Loaded'
<1>l. modules \in Seq(DOMAIN ModDeps) /\ Different(modules) /\ depth \in Nat
      /\ unread \subseteq DOMAIN ModDeps
      BY DEF Loaded
<1>a. params' = params /\ Wanted' = Wanted /\ AllLoadable' = AllLoadable
  <2>1. params' = params
        BY DEF Start!Next, Start!UiInit, Start!ReadAll, Start!CheckDeps, Start!Checked, Start!MoreinfoInit,
           Start!Shutdown, Start!ReadFile
  <2> QED BY <2>1 DEF Wanted, AllLoadable, Start!Asked, Start!Loadable
<1>n. \A names : Needed(names)' = Needed(names)
      BY <1>a DEF Needed, Start!Closed
<1>1. CASE Start!UiInit
  <2>1. UNCHANGED <<modules, unread, depth>> /\ pc = "ui" /\ pc' = "load"
        BY <1>1 DEF Start!UiInit
  <2> QED BY <1>a, <1>n, <2>1 DEF Loaded, Different, Needed
<1>2. ASSUME NEW f \in DOMAIN ModDeps, Start!ReadFile(f) PROVE Loaded'
  <2>1. pc = "load" /\ f \in unread /\ unread' = unread \ {f} /\ UNCHANGED <<pc, depth>> /\ depth = 0
        BY <1>2 DEF Start!ReadFile, Loaded
  <2>2. f \notin Start!ToSet(modules)
        BY <2>1 DEF Loaded
  <2>3. CASE Start!Asked(f) /\ Start!Loadable(f)
    <3>1. modules' = <<f>> \o modules
          BY <1>2, <2>3 DEF Start!ReadFile
    <3>2. modules' \in Seq(DOMAIN ModDeps) /\ Different(modules')
          /\ Start!ToSet(modules') = Start!ToSet(modules) \cup {f}
          BY <1>l, <2>2, <3>1, OneMore
    <3>3. f \in Wanted
          BY <2>3 DEF Wanted
    <3>4. Needed(Start!ToSet(modules'))
          BY <3>2, <3>3 DEF Needed, Loaded
    <3> QED BY <1>a, <1>n, <1>l, <2>1, <3>2, <3>4 DEF Loaded
  <2>4. CASE ~(Start!Asked(f) /\ Start!Loadable(f))
    <3>1. modules' = modules /\ f \notin Wanted
          BY <1>2, <2>4 DEF Start!ReadFile, Wanted
    <3> QED BY <1>a, <1>n, <1>l, <2>1, <3>1 DEF Loaded
  <2> QED BY <2>3, <2>4
<1>3. CASE Start!ReadAll
  <2>1. UNCHANGED <<modules, unread, depth>> /\ pc = "load" /\ unread = {} /\ pc' = "check"
        BY <1>3 DEF Start!ReadAll
  <2> QED BY <1>a, <1>n, <1>l, <2>1 DEF Loaded
<1>4. CASE Start!CheckDeps
  <2>1. pc = "check" /\ Start!Missing # {} /\ UNCHANGED <<unread>> /\ unread = {}
        /\ Needed(Start!ToSet(modules))
        BY <1>4 DEF Start!CheckDeps, Loaded
  <2>2. Start!Dependency \notin Start!ToSet(modules)
        /\ \E f \in Start!ToSet(modules) : Start!Dependency \in Start!ToSet(ModDeps[f])
        BY <1>l, <2>1, IsMissing
  <2>3. PICK f \in Start!ToSet(modules) : Start!Dependency \in Start!ToSet(ModDeps[f])
        BY <2>2
  <2>4. CASE Start!Loadable(Start!Dependency)
             /\ (modules' = Append(modules, Start!Dependency) \/ modules' = <<Start!Dependency>> \o modules)
             /\ Start!Recheck
    <3>1. Start!Dependency \in DOMAIN ModDeps
          BY <2>4 DEF Start!Loadable
    <3>a. modules \in Seq(DOMAIN ModDeps) /\ Different(modules) /\ Start!Dependency \notin Start!ToSet(modules)
          BY <1>l, <2>2, Zenon
    <3>b. modules' \in {<<Start!Dependency>> \o modules, Append(modules, Start!Dependency)}
          BY <2>4, Zenon
    <3>2. modules' \in Seq(DOMAIN ModDeps) /\ Different(modules')
          /\ Start!ToSet(modules') = Start!ToSet(modules) \cup {Start!Dependency}
          /\ Len(modules') = Len(modules) + 1
      <4> DEFINE d == Start!Dependency
                 longer == modules'
      <4>1. d \in DOMAIN ModDeps /\ d \notin Start!ToSet(modules)
            BY <3>1, <3>a, Zenon
      <4>2. longer \in {<<d>> \o modules, Append(modules, d)}
            BY <3>b, Zenon
      <4> HIDE DEF d, longer
      <4>3. longer \in Seq(DOMAIN ModDeps) /\ Different(longer) /\ Len(longer) = Len(modules) + 1
            /\ Start!ToSet(longer) = Start!ToSet(modules) \cup {d}
            BY ONLY <3>a, <4>1, <4>2, OneMore, Zenon
      <4> QED BY <4>3, Zenon DEF d, longer
    <3>3. Needed(Start!ToSet(modules'))
          BY <2>1, <2>3, <3>2 DEF Needed, Start!Closed
    <3>4. depth' \in Nat /\ pc' \in {"check", "overflow"} /\ (AllLoadable
          /\ depth' > 0 => depth' < Len(modules'))
      <4>1. Len(modules) \in Nat /\ (depth' = depth \/ depth' = depth + 1) /\ pc' \in {"check", "overflow"}
            BY <1>l, <2>1, <2>4 DEF Start!Recheck
      <4>2. AllLoadable /\ depth > 0 => depth < Len(modules)
            BY DEF Loaded
      <4>3. Len(modules) > 0
            BY <1>l, <2>3 DEF Start!ToSet
      <4> QED BY <1>l, <3>2, <4>1, <4>2, <4>3
    <3> QED BY <1>a, <1>n, <1>l, <2>1, <3>2, <3>3, <3>4 DEF Loaded
  <2>5. CASE ~Start!Loadable(Start!Dependency) /\ modules' = modules /\ Start!Recheck
    <3>1. ~AllLoadable
          BY <1>l, <2>3, <2>5 DEF AllLoadable, Start!ToSet
    <3>2. depth' \in Nat /\ pc' \in {"check", "overflow"}
          BY <1>l, <2>1, <2>5 DEF Start!Recheck
    <3> QED BY <1>a, <1>n, <1>l, <2>1, <2>5, <3>1, <3>2 DEF Loaded
  <2>6. CASE pc' = "g_error" /\ UNCHANGED <<modules, depth>>
        BY <1>a, <1>n, <1>l, <2>1, <2>6 DEF Loaded
  <2> QED BY <1>4, <2>4, <2>5, <2>6 DEF Start!CheckDeps, Start!Autoloaded, Start!Accepted
<1>5. CASE Start!Checked
  <2>1. /\ pc = "check" /\ Start!Missing = {} /\ modules' = Start!Sorted(modules) /\ depth' = 0
        /\ unread' = unread /\ unread = {}
        /\ pc' \in {"g_error", "end", "run"} /\ Needed(Start!ToSet(modules))
        BY <1>5 DEF Start!Checked, Loaded
  <2>2. modules' \in Seq(DOMAIN ModDeps) /\ Different(modules')
        /\ Start!ToSet(modules') = Start!ToSet(modules) /\ InOrder(modules')
        BY <1>l, <2>1, SortedFacts
  <2>3. Start!Closed(Start!ToSet(modules))
    <3> SUFFICES ASSUME NEW i \in DOMAIN modules,
    NEW d \in Start!ToSet(ModDeps[modules[i]]) PROVE d \in Start!ToSet(modules)
          BY DEF Start!Closed, Start!ToSet
    <3>1. PICK j \in DOMAIN ModDeps[modules[i]] : d = ModDeps[modules[i]][j]
          BY DEF Start!ToSet
    <3>2. modules[i] \in DOMAIN ModDeps
          BY <1>l
    <3>3. <<i, j>> \in (DOMAIN modules) \X (UNION {DOMAIN ModDeps[f] : f \in DOMAIN ModDeps})
          BY <3>2
    <3> DEFINE m == <<i, j>>
    <3>4. m[1] = i /\ m[2] = j /\ m \notin Start!Missing
          BY <2>1
    <3> HIDE DEF m
    <3>5. Start!Found(ModDeps[modules[i]][j])
          BY <3>3, <3>4 DEF Start!Missing, m
    <3> QED BY <3>1, <3>5 DEF Start!Found
  <2>4. Start!Closed(Start!ToSet(modules'))
        BY <2>2, <2>3
  <2> QED BY <1>a, <1>n, <1>l, <2>1, <2>2, <2>3, <2>4 DEF Loaded, InOrder
<1>6. CASE Start!MoreinfoInit \/ Start!Shutdown
  <2>1. UNCHANGED <<modules, unread, depth>> /\ pc \in {"run", "benchmark", "window", "report"}
        /\ pc' \in {"benchmark", "window", "report", "end"}
        BY <1>6 DEF Start!MoreinfoInit, Start!Shutdown
  <2> QED BY <1>a, <1>n, <1>l, <2>1 DEF Loaded, Different, InOrder
<1> QED BY <1>1, <1>2, <1>3, <1>4, <1>5, <1>6 DEF Start!Next

LEMMA LoadedFacts == ASSUME Loaded PROVE Start!ListIsClosed /\ Start!ChecksEnd
<1>1. modules \in Seq(DOMAIN ModDeps) /\ Different(modules) /\ depth \in Nat /\ Needed(Start!ToSet(modules))
      BY DEF Loaded
<1>2. Cardinality(Start!ToSet(modules)) = Len(modules) /\ Len(modules) <= Cardinality(DOMAIN ModDeps)
      BY <1>1, Lengths
<1>3. Start!ToSet(modules) \subseteq DOMAIN ModDeps
      BY <1>1 DEF Start!ToSet
<1>4. Start!ChecksEnd
  <2>1. Len(modules) \in Nat /\ Cardinality(DOMAIN ModDeps) \in Nat
        BY <1>1, FS_CardinalityType, ModulesAssumption
  <2>2. AllLoadable /\ depth > 0 => depth < Len(modules)
        BY DEF Loaded
  <2>3. AllLoadable /\ depth > 0 => depth < Start!Cardinality(DOMAIN ModDeps)
        BY <1>1, <1>2, <2>1, <2>2, SameCardinality
  <2> QED BY <2>3 DEF Start!ChecksEnd, AllLoadable
<1>5. ASSUME pc \in {"benchmark", "window", "report"}
      PROVE  LET names == Start!ToSet(modules)
             IN /\ Cardinality(names) = Len(modules)
                /\ Wanted \subseteq names /\ Start!Closed(names)
                /\ \A rest \in SUBSET names : Wanted \subseteq rest /\ Start!Closed(rest) => rest = names
                /\ \A i, j \in 1 .. Len(modules) : i < j => ModWeight[modules[i]] <= ModWeight[modules[j]]
  <2>1. unread = {} /\ Wanted \subseteq Start!ToSet(modules) /\ Start!Closed(Start!ToSet(modules))
        /\ InOrder(modules)
        BY <1>5 DEF Loaded
  <2>2. \A rest \in SUBSET Start!ToSet(modules) : Wanted \subseteq rest
        /\ Start!Closed(rest) => rest = Start!ToSet(modules)
        BY <1>1, <1>3 DEF Needed
  <2> QED BY <1>2, <2>1, <2>2 DEF Wanted, InOrder
<1>6. Start!ListIsClosed
      BY <1>5, SameCardinality DEF Start!ListIsClosed, Wanted
<1> QED BY <1>4, <1>6

(* Whatever depends on what and whatever cannot be loaded, the program runs *)
(* with the modules it was asked for, all they depend on and no others, by  *)
(* weight; and the checks end when the dependencies can be loaded.          *)
THEOREM ModulesLoadedForAll == ProgramSpec => []ModulesAreLoaded
<1> DEFINE I == live = "startup" => Loaded
<1>1. ProgramInit => I
      BY LoadedInit DEF ProgramInit, Own
<1>2. I /\ [ProgramNext]_its => I'
  <2>1. ASSUME I, ProgramNext, live = "startup" PROVE Loaded'
        BY <2>1, LoadedNext DEF ProgramNext, Own
  <2>2. ASSUME Loaded, UNCHANGED its PROVE Loaded'
    <3>1. UNCHANGED <<params, pc, unread, modules, depth>>
          BY <2>2 DEF its, Start!vars
    <3> QED BY <2>2, <3>1 DEF Loaded, Wanted, AllLoadable, Needed, Different, InOrder, Start!Asked,
               Start!Loadable, Start!Closed
  <2> QED BY <2>1, <2>2, LiveStays DEF its
<1>3. I => ModulesAreLoaded
      BY LoadedFacts DEF ModulesAreLoaded
<1> HIDE DEF I
<1> QED BY <1>1, <1>2, <1>3, PTL DEF ProgramSpec

-----------------------------------------------------------------------------
(* The benchmark results.  Of a list that is shown it is enough to know that*)
(* it was made from what is still so: the result of a benchmark that is     *)
(* shown does not change (Tabled).  That it has this machine among its      *)
(* neighbours is then a matter of sorting and of the window.                *)
NoWorseOf(b, x, y) == IF BenchOrder[b] = "desc" THEN x >= y ELSE x <= y
Rated(i) == Bench!FromJson(file[i]).result
Numbers == file \in Seq({file[i] : i \in DOMAIN file}) /\ \A i \in 1 .. Len(file) : Rated(i) \in Int

(* With a result this machine comes first, then the file. *)
LEMMA ResultsFacts ==
  ASSUME NEW b, Numbers, bench_results[b].result \in Int, bench_results[b].result > 0
  PROVE  LET ranked == Bench!Results(b)
             n == Len(file) + 1
         IN /\ n \in Nat /\ Len(file) = n - 1 /\ Len(ranked) = n
            /\ ranked[1] = [this |-> TRUE, value |-> bench_results[b]]
            /\ \A i \in 2 .. n : ranked[i] = [this |-> FALSE, value |-> Bench!FromJson(file[i - 1])]
            /\ \A i \in 1 .. n : ranked[i].value.result \in Int /\ (ranked[i].this <=> i = 1)
<1> DEFINE mine == [this |-> TRUE, value |-> bench_results[b]]
           others == [i \in 1 .. Len(file) |-> [this |-> FALSE, value |-> Bench!FromJson(file[i])]]
           S == {mine} \cup {others[i] : i \in 1 .. Len(file)}
           ranked == Bench!Results(b)
           n == Len(file) + 1
<1>1. Len(file) \in Nat
      BY DEF Numbers
<1>2. others \in Seq(S) /\ Len(others) = Len(file)
  <2>1. \A i \in 1 .. Len(file) : others[i] \in S
        OBVIOUS
  <2>2. others = [i \in 1 .. Len(file) |-> others[i]]
        OBVIOUS
  <2> HIDE DEF others, S
  <2> QED BY <1>1, <2>1, <2>2
<1>3. ranked = <<mine>> \o others
      BY DEF Bench!Results
<1> HIDE DEF mine, others, ranked
<1>4. mine \in S
      OBVIOUS
<1> HIDE DEF S
<1>5. Len(ranked) = n /\ ranked[1] = mine /\ \A i \in 2 .. n : ranked[i] = others[i - 1]
      BY <1>1, <1>2, <1>3, <1>4
<1>6. \A i \in 2 .. n : ranked[i] = [this |-> FALSE, value |-> Bench!FromJson(file[i - 1])]
  <2> TAKE i \in 2 .. n
  <2>1. i - 1 \in 1 .. Len(file)
        BY <1>1
  <2>2. others[i - 1] = [this |-> FALSE, value |-> Bench!FromJson(file[i - 1])]
        BY <2>1 DEF others
  <2> QED BY <2>2, <1>5
<1>7. \A i \in 2 .. n : Bench!FromJson(file[i - 1]).result \in Int
      BY <1>1 DEF Numbers, Rated
<1>8. \A i \in 1 .. n : ranked[i].value.result \in Int /\ (ranked[i].this <=> i = 1)
  <2> TAKE i \in 1 .. n
  <2>1. CASE i = 1
        BY <1>5, <2>1 DEF mine
  <2>2. CASE i # 1
    <3>1. i \in 2 .. n
          BY <1>1, <2>2
    <3>2. ranked[i] = [this |-> FALSE, value |-> Bench!FromJson(file[i - 1])]
          BY <1>6, <3>1
    <3>3. ranked[i].value = Bench!FromJson(file[i - 1]) /\ ~ranked[i].this
      <4>1. ranked[i].value = Bench!FromJson(file[i - 1])
            BY <3>2
      <4>2. ~ranked[i].this
            BY <3>2
      <4> QED BY <4>1, <4>2
    <3> QED BY <1>7, <2>2, <3>1, <3>3
  <2> QED BY <2>1, <2>2
<1> QED BY <1>1, <1>5, <1>6, <1>8 DEF mine, ranked

(* Sorting puts each result at a place of its own. *)
LEMMA SortedResults ==
  ASSUME NEW b, Numbers, bench_results[b].result \in Int, bench_results[b].result > 0
  PROVE  LET n == Len(Bench!Results(b))
         IN /\ Bench!Sorted(b) = [k \in 1 .. n |-> Bench!Sorted(b)[k]]
            /\ \E at \in [1 .. n -> 1 .. n], to \in [1 .. n -> 1 .. n] :
                 /\ \A k \in 1 .. n : to[at[k]] = k /\ at[to[k]] = k
                 /\ \A k \in 1 .. n : Bench!Sorted(b)[k] = Bench!Results(b)[at[k]]
            /\ \A k, m \in 1 .. n : k <= m =>
                 NoWorseOf(b, Bench!Sorted(b)[k].value.result, Bench!Sorted(b)[m].value.result)
<1> DEFINE ranked == Bench!Results(b)
           n == Len(ranked)
           D == 1 .. n
           w == [i \in D |-> ranked[i].value.result]
           Place(i) == Bench!Cardinality({j \in D : ranked[j].value.result < ranked[i].value.result
                                              \/ (ranked[j].value.result = ranked[i].value.result /\ j <= i)})
           R == [i \in D |-> Place(i)]
           up == [k \in D |-> CHOOSE i \in D : Place(i) = k]
<1>a. /\ Len(file) + 1 \in Nat /\ n = Len(file) + 1
      /\ \A i \in 1 .. (Len(file) + 1) : ranked[i].value.result \in Int
      BY ResultsFacts, Zenon
<1> HIDE DEF ranked
<1>1. n \in Nat /\ n = Len(file) + 1 /\ \A i \in D : ranked[i].value.result \in Int
      BY <1>a, Zenon
<1>2. w \in [D -> Int] /\ \A i \in D : w[i] = ranked[i].value.result
      BY <1>1
<1>3. /\ \A i \in D : R[i] \in D
      /\ \A k \in D : \E i \in D : R[i] = k
      /\ \A i, j \in D : R[i] = R[j] => i = j
      /\ \A i, j \in D : R[i] <= R[j] => w[i] <= w[j]
  <2>1. \A i \in 1 .. n : R[i] = Cardinality({j \in 1 .. n : w[j] < w[i] \/ (w[j] = w[i] /\ j <= i)})
    <3> TAKE i \in 1 .. n
    <3>1. {j \in D : ranked[j].value.result < ranked[i].value.result
                     \/ (ranked[j].value.result = ranked[i].value.result /\ j <= i)}
          = {j \in 1 .. n : w[j] < w[i] \/ (w[j] = w[i] /\ j <= i)}
          BY <1>2
    <3> HIDE DEF w
    <3>2. R[i] = Bench!Cardinality({j \in D : ranked[j].value.result < ranked[i].value.result
                                              \/ (ranked[j].value.result = ranked[i].value.result /\ j <= i)})
          BY DEF R
    <3> QED BY ONLY <3>1, <3>2, SameCardinality, Zenon
  <2> HIDE DEF R, w
  <2> QED BY <1>1, <1>2, <2>1, Ranking
<1>4. Bench!Ascending(ranked) = [p \in D |-> ranked[up[p]]]
  <2>1. Bench!Ascending(ranked) = [p \in D |-> ranked[CHOOSE i \in D : Place(i) = p]]
        BY DEF Bench!Ascending
  <2>2. \A p \in D : up[p] = CHOOSE i \in D : Place(i) = p
        OBVIOUS
  <2> QED BY <2>1, <2>2
<1>5. \A i \in D : R[i] = Place(i)
      OBVIOUS
<1>8. \A k \in D : up[k] \in D /\ R[up[k]] = k
  <2> TAKE k \in D
  <2>1. \E i \in D : Place(i) = k
        BY <1>3, <1>5
  <2>2. up[k] \in D /\ Place(up[k]) = k
    <3> HIDE DEF Place
    <3> QED BY <2>1
  <2> QED BY <1>5, <2>2
<1> HIDE DEF w, R
<1> HIDE DEF up, Place
<1>9. \A i \in D : up[R[i]] = i
  <2> TAKE i \in D
  <2>1. R[i] \in D /\ up[R[i]] \in D /\ R[up[R[i]]] = R[i]
        BY <1>3, <1>8
  <2> QED BY <1>3, <2>1
<1>10. \A k, m \in D : k <= m => w[up[k]] <= w[up[m]]
  <2> TAKE k, m \in D
  <2> HAVE k <= m
  <2>1. up[k] \in D /\ up[m] \in D /\ R[up[k]] <= R[up[m]]
        BY <1>8
  <2> QED BY <1>3, <2>1
<1>11. up \in [D -> D]
       BY <1>8 DEF up
<1> HIDE DEF n
<1> SUFFICES /\ Bench!Sorted(b) = [k \in D |-> Bench!Sorted(b)[k]]
             /\ \E at1 \in [D -> D], to1 \in [D -> D] :
                  /\ \A k \in D : to1[at1[k]] = k /\ at1[to1[k]] = k
                  /\ \A k \in D : Bench!Sorted(b)[k] = ranked[at1[k]]
             /\ \A k, m \in D : k <= m =>
                  NoWorseOf(b, Bench!Sorted(b)[k].value.result, Bench!Sorted(b)[m].value.result)
      BY DEF ranked, n
<1>6. CASE BenchOrder[b] # "desc"
  <2>1. Bench!Sorted(b) = [k \in D |-> ranked[up[k]]]
        BY <1>4, <1>6 DEF Bench!Sorted, ranked
  <2> DEFINE to == [i \in D |-> R[i]]
  <2>2. to \in [D -> D] /\ \A k \in D : to[up[k]] = k /\ up[to[k]] = k
        BY <1>3, <1>8, <1>9
  <2>3. \A k, m \in D : k <= m => NoWorseOf(b, Bench!Sorted(b)[k].value.result, Bench!Sorted(b)[m].value.result)
    <3> TAKE k, m \in D
    <3> HAVE k <= m
    <3>1. w[up[k]] <= w[up[m]] /\ up[k] \in D /\ up[m] \in D
          BY <1>10, <1>11
    <3>2. Bench!Sorted(b)[k].value.result = w[up[k]] /\ Bench!Sorted(b)[m].value.result = w[up[m]]
          BY <1>2, <2>1, <3>1
    <3> QED BY <1>6, <3>1, <3>2 DEF NoWorseOf
  <2> HIDE DEF to
  <2>7. \A k \in D : Bench!Sorted(b)[k] = ranked[up[k]]
        BY <2>1
  <2>8. Bench!Sorted(b) = [k \in D |-> Bench!Sorted(b)[k]]
        BY <2>1
  <2>9. \E at1 \in [D -> D], to1 \in [D -> D] :
           /\ \A k \in D : to1[at1[k]] = k /\ at1[to1[k]] = k
           /\ \A k \in D : Bench!Sorted(b)[k] = ranked[at1[k]]
        BY <1>11, <2>2, <2>7, Zenon
  <2> QED BY <2>3, <2>8, <2>9
<1>7. CASE BenchOrder[b] = "desc"
  <2> DEFINE at == [k \in D |-> up[(n - k) + 1]]
             to == [i \in D |-> (n - R[i]) + 1]
  <2>0. \A k \in D : (n - k) + 1 \in D /\ (n - ((n - k) + 1)) + 1 = k
        BY <1>1
  <2>1. Bench!Sorted(b) = Bench!Reverse(Bench!Ascending(ranked))
        BY <1>7 DEF Bench!Sorted, ranked
  <2>2. Len(Bench!Ascending(ranked)) = n /\ n \in Nat
        BY <1>1, <1>4
  <2>3. Bench!Sorted(b) = [k \in D |-> ranked[at[k]]]
        BY <1>4, <2>0, <2>1, <2>2 DEF Bench!Reverse
  <2>4. at \in [D -> D] /\ to \in [D -> D]
    <3>1. \A i \in D : (n - R[i]) + 1 \in D
          BY <1>3, <2>0
    <3> QED BY <1>11, <2>0, <3>1
  <2>5. \A k \in D : to[at[k]] = k /\ at[to[k]] = k
    <3> TAKE k \in D
    <3>1. at[k] \in D /\ R[at[k]] = (n - k) + 1
          BY <1>8, <2>0
    <3>2. R[k] \in D /\ up[R[k]] = k /\ to[k] = (n - R[k]) + 1 /\ to[k] \in D
          BY <1>3, <1>9, <2>4
    <3>3. (n - to[k]) + 1 = R[k]
          BY <2>0, <3>2
    <3>4. at[to[k]] = up[R[k]]
          BY <3>2, <3>3
    <3> QED BY <2>0, <3>1, <3>2, <3>4
  <2>6. \A k, m \in D : k <= m => NoWorseOf(b, Bench!Sorted(b)[k].value.result, Bench!Sorted(b)[m].value.result)
    <3> TAKE k, m \in D
    <3> HAVE k <= m
    <3>1. (n - m) + 1 <= (n - k) + 1
          BY <1>1
    <3>2. w[up[(n - m) + 1]] <= w[up[(n - k) + 1]]
          BY <1>10, <2>0, <3>1
    <3>3. at[k] \in D /\ at[m] \in D /\ w[at[m]] <= w[at[k]]
          BY <2>4, <3>2
    <3>4. w[at[m]] \in Int /\ w[at[k]] \in Int
          BY <1>2, <3>3
    <3>5. Bench!Sorted(b)[k].value.result = w[at[k]] /\ Bench!Sorted(b)[m].value.result = w[at[m]]
          BY <1>2, <2>3, <3>3
    <3> QED BY <1>7, <3>3, <3>4, <3>5 DEF NoWorseOf
  <2> HIDE DEF at, to
  <2>7. \A k \in D : Bench!Sorted(b)[k] = ranked[at[k]]
        BY <2>3
  <2>8. Bench!Sorted(b) = [k \in D |-> Bench!Sorted(b)[k]]
        BY <2>3
  <2>9. \E at1 \in [D -> D], to1 \in [D -> D] :
           /\ \A k \in D : to1[at1[k]] = k /\ at1[to1[k]] = k
           /\ \A k \in D : Bench!Sorted(b)[k] = ranked[at1[k]]
        BY <2>4, <2>5, <2>7, Zenon
  <2> QED BY <2>6, <2>8, <2>9
<1> QED BY <1>6, <1>7

(* The window is where this machine is, as wide as was asked for, and in    *)
(* its middle unless it begins or ends with the list.                       *)
LEMMA WindowFacts ==
  ASSUME NEW len \in Nat, NEW loc \in Nat, loc < len, max_bench_results \in Int
  PROVE  LET w == Bench!Window(len, loc)
         IN /\ w.min \in Nat /\ w.max \in Nat /\ w.min <= loc /\ loc < w.max /\ w.max <= len
            /\ w.max - w.min = IF max_bench_results < 0 THEN len
                          ELSE Bench!Smaller(len, Bench!Larger(1, max_bench_results))
            /\ w.min > 0 /\ w.max < len => (loc - w.min) - (w.max - 1 - loc) \in 0 .. 1
<1> DEFINE size == Bench!Size(len)
           half == size \div 2
           min == loc - half
<1>1. size \in Nat /\ size >= 1 /\ size = IF max_bench_results < 0 THEN len
              ELSE Bench!Larger(1, max_bench_results)
      BY DEF Bench!Size, Bench!Larger
<1> HIDE DEF size
<1>2. half \in Nat /\ half < size /\ 2 * half <= size /\ size <= 2 * half + 1
      BY <1>1
<1>3. size - half >= 1
      BY <1>1, <1>2
<1> HIDE DEF half
<1>4. Bench!Window(len, loc) = IF min < 0 THEN [min |-> 0, max |-> Bench!Smaller(size, len)]
                         ELSE IF min + size > len THEN [min |-> Bench!Larger(len - size, 0), max |-> len]
                         ELSE [min |-> min, max |-> min + size]
      BY DEF Bench!Window, size, half
<1>5. CASE min < 0
      BY <1>1, <1>2, <1>3, <1>4, <1>5 DEF Bench!Smaller, Bench!Larger
<1>6. CASE min >= 0 /\ min + size > len
      BY <1>1, <1>2, <1>3, <1>4, <1>6 DEF Bench!Smaller, Bench!Larger
<1>7. CASE min >= 0 /\ min + size <= len
      BY <1>1, <1>2, <1>3, <1>4, <1>7 DEF Bench!Smaller, Bench!Larger
<1> QED BY <1>1, <1>2, <1>5, <1>6, <1>7

(* What the child's line keeps: the result always, and all of a value that  *)
(* has no note.                                                             *)
Value(r) == r = [result |-> r.result, threads |-> r.threads, revision |-> r.revision, extra |-> r.extra, note |-> r.note]

LEMMA LineKeeps ==
  ASSUME NEW r, Value(r), r.revision \in Nat \cup {-1}
  PROVE  /\ Bench!FromStr(Bench!ToStr(r)).result = r.result
         /\ r.note = None => Bench!FromStr(Bench!ToStr(r)) = r
<1> DEFINE said == Bench!ToStr(r)
<1>1. CASE r.note # None
  <2>1. said = <<r.result, r.threads, r.revision, r.extra, r.note>>
        BY <1>1 DEF Bench!ToStr
  <2> HIDE DEF said
  <2> QED BY <1>1, <2>1 DEF Bench!FromStr, said
<1>2. CASE r.note = None /\ r.extra # None
  <2>1. said = <<r.result, r.threads, r.revision, r.extra>>
        BY <1>2 DEF Bench!ToStr
  <2> HIDE DEF said
  <2>2. Len(said) = 4 /\ said[1] = r.result /\ said[2] = r.threads /\ said[3] = r.revision /\ said[4] = r.extra
        BY <2>1
  <2>3. {i \in 4 .. Len(said) : said[i] = None} = {}
        BY <1>2, <2>2
  <2>4. Bench!FromStr(said) = [result |-> r.result, threads |-> r.threads, revision |-> r.revision,
                         extra |-> r.extra, note |-> None]
        BY <2>2, <2>3 DEF Bench!FromStr, Bench!EMPTY_BENCH_VALUE
  <2> QED BY <1>2, <2>4 DEF Value, said
<1>3. CASE r.note = None /\ r.extra = None /\ r.revision >= 0
  <2>1. said = <<r.result, r.threads, r.revision>>
        BY <1>3 DEF Bench!ToStr
  <2> HIDE DEF said
  <2>2. Len(said) = 3 /\ said[1] = r.result /\ said[2] = r.threads /\ said[3] = r.revision
        BY <2>1
  <2>3. {i \in 4 .. Len(said) : said[i] = None} = {}
        BY <2>2
  <2> QED BY <1>3, <2>2, <2>3 DEF Bench!FromStr, Value, Bench!EMPTY_BENCH_VALUE, said
<1>4. CASE r.note = None /\ r.extra = None /\ ~(r.revision >= 0)
  <2>1. said = <<r.result, r.threads>>
        BY <1>4 DEF Bench!ToStr
  <2> HIDE DEF said
  <2>2. Len(said) = 2 /\ said[1] = r.result /\ said[2] = r.threads /\ r.revision = -1
        BY <1>4, <2>1
  <2>3. {i \in 4 .. Len(said) : said[i] = None} = {}
        BY <2>2
  <2> QED BY <1>4, <2>2, <2>3 DEF Bench!FromStr, Value, Bench!EMPTY_BENCH_VALUE, said
<1> QED BY <1>1, <1>2, <1>3, <1>4

(* Where this machine is in the sorted list. *)
LEMMA ThisAt ==
  ASSUME NEW b, Numbers, bench_results[b].result \in Int, bench_results[b].result > 0
  PROVE  LET ranked == Bench!Sorted(b)
             n == Len(file) + 1
         IN \E t \in 1 .. n : /\ Bench!IndexOfThis(ranked) = t - 1 /\ ranked[t].value = bench_results[b]
                              /\ \A k \in 1 .. n : ranked[k].this <=> k = t
<1> DEFINE ranked == Bench!Sorted(b)
           n == Len(Bench!Results(b))
<1>1. n = Len(file) + 1 /\ n \in Nat /\ Bench!Results(b)[1] = [this |-> TRUE, value |-> bench_results[b]]
      /\ \A i \in 1 .. n : Bench!Results(b)[i].this <=> i = 1
      BY ResultsFacts
<1>2. PICK at \in [1 .. n -> 1 .. n], to \in [1 .. n -> 1 .. n] :
        /\ \A k \in 1 .. n : to[at[k]] = k /\ at[to[k]] = k
        /\ \A k \in 1 .. n : ranked[k] = Bench!Results(b)[at[k]]
      BY SortedResults
<1>3. ranked = [k \in 1 .. n |-> ranked[k]]
      BY SortedResults
<1> HIDE DEF ranked, n
<1>4. to[1] \in 1 .. n /\ \A k \in 1 .. n : ranked[k].this <=> k = to[1]
      BY <1>1, <1>2
<1>5. ranked[to[1]].value = bench_results[b]
      BY <1>1, <1>2, <1>4
<1>6. Len(ranked) = n
      BY <1>1, <1>3
<1>7. Bench!IndexOfThis(ranked) = to[1] - 1
      BY <1>4, <1>6 DEF Bench!IndexOfThis
<1> QED BY <1>1, <1>4, <1>5, <1>7 DEF ranked

(* Of a result that the window cuts off at least one place is outside it.   *)
LEMMA CutOffOutside ==
  ASSUME Numbers, bench_results[shown].result \in Int, bench_results[shown].result > 0,
         NEW min \in Nat, NEW max \in Nat, min <= max, max <= Len(file) + 1,
         Len(Bench!ShownResults) = max - min,
         \A i \in 1 .. (max - min) : Bench!ShownResults[i] = Bench!Sorted(shown)[min + i].value.result,
         NEW x \in Bench!CutOff
  PROVE  \E k \in 1 .. (Len(file) + 1) : Bench!Sorted(shown)[k].value.result = x /\ (k <= min \/ k > max)
<1> DEFINE b == shown
           ranked == Bench!Sorted(b)
           n == Len(Bench!Results(b))
           given == Bench!FileResults
           there == Bench!ShownResults
           X == {i \in 1 .. Len(given) : given[i] = x}
           Y == {i \in 1 .. Len(there) : there[i] = x}
<1>1. /\ n \in Nat /\ Len(file) = n - 1 /\ n = Len(file) + 1
      /\ \A i \in 2 .. n : Bench!Results(b)[i] = [this |-> FALSE, value |-> Bench!FromJson(file[i - 1])]
  <2>1. /\ Len(file) + 1 \in Nat /\ Len(Bench!Results(b)) = Len(file) + 1
        /\ \A i \in 2 .. (Len(file) + 1) : Bench!Results(b)[i] = [this |-> FALSE, value |-> Bench!FromJson(file[i - 1])]
        BY ResultsFacts
  <2>2. Len(file) \in Nat
        BY DEF Numbers
  <2> QED BY <2>1, <2>2
<1>2. PICK at \in [1 .. n -> 1 .. n], to \in [1 .. n -> 1 .. n] :
        /\ \A k \in 1 .. n : to[at[k]] = k /\ at[to[k]] = k
        /\ \A k \in 1 .. n : ranked[k] = Bench!Results(b)[at[k]]
      BY SortedResults
<1>0. Len(there) = max - min /\ \A i \in 1 .. (max - min) : there[i] = ranked[min + i].value.result
      OBVIOUS
<1> HIDE DEF ranked, n
<1> SUFFICES ASSUME ~ \E k \in 1 .. (Len(file) + 1) : Bench!Sorted(b)[k].value.result = x /\ (k <= min
              \/ k > max)
             PROVE  FALSE
    OBVIOUS
<1>4. \A k \in 1 .. n : ranked[k].value.result = x => min < k /\ k <= max /\ k \in Int
  <2> TAKE k \in 1 .. n
  <2>1. k \in 1 .. (Len(file) + 1) /\ k \in Int
        BY <1>1
  <2>2. ~(ranked[k].value.result = x /\ (k <= min \/ k > max))
        BY <2>1 DEF ranked
  <2> QED BY <2>1, <2>2
<1>3. Len(given) = n - 1 /\ \A i \in 1 .. (n - 1) : given[i] = Rated(i)
  <2>1. given = [i \in 1 .. (n - 1) |-> Rated(i)]
        BY <1>1 DEF Bench!FileResults, Rated
  <2> QED BY <1>1, <2>1
<1> HIDE DEF given, there
<1>5. \A i \in 1 .. (n - 1) :
        /\ i + 1 \in 2 .. n /\ (i + 1) - 1 = i
        /\ to[i + 1] \in 1 .. n /\ at[to[i + 1]] = i + 1
        /\ ranked[to[i + 1]].value.result = given[i]
  <2> TAKE i \in 1 .. (n - 1)
  <2>1. i + 1 \in 2 .. n /\ i + 1 \in 1 .. n /\ (i + 1) - 1 = i
        BY <1>1
  <2> DEFINE m == i + 1
  <2>2. m \in 1 .. n /\ m \in 2 .. n /\ m - 1 = i
        BY <2>1
  <2> HIDE DEF m
  <2>3. to[m] \in 1 .. n /\ at[to[m]] = m
        BY <1>2, <2>2
  <2>4. ranked[to[m]] = Bench!Results(b)[m]
        BY <1>2, <2>3
  <2>5. Bench!Results(b)[m] = [this |-> FALSE, value |-> Bench!FromJson(file[i])]
        BY <1>1, <2>2
  <2>6. ranked[to[m]].value.result = given[i]
        BY <1>3, <2>4, <2>5 DEF Rated
  <2> QED BY <2>1, <2>3, <2>6 DEF m
<1>6. \A i \in X : i \in 1 .. (n - 1) /\ given[i] = x
      BY <1>3
<1> DEFINE g(i) == to[i + 1] - min
<1>7. \A i \in X : g(i) \in Y /\ to[i + 1] \in Int
  <2> TAKE i \in X
  <2> DEFINE k == to[i + 1]
  <2>1. k \in 1 .. n /\ ranked[k].value.result = x
        BY <1>5, <1>6
  <2> HIDE DEF k
  <2>2. min < k /\ k <= max /\ k \in Int
        BY <1>4, <2>1
  <2>3. k - min \in 1 .. (max - min) /\ min + (k - min) = k
        BY <2>2
  <2>4. there[k - min] = x
    <3>1. there[k - min] = ranked[min + (k - min)].value.result
          BY <1>0, <2>3
    <3> QED BY <2>1, <2>3, <3>1
  <2>5. k - min \in Y
        BY <1>0, <2>3, <2>4
  <2> QED BY <2>2, <2>5 DEF k
<1>8. \A i \in X, j \in X : g(i) = g(j) => i = j
  <2> TAKE i \in X, j \in X
  <2> HAVE g(i) = g(j)
  <2>0. to[i + 1] \in Int /\ to[j + 1] \in Int
        BY <1>7
  <2>1. to[i + 1] = to[j + 1]
        BY <2>0
  <2>2. i + 1 = j + 1
        BY <1>5, <1>6, <2>1
  <2> QED BY <1>1, <1>6, <2>2
<1>9. IsFiniteSet(Y) /\ IsFiniteSet(X)
  <2>0. 1 \in Int /\ Len(there) \in Int /\ Len(given) \in Int
        BY <1>1, <1>3
  <2>1. IsFiniteSet(1 .. Len(there)) /\ IsFiniteSet(1 .. Len(given))
        BY <2>0, FS_Interval
  <2>2. Y \in SUBSET (1 .. Len(there)) /\ X \in SUBSET (1 .. Len(given))
        OBVIOUS
  <2> HIDE DEF X, Y
  <2> QED BY <2>1, <2>2, FS_Subset
<1>10. Cardinality(X) <= Cardinality(Y)
  <2> HIDE DEF X, Y, g
  <2> DEFINE h == [i \in X |-> g(i)]
  <2>1. h \in [X -> Y] /\ \A i \in X : h[i] = g(i)
        BY <1>7
  <2> HIDE DEF h
  <2>2. h \in Injection(X, Y)
        BY <1>8, <2>1 DEF Injection, IsInjective
  <2> QED BY <1>9, <2>2, FS_Injection
<1>11. Cardinality(X) > Cardinality(Y)
       BY SameCardinality DEF Bench!CutOff, Bench!Times, given, there
<1>12. Cardinality(X) \in Nat /\ Cardinality(Y) \in Nat
       BY <1>9, FS_CardinalityType
<1> HIDE DEF X, Y
<1> QED BY <1>10, <1>11, <1>12

(* What is shown of b, with keys from base on. *)
Listed(b, base) ==
  LET part == Bench!InWindow(Bench!Sorted(b))
  IN /\ rows = [i \in 1 .. Len(part) |-> [key |-> base + i, this |-> part[i].this, value |-> part[i].value]]
     /\ moreinfo = [k \in (base + 1) .. (base + Len(part)) |-> Bench!Details(part[k - base])]

(* The part of the sorted list in the window. *)
LEMMA PartFacts ==
  ASSUME NEW b, Numbers, bench_results[b].result \in Int, bench_results[b].result > 0, max_bench_results \in Int,
         NEW t \in 1 .. (Len(file) + 1), Bench!IndexOfThis(Bench!Sorted(b)) = t - 1
  PROVE  LET ranked == Bench!Sorted(b)
             n == Len(file) + 1
             w == Bench!Window(n, t - 1)
             part == Bench!InWindow(ranked)
         IN /\ n \in Nat /\ w.min \in Nat /\ w.max \in Nat /\ w.min < t /\ t <= w.max /\ w.max <= n
            /\ w.max - w.min = IF max_bench_results < 0 THEN n
                          ELSE Bench!Smaller(n, Bench!Larger(1, max_bench_results))
            /\ w.min > 0 /\ w.max < n => (t - 1 - w.min) - (w.max - t) \in 0 .. 1
            /\ Len(part) = w.max - w.min
            /\ \A i \in 1 .. (w.max - w.min) : part[i] = ranked[w.min + i]
<1> DEFINE ranked == Bench!Sorted(b)
           n == Len(file) + 1
           w == Bench!Window(n, t - 1)
           part == Bench!InWindow(ranked)
<1>1. n \in Nat /\ Len(Bench!Results(b)) = n
      BY ResultsFacts
<1>2. Len(ranked) = n /\ ranked \in Seq({ranked[k] : k \in 1 .. n})
  <2>1. ranked = [k \in 1 .. n |-> ranked[k]]
        BY <1>1, SortedResults
  <2> HIDE DEF ranked
  <2> QED BY <1>1, <2>1
<1>3. t - 1 \in Nat /\ t - 1 < n /\ t \in Int
      BY <1>1
<1>4. /\ w.min \in Nat /\ w.max \in Nat /\ w.min <= t - 1 /\ t - 1 < w.max /\ w.max <= n
      /\ w.max - w.min = IF max_bench_results < 0 THEN n
                    ELSE Bench!Smaller(n, Bench!Larger(1, max_bench_results))
      /\ w.min > 0 /\ w.max < n => (t - 1 - w.min) - (w.max - 1 - (t - 1)) \in 0 .. 1
  <2> HIDE DEF n
  <2> QED BY <1>1, <1>3, WindowFacts
<1>5. part = SubSeq(ranked, w.min + 1, w.max)
      BY <1>2 DEF Bench!InWindow
<1> DEFINE min == w.min
           max == w.max
           S == {ranked[k] : k \in 1 .. n}
<1>6. n \in Int /\ min \in Int /\ max \in Int /\ 0 <= min /\ min < max /\ max <= n /\ min + 1 \in Int
  <2> HIDE DEF w, n
  <2> QED BY <1>1, <1>3, <1>4
<1> HIDE DEF ranked, w, part, n, min, max
<1>7. \A i \in (min + 1) .. max : ranked[i] \in S
      BY <1>6
<1>8. /\ Len(part) = IF min + 1 <= max THEN max - (min + 1) + 1 ELSE 0
      /\ \A i \in 1 .. max - (min + 1) + 1 : part[i] = ranked[(min + 1) + i - 1]
  <2>1. part = SubSeq(ranked, min + 1, max)
        BY <1>5 DEF min, max
  <2> HIDE DEF S
  <2> DEFINE lo == min + 1
  <2>2. \A i \in lo .. max : ranked[i] \in S
        BY <1>7, Zenon
  <2>3. lo \in Int /\ max \in Int
        BY <1>6, Zenon
  <2> HIDE DEF lo
  <2>5. Len(SubSeq(ranked, lo, max)) = IF lo <= max THEN max - lo + 1 ELSE 0
        BY ONLY <2>2, <2>3, SubSeqProperties, Zenon
  <2>6. \A i \in 1 .. max - lo + 1 : SubSeq(ranked, lo, max)[i] = ranked[lo + i - 1]
        BY ONLY <2>2, <2>3, SubSeqProperties, SMT
  <2>4. /\ Len(SubSeq(ranked, min + 1, max)) = IF min + 1 <= max THEN max - (min + 1) + 1 ELSE 0
        /\ \A i \in 1 .. max - (min + 1) + 1 : SubSeq(ranked, min + 1, max)[i] = ranked[(min + 1) + i - 1]
        BY <2>5, <2>6, Zenon DEF lo
  <2> QED BY ONLY <2>1, <2>4, Zenon
<1>9. Len(part) = max - min /\ \A i \in 1 .. (max - min) : part[i] = ranked[min + i]
  <2>1. max - (min + 1) + 1 = max - min /\ min + 1 <= max
        BY <1>6
  <2>2. \A i \in 1 .. (max - min) : (min + 1) + i - 1 = min + i
        BY <1>6
  <2> QED BY <1>8, <2>1, <2>2
<1>10. w.min < t /\ t <= w.max /\ w.max - 1 - (t - 1) = w.max - t
       BY <1>3, <1>4
<1> QED BY <1>1, <1>4, <1>9, <1>10 DEF ranked, w, part, n, min, max

(* A list that was made of a result has this machine among its neighbours. *)
LEMMA ListedAmong ==
  ASSUME NEW base \in Nat, Listed(shown, base), Numbers, max_bench_results \in Int,
         bench_results[shown].result \in Int, bench_results[shown].result > 0,
         bench_results[shown] = measured[shown]
  PROVE  Bench!AmongNeighbours
<1> DEFINE b == shown
           ranked == Bench!Sorted(b)
           n == Len(file) + 1
           part == Bench!InWindow(ranked)
<1>1. PICK t \in 1 .. n : /\ Bench!IndexOfThis(ranked) = t - 1 /\ ranked[t].value = bench_results[b]
                           /\ \A k \in 1 .. n : ranked[k].this <=> k = t
      BY ThisAt
<1> DEFINE w == Bench!Window(n, t - 1)
           min == w.min
           max == w.max
           size == max - min
<1>2. /\ n \in Nat /\ min \in Nat /\ max \in Nat /\ min < t /\ t <= max /\ max <= n
      /\ size = IF max_bench_results < 0 THEN n ELSE Bench!Smaller(n, Bench!Larger(1, max_bench_results))
      /\ min > 0 /\ max < n => (t - 1 - min) - (max - t) \in 0 .. 1
      /\ Len(part) = size
      /\ \A i \in 1 .. size : part[i] = ranked[min + i]
      BY <1>1, PartFacts
<1>3. /\ rows = [i \in 1 .. Len(part) |-> [key |-> base + i, this |-> part[i].this, value |-> part[i].value]]
      /\ moreinfo = [k \in (base + 1) .. (base + Len(part)) |-> Bench!Details(part[k - base])]
      BY DEF Listed
<1>4. \A k, m \in 1 .. n : k <= m => NoWorseOf(b, ranked[k].value.result, ranked[m].value.result)
  <2>1. Len(Bench!Results(b)) = n
        BY ResultsFacts
  <2> QED BY <2>1, SortedResults
<1>5. \A k \in 1 .. n : ranked[k].value.result \in Int
  <2> DEFINE m == Len(Bench!Results(b))
  <2>1. m = n /\ \A i \in 1 .. n : Bench!Results(b)[i].value.result \in Int
        BY ResultsFacts
  <2>2. PICK a \in [1 .. m -> 1 .. m], z \in [1 .. m -> 1 .. m] :
          /\ \A k \in 1 .. m : z[a[k]] = k /\ a[z[k]] = k
          /\ \A k \in 1 .. m : ranked[k] = Bench!Results(b)[a[k]]
        BY SortedResults
  <2> HIDE DEF m, ranked, n
  <2> QED BY <2>1, <2>2
<1> DEFINE res(k) == ranked[k].value.result
<1>6. Len(rows) = size /\ \A i \in 1 .. size :
        rows[i] = [key |-> base + i, this |-> ranked[min + i].this, value |-> ranked[min + i].value]
  <2>1. size \in Nat
        BY <1>2 DEF size
  <2>2. Len(part) = size
        BY <1>2, Zenon
  <2>3. \A i \in 1 .. size : part[i] = ranked[min + i]
        BY <1>2, Zenon
  <2>4. rows = [i \in 1 .. Len(part) |-> [key |-> base + i, this |-> part[i].this, value |-> part[i].value]]
        BY <1>3, Zenon
  <2> HIDE DEF part, ranked, size, min
  <2>5. Len(rows) = size
        BY <2>1, <2>2, <2>4
  <2>6. ASSUME NEW i \in 1 .. size
        PROVE  rows[i] = [key |-> base + i, this |-> ranked[min + i].this, value |-> ranked[min + i].value]
    <3>1. rows[i] = [key |-> base + i, this |-> part[i].this, value |-> part[i].value]
          BY <2>2, <2>4, Zenon
    <3> QED BY <2>3, <3>1, Zenon
  <2> QED BY <2>5, <2>6, Zenon
<1>7. Len(Bench!ShownResults) = size /\ \A i \in 1 .. size : Bench!ShownResults[i] = res(min + i)
  <2>1. size \in Nat
        BY <1>2
  <2> HIDE DEF ranked, size
  <2> QED BY <1>6, <2>1 DEF Bench!ShownResults
<1>8. \A x \in Bench!CutOff : \E k \in 1 .. n : res(k) = x /\ (k <= min \/ k > max)
  <2> TAKE x \in Bench!CutOff
  <2>2. Len(Bench!ShownResults) = max - min /\ \A i \in 1 .. (max - min) : Bench!ShownResults[i] = Bench!Sorted(b)[min + i].value.result
        BY <1>7
  <2>3. min \in Nat /\ max \in Nat /\ min <= max /\ max <= Len(file) + 1
    <3> HIDE DEF w
    <3> QED BY <1>1, <1>2
  <2> HIDE DEF min, max
  <2>5. \E k \in 1 .. (Len(file) + 1) : Bench!Sorted(b)[k].value.result = x /\ (k <= min \/ k > max)
        BY <2>2, <2>3, CutOffOutside, Zenon
  <2> QED BY <2>5
<1> HIDE DEF ranked, part, w, n
<1>0. t \in Int /\ n \in Int /\ min \in Int /\ max \in Int /\ 0 <= min /\ min < t /\ t <= max /\ max <= n
  <2> HIDE DEF w, n
  <2> QED BY <1>1, <1>2
<1>9. /\ size \in Nat /\ size >= 1 /\ min + 1 \in 1 .. n /\ max \in 1 .. n /\ min + size = max
      /\ \A i \in 1 .. size : min + i \in 1 .. n
      /\ t - min \in 1 .. size /\ min + (t - min) = t
  <2> HIDE DEF min, max
  <2> QED BY <1>0
<1>10. Bench!ShownResults[1] = res(min + 1) /\ Bench!Last(Bench!ShownResults) = res(max)
       BY <1>7, <1>9 DEF Bench!Last
<1> DEFINE at == t - min
<1>11. \A i \in 1 .. size : rows[i].this <=> i = at
  <2> TAKE i \in 1 .. size
  <2>1. rows[i].this <=> ranked[min + i].this
        BY <1>6
  <2>2. ranked[min + i].this <=> min + i = t
        BY <1>1, <1>9
  <2> QED BY <1>2, <2>1, <2>2
<1>12. rows[at].value = measured[b]
  <2>1. rows[at].value = ranked[min + at].value
        BY <1>6, <1>9
  <2> QED BY <1>1, <1>9, <2>1
<1>13. \A i \in 1 .. (size - 1) : NoWorseOf(b, Bench!ShownResults[i], Bench!ShownResults[i + 1])
  <2> TAKE i \in 1 .. (size - 1)
  <2>1. i \in 1 .. size /\ i + 1 \in 1 .. size /\ min + i <= min + (i + 1)
    <3> HIDE DEF min, max
    <3> QED BY <1>0
  <2>2. min + i \in 1 .. n /\ min + (i + 1) \in 1 .. n
        BY <1>9, <2>1
  <2> QED BY <1>4, <1>7, <2>1, <2>2
<1>14. \A x \in Bench!CutOff : NoWorseOf(b, x, res(min + 1)) \/ NoWorseOf(b, res(max), x)
  <2> TAKE x \in Bench!CutOff
  <2>1. PICK k \in 1 .. n : res(k) = x /\ (k <= min \/ k > max)
        BY <1>8
  <2>2. k <= min + 1 \/ max <= k
        BY <1>2, <2>1
  <2> QED BY <1>4, <1>9, <2>1, <2>2
<1>15. Bench!Above # {} => min > 0
  <2> SUFFICES ASSUME NEW x \in Bench!CutOff, x # res(min + 1), NoWorseOf(b, x, res(min + 1)), min = 0
    PROVE FALSE
        BY <1>2, <1>10 DEF Bench!Above, Bench!NoWorse, NoWorseOf
  <2>1. PICK k \in 1 .. n : res(k) = x /\ (k <= min \/ k > max)
        BY <1>8
  <2>2. NoWorseOf(b, res(min + 1), x)
        BY <1>2, <1>4, <1>9, <2>1
  <2>3. x \in Int /\ res(min + 1) \in Int
        BY <1>5, <1>9, <2>1
  <2> HIDE DEF res
  <2> QED BY <2>2, <2>3 DEF NoWorseOf
<1>16. Bench!Below # {} => max < n
  <2> SUFFICES ASSUME NEW x \in Bench!CutOff, x # res(max), NoWorseOf(b, res(max), x), ~(max < n) PROVE FALSE
        BY <1>10 DEF Bench!Below, Bench!NoWorse, NoWorseOf
  <2>1. PICK k \in 1 .. n : res(k) = x /\ (k <= min \/ k > max)
        BY <1>8
  <2>2. NoWorseOf(b, x, res(max))
    <3>1. k <= max /\ max \in 1 .. n
          BY <1>0, <1>9, <2>1
    <3> QED BY <1>4, <2>1, <3>1
  <2>3. x \in Int /\ res(max) \in Int
        BY <1>5, <1>9, <2>1
  <2> HIDE DEF res
  <2> QED BY <2>2, <2>3 DEF NoWorseOf
<1>17. Bench!Above # {} /\ Bench!Below # {} => (at - 1) - (size - at) \in 0 .. 1
  <2>1. (at - 1) - (size - at) = (t - 1 - min) - (max - t)
        BY <1>1, <1>2
  <2> QED BY <1>2, <1>15, <1>16, <2>1
<1>18. \A i \in 1 .. size : moreinfo[rows[i].key] = Bench!Details(rows[i])
  <2> TAKE i \in 1 .. size
  <2>1. rows[i].key = base + i /\ base + i \in (base + 1) .. (base + size) /\ (base + i) - base = i
        BY <1>6, <1>9
  <2>2. moreinfo[rows[i].key] = Bench!Details(part[i])
        BY <1>2, <1>3, <2>1
  <2>3. part[i].value = rows[i].value
    <3>1. part[i] = ranked[min + i]
          BY <1>2
    <3>2. rows[i].value = ranked[min + i].value
          BY <1>6
    <3> QED BY <3>1, <3>2
  <2> QED BY <2>2, <2>3 DEF Bench!Details
<1>19. size = IF max_bench_results < 0 THEN Len(file) + 1
              ELSE Bench!Smaller(Len(file) + 1, Bench!Larger(1, max_bench_results))
       BY <1>2 DEF n
<1> HIDE DEF size, at, res
<1> SUFFICES /\ at \in 1 .. Len(rows)
             /\ \A i \in 1 .. Len(rows) : rows[i].this <=> i = at
             /\ rows[at].value = measured[shown]
             /\ Len(rows) = IF max_bench_results < 0 THEN Len(file) + 1
                            ELSE Bench!Smaller(Len(file) + 1, Bench!Larger(1, max_bench_results))
             /\ \A i \in 1 .. (Len(rows) - 1) : Bench!NoWorse(Bench!ShownResults[i], Bench!ShownResults[i + 1])
             /\ \A x \in Bench!CutOff : Bench!NoWorse(x, Bench!ShownResults[1])
                           \/ Bench!NoWorse(Bench!Last(Bench!ShownResults), x)
             /\ Bench!Above # {} /\ Bench!Below # {} => (at - 1) - (Len(rows) - at) \in 0 .. 1
             /\ \A i \in 1 .. Len(rows) : moreinfo[rows[i].key] = Bench!Details(rows[i])
    BY Zenon DEF Bench!AmongNeighbours
<1>20. Len(rows) = size
       BY <1>6
<1>21. at \in 1 .. size
       BY <1>9 DEF at, size
<1>22. \A x, y : Bench!NoWorse(x, y) <=> NoWorseOf(b, x, y)
       BY DEF Bench!NoWorse, NoWorseOf
<1> QED BY <1>10, <1>11, <1>12, <1>13, <1>14, <1>17, <1>18, <1>19, <1>20, <1>21, <1>22

Tabled ==
  /\ file \in BenchFiles /\ max_bench_results \in BenchAsked /\ ri \in Nat
  /\ measured \in [Bench!Benchmarks -> BenchMeasured \cup {Bench!EMPTY_BENCH_VALUE}]
  /\ bench_results = [b \in Bench!Benchmarks |-> Bench!Received(measured[b])]
  /\ shown \in Bench!Benchmarks \cup {None}
  /\ shown # None => \E base \in Nat : Listed(shown, base)

(* What is received is what was measured, with the note. *)
LEMMA ReceivedKeeps ==
  ASSUME NEW v, Value(v), v.result \in Int, v.revision \in Nat \cup {-1}
  PROVE  Bench!Received(v) = v
<1> DEFINE w == [v EXCEPT !.note = None]
<1>1. w = [result |-> v.result, threads |-> v.threads, revision |-> v.revision, extra |-> v.extra, note |-> None]
      BY DEF Value
<1>2. Value(w) /\ w.result \in Int /\ w.revision \in Nat \cup {-1} /\ w.note = None
      BY <1>1 DEF Value
<1> HIDE DEF w
<1>3. Bench!FromStr(Bench!ToStr(w)) = w
      BY <1>2, LineKeeps
<1>4. Bench!Received(v) = [w EXCEPT !.note = v.note]
      BY <1>3 DEF Bench!Received, w
<1> QED BY <1>1, <1>4 DEF Value

LEMMA ValuesFacts ==
  ASSUME NEW v \in BenchMeasured \cup {Bench!EMPTY_BENCH_VALUE}
  PROVE  v.result \in Int /\ Bench!Received(v) = v
<1>1. CASE v \in BenchMeasured
  <2>1. Value(v) /\ v.result \in Int /\ v.revision \in Nat \cup {-1}
        BY <1>1, ResultsAssumption DEF Value
  <2> QED BY <2>1, ReceivedKeeps
<1>2. CASE v = Bench!EMPTY_BENCH_VALUE
  <2>1. Value(v) /\ v.result \in Int /\ v.revision \in Nat \cup {-1}
        BY <1>2 DEF Value, Bench!EMPTY_BENCH_VALUE
  <2> QED BY <2>1, ReceivedKeeps
<1> QED BY <1>1, <1>2

LEMMA NumbersFacts == ASSUME file \in BenchFiles PROVE Numbers
<1>1. file \in Seq({file[i] : i \in DOMAIN file})
      BY ResultsAssumption
<1>2. DOMAIN file = 1 .. Len(file)
      BY <1>1
<1>3. \A i \in 1 .. Len(file) : Bench!Number(file[i], "BenchmarkResult") \in Int
      BY <1>2, ResultsAssumption
<1> QED BY <1>1, <1>3 DEF Numbers, Rated, Bench!FromJson

(* As many rows as there are in the window, with a result or without. *)
LEMMA ShownLength == ASSUME NEW b, file \in BenchFiles, max_bench_results \in Int
  PROVE Len(Bench!InWindow(Bench!Sorted(b))) \in Nat
<1> DEFINE others == [i \in 1 .. Len(file) |-> [this |-> FALSE, value |-> Bench!FromJson(file[i])]]
           me == [this |-> TRUE, value |-> bench_results[b]]
           mine == IF bench_results[b].result > 0 THEN <<me>> ELSE <<>>
           ranked == Bench!Sorted(b)
           loc == Bench!IndexOfThis(ranked)
           w == Bench!Window(Len(ranked), loc)
<1>1. Len(file) \in Nat
      BY NumbersFacts DEF Numbers
<1>2. Len(Bench!Results(b)) \in Nat
  <2>1. Len(others) = Len(file) /\ others \in Seq({others[i] : i \in 1 .. Len(file)})
    <3>1. others = [i \in 1 .. Len(file) |-> others[i]]
          OBVIOUS
    <3> HIDE DEF others
    <3> QED BY <1>1, <3>1
  <2>2. mine \in Seq({me})
    <3> HIDE DEF me
    <3>1. <<me>> \in Seq({me}) /\ <<>> \in Seq({me})
          OBVIOUS
    <3> QED BY <3>1
  <2>3. Bench!Results(b) = mine \o others
        BY DEF Bench!Results
  <2> HIDE DEF mine, others
  <2> DEFINE S == {me} \cup {others[i] : i \in 1 .. Len(file)}
  <2>5. mine \in Seq(S) /\ others \in Seq(S)
        BY <2>1, <2>2
  <2> HIDE DEF S
  <2>4. Len(mine \o others) = Len(mine) + Len(others) /\ Len(mine) \in Nat
        BY <2>5
  <2> QED BY <1>1, <2>1, <2>3, <2>4
<1>3. Len(ranked) \in Nat
  <2>1. Len(Bench!Ascending(Bench!Results(b))) = Len(Bench!Results(b))
        BY <1>2 DEF Bench!Ascending
  <2> HIDE DEF ranked
  <2>2. ranked = Bench!Ascending(Bench!Results(b)) \/ ranked = Bench!Reverse(Bench!Ascending(Bench!Results(b)))
        BY DEF Bench!Sorted, ranked
  <2> QED BY <1>2, <2>1, <2>2 DEF Bench!Reverse
<1> HIDE DEF ranked
<1>4. loc \in Int
      BY <1>3 DEF Bench!IndexOfThis
<1> HIDE DEF loc
<1>5. w.min \in Int /\ w.max \in Int
  <2>1. Bench!Size(Len(ranked)) \in Int /\ Bench!Size(Len(ranked)) \div 2 \in Int
        BY <1>3 DEF Bench!Size
  <2> DEFINE size == Bench!Size(Len(ranked))
             half == size \div 2
  <2>2. size \in Int /\ half \in Int
        BY <2>1
  <2>3. w = IF loc < 0 THEN [min |-> 0, max |-> Len(ranked)]
            ELSE IF loc - half < 0 THEN [min |-> 0, max |-> Bench!Smaller(size, Len(ranked))]
            ELSE IF (loc - half) + size > Len(ranked)
                          THEN [min |-> Bench!Larger(Len(ranked) - size, 0), max |-> Len(ranked)]
            ELSE [min |-> loc - half, max |-> (loc - half) + size]
        BY DEF Bench!Window
  <2> HIDE DEF size, half, w
  <2> QED BY <1>3, <1>4, <2>2, <2>3 DEF Bench!Smaller, Bench!Larger
<1>6. Bench!InWindow(ranked) = SubSeq(ranked, w.min + 1, w.max)
      BY DEF Bench!InWindow, loc
<1> HIDE DEF w
<1> DEFINE m == w.min + 1
           k == w.max
           S == {ranked[i] : i \in m .. k}
<1>7. m \in Int /\ k \in Int /\ \A i \in m .. k : ranked[i] \in S
      BY <1>5
<1> HIDE DEF m, k, S
<1>8. Len(SubSeq(ranked, m, k)) = IF m <= k THEN k - m + 1 ELSE 0
      BY ONLY <1>7, SubSeqProperties
<1>9. Len(SubSeq(ranked, m, k)) \in Nat
      BY <1>7, <1>8
<1> QED BY <1>6, <1>9 DEF m, k, ranked

LEMMA TabledInit == ASSUME Bench!Init PROVE Tabled
<1>1. /\ file \in BenchFiles /\ max_bench_results \in BenchAsked /\ ri = 0 /\ shown = None
      /\ measured = [b \in Bench!Benchmarks |-> Bench!EMPTY_BENCH_VALUE] /\ bench_results = measured
      BY DEF Bench!Init
<1>2. Bench!Received(Bench!EMPTY_BENCH_VALUE) = Bench!EMPTY_BENCH_VALUE
      BY ValuesFacts DEF Bench!EMPTY_BENCH_VALUE
<1>3. bench_results = [b \in Bench!Benchmarks |-> Bench!Received(measured[b])]
      BY <1>1, <1>2
<1> QED BY <1>1, <1>3 DEF Tabled

LEMMA TabledNext == ASSUME Tabled, Bench!Next PROVE Tabled'
<1>1. ASSUME NEW b \in Bench!Benchmarks, Bench!Run(b) PROVE Tabled'
  <2>1. PICK v \in BenchMeasured : /\ measured' = [measured EXCEPT ![b] = v]
                              /\ bench_results' = [bench_results EXCEPT ![b] = Bench!Received(v)]
        BY <1>1 DEF Bench!Run
  <2>2. /\ shown' = (IF shown = b THEN None ELSE shown)
        /\ UNCHANGED <<max_bench_results, file, rows, moreinfo, ri>>
        BY <1>1 DEF Bench!Run
  <2>3. measured' \in [Bench!Benchmarks -> BenchMeasured \cup {Bench!EMPTY_BENCH_VALUE}]
        BY <2>1 DEF Tabled
  <2>4. bench_results' = [c \in Bench!Benchmarks |-> Bench!Received(measured'[c])]
    <3>1. \A c \in Bench!Benchmarks : measured'[c] = IF c = b THEN v ELSE measured[c]
          BY <2>1 DEF Tabled
    <3>2. bench_results' = [c \in Bench!Benchmarks |-> IF c = b THEN Bench!Received(v)
                  ELSE Bench!Received(measured[c])]
          BY <2>1 DEF Tabled
    <3> QED BY <3>1, <3>2
  <2>5. ASSUME shown' # None PROVE \E base \in Nat : Listed(shown, base)'
    <3>1. shown' = shown /\ shown # b /\ shown # None /\ shown \in Bench!Benchmarks
          BY <2>2, <2>5 DEF Tabled
    <3>2. PICK base \in Nat : Listed(shown, base)
          BY <3>1 DEF Tabled
    <3>3. bench_results'[shown'] = bench_results[shown]
          BY <2>1, <3>1 DEF Tabled
    <3>4. Bench!Results(shown)' = Bench!Results(shown)
          BY <2>2, <3>1, <3>3 DEF Bench!Results
    <3>5. Bench!Sorted(shown)' = Bench!Sorted(shown)
          BY <3>1, <3>4 DEF Bench!Sorted
    <3>6. Bench!InWindow(Bench!Sorted(shown))' = Bench!InWindow(Bench!Sorted(shown))
          BY <2>2, <3>5 DEF Bench!InWindow, Bench!Window, Bench!Size
    <3>7. Listed(shown, base)'
          BY <2>2, <3>2, <3>6 DEF Listed
    <3> QED BY <3>7
  <2> QED BY <2>2, <2>3, <2>4, <2>5 DEF Tabled
<1>2. ASSUME NEW b \in Bench!Benchmarks, Bench!Show(b) PROVE Tabled'
  <2> DEFINE part == Bench!InWindow(Bench!Sorted(b))
  <2>1. /\ rows' = [i \in 1 .. Len(part) |-> [key |-> ri + i, this |-> part[i].this, value |-> part[i].value]]
        /\ moreinfo' = [k \in (ri + 1) .. (ri + Len(part)) |-> Bench!Details(part[k - ri])]
        /\ ri' = ri + Len(part) /\ shown' = b
        /\ UNCHANGED <<max_bench_results, file, measured, bench_results>>
        BY <1>2 DEF Bench!Show
  <2>2. Len(part) \in Nat
        BY ShownLength, ResultsAssumption DEF Tabled
  <2>3. part' = part
    <3>1. Bench!Results(b)' = Bench!Results(b)
          BY <2>1 DEF Bench!Results
    <3>2. Bench!Sorted(b)' = Bench!Sorted(b)
          BY <3>1 DEF Bench!Sorted
    <3> QED BY <2>1, <3>2 DEF Bench!InWindow, Bench!Window, Bench!Size
  <2> HIDE DEF part
  <2>4. ri' \in Nat
        BY <2>1, <2>2 DEF Tabled
  <2>5. \E base \in Nat : Listed(shown, base)'
    <3>1. Bench!InWindow(Bench!Sorted(shown))' = part
          BY <2>1, <2>3 DEF part
    <3>2. rows' = [i \in 1 .. Len(part) |-> [key |-> ri + i, this |-> part[i].this, value |-> part[i].value]]
          /\ moreinfo' = [k \in (ri + 1) .. (ri + Len(part)) |-> Bench!Details(part[k - ri])]
          BY <2>1
    <3>3. PICK base \in Nat : base = ri
          BY DEF Tabled
    <3>4. Listed(shown, base)'
          BY <3>1, <3>2, <3>3 DEF Listed
    <3> QED BY <3>4
  <2> QED BY <2>1, <2>4, <2>5 DEF Tabled
<1> QED BY <1>1, <1>2 DEF Bench!Next

LEMMA TabledStays == ASSUME Tabled, UNCHANGED Bench!vars PROVE Tabled'
<1>1. UNCHANGED <<max_bench_results, file, measured, bench_results, rows, shown, moreinfo, ri, lists>>
      BY DEF Bench!vars
<1>2. ASSUME shown' # None PROVE \E base \in Nat : Listed(shown, base)'
  <2>1. PICK base \in Nat : Listed(shown, base)
        BY <1>1, <1>2 DEF Tabled
  <2>2. Bench!Results(shown)' = Bench!Results(shown)
        BY <1>1 DEF Bench!Results
  <2>3. Bench!Sorted(shown)' = Bench!Sorted(shown)
        BY <1>1, <2>2 DEF Bench!Sorted
  <2>4. Bench!InWindow(Bench!Sorted(shown))' = Bench!InWindow(Bench!Sorted(shown))
        BY <1>1, <2>3 DEF Bench!InWindow, Bench!Window, Bench!Size
  <2>5. Listed(shown, base)'
        BY <1>1, <2>1, <2>4 DEF Listed
  <2> QED BY <2>5
<1> QED BY <1>1, <1>2 DEF Tabled

LEMMA TabledFacts == ASSUME Tabled PROVE Bench!AmongNeighbours
<1> SUFFICES ASSUME shown # None, bench_results[shown].result > 0 PROVE Bench!AmongNeighbours
    BY DEF Bench!AmongNeighbours
<1>1. shown \in Bench!Benchmarks /\ bench_results[shown] = Bench!Received(measured[shown])
      /\ measured[shown] \in BenchMeasured \cup {Bench!EMPTY_BENCH_VALUE}
      BY DEF Tabled
<1>2. bench_results[shown].result \in Int
      /\ bench_results[shown] = measured[shown]
      BY <1>1, ValuesFacts
<1>3. PICK base \in Nat : Listed(shown, base)
      BY DEF Tabled
<1>4. Numbers /\ max_bench_results \in Int
      BY NumbersFacts, ResultsAssumption DEF Tabled
<1> QED BY <1>2, <1>3, <1>4, ListedAmong

(* A list of benchmark results has this machine's among as many of the      *)
(* nearest others as were asked for, in order, each with its own details,   *)
(* whatever the file holds, how many are shown and what was measured.       *)
THEOREM NeighboursForAll == ProgramSpec => []AmongNeighbours
<1> DEFINE I == live = "benchmarks" => Tabled
<1>1. ProgramInit => I
      BY TabledInit DEF ProgramInit, Own
<1>2. I /\ [ProgramNext]_its => I'
  <2>1. ASSUME I, ProgramNext, live = "benchmarks" PROVE Tabled'
        BY <2>1, TabledNext DEF ProgramNext, Own
  <2>2. ASSUME Tabled, UNCHANGED its PROVE Tabled'
    <3>1. UNCHANGED Bench!vars
          BY <2>2 DEF its
    <3> QED BY <2>2, <3>1, TabledStays
  <2> QED BY <2>1, <2>2, LiveStays DEF its
<1>3. I => AmongNeighbours
      BY TabledFacts DEF AmongNeighbours
<1> HIDE DEF I
<1> QED BY <1>1, <1>2, <1>3, PTL DEF ProgramSpec

-----------------------------------------------------------------------------
(* Reports: what has been printed is what is asked for of the entries that  *)
(* are done and of the rows before this one, in their order.                *)
TheRows(at) == Rep!Entry(at).rows
TicksAgree == \A at \in Rep!AllEntries : sel[at] => sel[<<at[1], 0>>]
Printed(x) ==
  \/ x.at \in Rep!Ticked \ todo
  \/ /\ pc \in {"rows", "details"} /\ x.at = Rep!First
     /\ x.row <= row \/ (pc = "details" /\ x.row = row + 1 /\ x.detail = 0)

(* The columns are those of the entry, but for its details in HTML. *)
OwnColumns ==
  LET own == Rep!Entry(Rep!First).columns
  IN /\ in_details <=> pc = "details"
     /\ pc = "rows" /\ format # "shell" => columns = own
     /\ pc = "details" /\ format = "html" => columns = {} /\ parent_columns = own
     /\ pc = "details" /\ format = "text" => columns = own

Printing ==
  /\ format \in {"html", "text", "shell"}
  /\ todo \subseteq Rep!Ticked
  /\ \A a \in Rep!Ticked \ todo, b \in todo : Rep!Before(a, b)
  /\ pc \in {"rows", "details"} => todo # {} /\ row \in 0 .. Len(TheRows(Rep!First))
  /\ pc = "details" => row < Len(TheRows(Rep!First)) /\ Rep!WithDetails
  /\ output \in Seq(Rep!Expected)
  /\ {output[i] : i \in DOMAIN output} = {x \in Rep!Expected : Printed(x)}
  /\ \A i, j \in DOMAIN output : i < j => Rep!Earlier(output[i], output[j])
  /\ OwnColumns

Reported ==
  /\ pc \in {"dialog", "failed", "subtitle", "rows", "details", "saved"}
  /\ sel \in [Rep!RowsOfTree -> BOOLEAN] /\ TicksAgree
  /\ pc = "dialog" => output = <<>> /\ in_details = FALSE
  /\ pc \in {"subtitle", "rows", "details"} => Printing
  /\ Rep!ReportIsAsTicked

(* Entries are pairs of numbers, in a total order; of some of them there is *)
(* a first.                                                                 *)
LEMMA EntryFacts ==
  ASSUME NEW at \in Rep!AllEntries
  PROVE  /\ at = <<at[1], at[2]>> /\ at[1] \in 1 .. Len(RepTree) /\ at[2] \in 1 .. Len(RepTree[at[1]])
         /\ at[1] \in Nat /\ at[2] \in Nat /\ at[2] # 0
         /\ Len(TheRows(at)) \in Nat
         /\ \A i \in 1 .. Len(TheRows(at)) : TheRows(at)[i].details \in Nat \cup {None}
<1>1. PICK m \in 1 .. Len(RepTree) : at \in Rep!EntriesOf(m)
      BY DEF Rep!AllEntries, Rep!ModulesIn
<1>2. PICK e \in 1 .. Len(RepTree[m]) : at = <<m, e>>
      BY <1>1 DEF Rep!EntriesOf
<1>3. at[1] = m /\ at[2] = e
      BY <1>2
<1>4. m \in Nat /\ e \in Nat /\ e # 0
      BY <1>1, <1>2, ReportAssumption
<1>5. TheRows(at) = RepTree[m][e].rows
      BY <1>3 DEF TheRows, Rep!Entry
<1> QED BY <1>1, <1>2, <1>3, <1>4, <1>5, ReportAssumption

LEMMA BeforeFacts ==
  /\ \A a, b, c \in Rep!AllEntries : Rep!Before(a, b) /\ Rep!Before(b, c) => Rep!Before(a, c)
  /\ \A a, b \in Rep!AllEntries : ~ (Rep!Before(a, b) /\ Rep!Before(b, a))
  /\ \A a, b \in Rep!AllEntries : a = b \/ Rep!Before(a, b) \/ Rep!Before(b, a)
<1>1. \A a \in Rep!AllEntries : a = <<a[1], a[2]>> /\ a[1] \in Nat /\ a[2] \in Nat
      BY EntryFacts
<1>2. ASSUME NEW a \in Rep!AllEntries, NEW b \in Rep!AllEntries
      PROVE  a = b \/ Rep!Before(a, b) \/ Rep!Before(b, a)
  <2>1. /\ a = <<a[1], a[2]>> /\ a[1] \in Nat /\ a[2] \in Nat
        /\ b = <<b[1], b[2]>> /\ b[1] \in Nat /\ b[2] \in Nat
        BY <1>1
  <2>2. a[1] = b[1] /\ a[2] = b[2] => a = b
        BY <2>1
  <2> QED BY <2>1, <2>2 DEF Rep!Before
<1>3. ASSUME NEW a \in Rep!AllEntries, NEW b \in Rep!AllEntries PROVE ~ (Rep!Before(a, b) /\ Rep!Before(b, a))
  <2>1. a[1] \in Nat /\ a[2] \in Nat /\ b[1] \in Nat /\ b[2] \in Nat
        BY <1>1
  <2> QED BY <2>1 DEF Rep!Before
<1>4. ASSUME NEW a \in Rep!AllEntries, NEW b \in Rep!AllEntries, NEW c \in Rep!AllEntries,
             Rep!Before(a, b), Rep!Before(b, c)
      PROVE  Rep!Before(a, c)
  <2>1. a[1] \in Nat /\ a[2] \in Nat /\ b[1] \in Nat /\ b[2] \in Nat /\ c[1] \in Nat /\ c[2] \in Nat
        BY <1>1
  <2> QED BY <1>4, <2>1 DEF Rep!Before
<1> QED BY <1>2, <1>3, <1>4

LEMMA FirstFacts ==
  ASSUME todo \subseteq Rep!AllEntries, todo # {}
  PROVE  Rep!First \in todo /\ \A other \in todo : other # Rep!First => Rep!Before(Rep!First, other)
<1>1. \A a \in todo : a \in Rep!AllEntries /\ a[1] \in Nat /\ a[2] \in Nat
      BY EntryFacts
<1>2. PICK m \in {a[1] : a \in todo} : \A k \in {a[1] : a \in todo} : m <= k
  <2>1. {a[1] : a \in todo} \subseteq Nat /\ {a[1] : a \in todo} # {}
        BY <1>1
  <2> QED BY <2>1, Least
<1>3. PICK e \in {a[2] : a \in {b \in todo : b[1] = m}} :
        \A k \in {a[2] : a \in {b \in todo : b[1] = m}} : e <= k
  <2>1. {a[2] : a \in {b \in todo : b[1] = m}} \subseteq Nat /\ {a[2] : a \in {b \in todo : b[1] = m}} # {}
        BY <1>1, <1>2
  <2> QED BY <2>1, Least
<1>4. PICK at \in todo : at[1] = m /\ at[2] = e
      BY <1>3
<1>5. ASSUME NEW other \in todo, other # at PROVE Rep!Before(at, other)
  <2>1. m <= other[1] /\ (other[1] = m => e <= other[2])
        BY <1>2, <1>3
  <2>2. ~ Rep!Before(other, at)
        BY <1>1, <1>4, <2>1 DEF Rep!Before
  <2>3. at \in Rep!AllEntries /\ other \in Rep!AllEntries
        BY <1>1
  <2> QED BY <1>5, <2>2, <2>3, BeforeFacts
<1> QED BY <1>4, <1>5 DEF Rep!First

(* The lines that are asked for: of a row, the main one and its details.    *)
MainLine(at, i) ==
  LET parts == TheRows(at)[i].parts
      cols == 2 + Rep!Cardinality(Rep!Entry(at).columns)
  IN Rep!Line(at, i, 0, IF format = "shell" \/ cols = 2 THEN 1 ELSE IF parts < cols THEN parts ELSE cols)
Asked(at, i) == TheRows(at)[i].details # None /\ (TheRows(at)[i].wants \/ force_all_details)

LEMMA LineFacts ==
  ASSUME NEW at, NEW i, TheRows(at)[i].details \in Nat \cup {None}
  PROVE  /\ MainLine(at, i) \in Rep!LinesOf(at, i)
         /\ \A x \in Rep!LinesOf(at, i) :
              /\ x.at = at /\ x.row = i /\ x.detail \in Nat
              /\ x.detail = 0 => x = MainLine(at, i)
              /\ x.detail # 0 =>
                   /\ Asked(at, i) /\ x.detail \in 1 .. TheRows(at)[i].details
                   /\ x = Rep!Line(at, i, x.detail, 1)
         /\ Asked(at, i) =>
              \A n \in 1 .. TheRows(at)[i].details : Rep!Line(at, i, n, 1) \in Rep!LinesOf(at, i)
<1> DEFINE d == TheRows(at)[i].details
<1>1. \A x : x \in Rep!LinesOf(at, i) <=> x = MainLine(at, i)
                                         \/ (Asked(at, i) /\ \E n \in 1 .. d : x = Rep!Line(at, i, n, 1))
  <2> TAKE x
  <2>1. TheRows(at)[i] = Rep!Entry(at).rows[i]
        BY DEF TheRows
  <2> QED BY <2>1, Zenon DEF Rep!LinesOf, MainLine, Asked
<1>2. Asked(at, i) => d \in Nat
      BY DEF Asked
<1>3. \A n, c : LET x == Rep!Line(at, i, n, c) IN x.at = at /\ x.row = i /\ x.detail = n
      BY DEF Rep!Line
<1>4. MainLine(at, i).at = at /\ MainLine(at, i).row = i /\ MainLine(at, i).detail = 0
      BY <1>3 DEF MainLine
<1> HIDE DEF d
<1>5. ASSUME NEW x \in Rep!LinesOf(at, i)
      PROVE  /\ x.at = at /\ x.row = i /\ x.detail \in Nat
             /\ x.detail = 0 => x = MainLine(at, i)
             /\ x.detail # 0 => Asked(at, i) /\ x.detail \in 1 .. d /\ x = Rep!Line(at, i, x.detail, 1)
  <2>1. CASE x = MainLine(at, i)
        BY <1>4, <2>1
  <2>2. CASE Asked(at, i) /\ \E n \in 1 .. d : x = Rep!Line(at, i, n, 1)
    <3>1. PICK n \in 1 .. d : x = Rep!Line(at, i, n, 1)
          BY <2>2
    <3>2. n \in Nat /\ n # 0 /\ x.detail = n /\ x.at = at /\ x.row = i
          BY <1>2, <1>3, <2>2, <3>1
    <3> QED BY <2>2, <3>1, <3>2
  <2> QED BY <1>1, <2>1, <2>2
<1> QED BY <1>1, <1>5 DEF d

LEMMA ExpectedFacts ==
  /\ Rep!Ticked \subseteq Rep!AllEntries
  /\ \A x \in Rep!Expected :
       /\ x.at \in Rep!Ticked /\ x.row \in 1 .. Len(TheRows(x.at))
       /\ x \in Rep!LinesOf(x.at, x.row) /\ x.detail \in Nat
  /\ \A at \in Rep!Ticked : \A i \in 1 .. Len(TheRows(at)) : Rep!LinesOf(at, i) \subseteq Rep!Expected
<1>1. Rep!Ticked \subseteq Rep!AllEntries
      BY DEF Rep!Ticked
<1>2. ASSUME NEW x \in Rep!Expected
      PROVE  /\ x.at \in Rep!Ticked /\ x.row \in 1 .. Len(TheRows(x.at))
             /\ x \in Rep!LinesOf(x.at, x.row) /\ x.detail \in Nat
  <2>1. PICK at \in Rep!Ticked : \E i \in 1 .. Len(TheRows(at)) : x \in Rep!LinesOf(at, i)
        BY DEF Rep!Expected, TheRows
  <2>2. PICK i \in 1 .. Len(TheRows(at)) : x \in Rep!LinesOf(at, i)
        BY <2>1
  <2>3. TheRows(at)[i].details \in Nat \cup {None}
        BY <1>1, EntryFacts
  <2>4. x.at = at /\ x.row = i /\ x.detail \in Nat
        BY <2>2, <2>3, LineFacts
  <2> QED BY <2>2, <2>4
<1>3. ASSUME NEW at \in Rep!Ticked, NEW i \in 1 .. Len(TheRows(at))
      PROVE  Rep!LinesOf(at, i) \subseteq Rep!Expected
      BY DEF Rep!Expected, TheRows
<1> QED BY <1>1, <1>2, <1>3

LEMMA SameAsked ==
  ASSUME UNCHANGED <<sel, format, force_all_details>>
  PROVE  Rep!Expected' = Rep!Expected /\ Rep!Ticked' = Rep!Ticked
<1>1. Rep!Ticked' = Rep!Ticked
      BY DEF Rep!Ticked
<1> QED BY <1>1 DEF Rep!Expected, Rep!LinesOf

(* Lines that come after all that were printed. *)
LEMMA MoreLines ==
  ASSUME NEW S, NEW out \in Seq(S), NEW more \in Seq(S),
         \A i, j \in 1 .. Len(out) : i < j => Rep!Earlier(out[i], out[j]),
         \A i, j \in 1 .. Len(more) : i < j => Rep!Earlier(more[i], more[j]),
         \A i \in 1 .. Len(out) : \A j \in 1 .. Len(more) : Rep!Earlier(out[i], more[j])
  PROVE  LET s == out \o more
         IN /\ s \in Seq(S)
            /\ {s[i] : i \in DOMAIN s} = {out[i] : i \in DOMAIN out} \cup {more[i] : i \in DOMAIN more}
            /\ \A i, j \in DOMAIN s : i < j => Rep!Earlier(s[i], s[j])
<1> DEFINE s == out \o more
           m == Len(out)
           n == Len(more)
<1>1. /\ m \in Nat /\ n \in Nat /\ s \in Seq(S) /\ Len(s) = m + n
      /\ DOMAIN s = 1 .. (m + n) /\ DOMAIN out = 1 .. m /\ DOMAIN more = 1 .. n
      OBVIOUS
<1>2. \A i \in 1 .. (m + n) : s[i] = IF i <= m THEN out[i] ELSE more[i - m]
      OBVIOUS
<1> HIDE DEF s, m, n
<1>3. {s[i] : i \in 1 .. (m + n)} = {out[i] : i \in 1 .. m} \cup {more[i] : i \in 1 .. n}
  <2>1. \A i \in 1 .. m : i \in 1 .. (m + n) /\ s[i] = out[i]
        BY <1>1, <1>2
  <2>2. \A i \in 1 .. n : m + i \in 1 .. (m + n) /\ s[m + i] = more[i]
    <3> TAKE i \in 1 .. n
    <3>1. m + i \in 1 .. (m + n) /\ ~ (m + i <= m) /\ (m + i) - m = i
          BY <1>1
    <3> QED BY <1>2, <3>1
  <2>3. \A i \in 1 .. (m + n) : i \in 1 .. m \/ i - m \in 1 .. n
        BY <1>1
  <2>4. \A i \in 1 .. (m + n) : (i \in 1 .. m /\ s[i] = out[i]) \/ (i - m \in 1 .. n /\ s[i] = more[i - m])
        BY <1>1, <1>2
  <2> QED BY <2>1, <2>2, <2>4
<1>4. ASSUME NEW i \in 1 .. (m + n), NEW j \in 1 .. (m + n), i < j PROVE Rep!Earlier(s[i], s[j])
  <2>1. CASE j <= m
    <3>1. i \in 1 .. m /\ j \in 1 .. m
          BY <1>1, <1>4, <2>1
    <3> QED BY <1>2, <1>4, <2>1, <3>1 DEF m
  <2>2. CASE i <= m /\ ~ (j <= m)
    <3>1. i \in 1 .. m /\ j - m \in 1 .. n
          BY <1>1, <2>2
    <3> QED BY <1>2, <2>2, <3>1 DEF m, n
  <2>3. CASE ~ (i <= m)
    <3>1. i - m \in 1 .. n /\ j - m \in 1 .. n /\ i - m < j - m /\ ~ (j <= m)
          BY <1>1, <1>4, <2>3
    <3> QED BY <1>2, <2>3, <3>1 DEF m, n
  <2> QED BY <1>1, <2>1, <2>2, <2>3
<1> QED BY <1>1, <1>3, <1>4 DEF s

(* The dialog: a ticked entry is of a ticked module. *)
LEMMA RowFacts ==
  /\ \A at \in Rep!AllEntries :
       /\ at \in Rep!EntriesOf(at[1]) /\ at \in Rep!RowsOfTree /\ at # <<at[1], 0>>
       /\ <<at[1], 0>> \in Rep!RowsOfTree
  /\ \A at \in Rep!RowsOfTree : <<at[1], 0>> \in Rep!RowsOfTree /\ (at[2] = 0 => at = <<at[1], 0>>)
<1>1. ASSUME NEW at \in Rep!AllEntries
      PROVE  /\ at \in Rep!EntriesOf(at[1]) /\ at \in Rep!RowsOfTree /\ at # <<at[1], 0>>
             /\ <<at[1], 0>> \in Rep!RowsOfTree
  <2>1. at = <<at[1], at[2]>> /\ at[1] \in 1 .. Len(RepTree) /\ at[2] \in 1 .. Len(RepTree[at[1]]) /\ at[2] # 0
        BY EntryFacts
  <2> QED BY <2>1 DEF Rep!EntriesOf, Rep!RowsOfTree, Rep!ModulesIn
<1>2. ASSUME NEW at \in Rep!RowsOfTree
      PROVE  <<at[1], 0>> \in Rep!RowsOfTree /\ (at[2] = 0 => at = <<at[1], 0>>)
  <2>1. CASE at \in Rep!AllEntries
        BY <1>1, <2>1, EntryFacts
  <2>2. CASE at \in {<<m, 0>> : m \in Rep!ModulesIn}
        BY <2>2 DEF Rep!RowsOfTree
  <2> QED BY <2>1, <2>2 DEF Rep!RowsOfTree
<1> QED BY <1>1, <1>2

LEMMA AllTicked ==
  ASSUME NEW ticks \in [Rep!RowsOfTree -> BOOLEAN], NEW on \in BOOLEAN
  PROVE  LET all == Rep!AllActive(on, ticks)
         IN /\ all \in [Rep!RowsOfTree -> BOOLEAN]
            /\ \A at \in Rep!AllEntries : all[at] = on /\ all[<<at[1], 0>>] = on
<1>1. \A at \in Rep!RowsOfTree : Rep!AllActive(on, ticks)[at] = IF Rep!EntriesOf(at[1]) = {} THEN ticks[at] ELSE on
      BY DEF Rep!AllActive
<1>2. Rep!AllActive(on, ticks) \in [Rep!RowsOfTree -> BOOLEAN]
      BY DEF Rep!AllActive
<1>3. ASSUME NEW at \in Rep!AllEntries
      PROVE  Rep!AllActive(on, ticks)[at] = on /\ Rep!AllActive(on, ticks)[<<at[1], 0>>] = on
  <2>1. Rep!EntriesOf(at[1]) # {} /\ at \in Rep!RowsOfTree /\ <<at[1], 0>> \in Rep!RowsOfTree
        BY RowFacts
  <2>2. <<at[1], 0>>[1] = at[1]
        OBVIOUS
  <2> QED BY <1>1, <2>1, <2>2
<1> QED BY <1>2, <1>3

LEMMA ToggleAgrees ==
  ASSUME NEW at \in Rep!RowsOfTree, sel \in [Rep!RowsOfTree -> BOOLEAN], TicksAgree, Rep!Toggle(at)
  PROVE  sel' \in [Rep!RowsOfTree -> BOOLEAN] /\ TicksAgree'
<1> DEFINE on == ~ sel[at]
           ticked == [sel EXCEPT ![at] = on]
           below == IF at[2] = 0 THEN Rep!WithChildren(at[1], on, ticked) ELSE ticked
           after == IF on THEN [below EXCEPT ![<<at[1], 0>>] = TRUE] ELSE below
<1>1. sel' = after
      BY Zenon DEF Rep!Toggle
<1>2. on \in BOOLEAN /\ ticked \in [Rep!RowsOfTree -> BOOLEAN]
      OBVIOUS
<1>3. \A b \in Rep!RowsOfTree : ticked[b] = IF b = at THEN on ELSE sel[b]
      OBVIOUS
<1> HIDE DEF ticked
<1>4. /\ below \in [Rep!RowsOfTree -> BOOLEAN]
      /\ \A b \in Rep!RowsOfTree :
           below[b] = IF at[2] = 0 /\ Rep!EntriesOf(at[1]) # {} /\ b[1] = at[1] THEN on ELSE ticked[b]
      BY <1>2 DEF Rep!WithChildren
<1> HIDE DEF below
<1>5. /\ after \in [Rep!RowsOfTree -> BOOLEAN]
      /\ \A b \in Rep!RowsOfTree : after[b] = IF on /\ b = <<at[1], 0>> THEN TRUE ELSE below[b]
      BY <1>2, <1>4
<1> HIDE DEF after
<1>6. ASSUME NEW b \in Rep!AllEntries, after[b] PROVE after[<<b[1], 0>>]
  <2>1. /\ b \in Rep!EntriesOf(b[1]) /\ b \in Rep!RowsOfTree /\ b # <<b[1], 0>>
        /\ <<b[1], 0>> \in Rep!RowsOfTree
        BY RowFacts
  <2>2. /\ <<at[1], 0>> \in Rep!RowsOfTree /\ (at[2] = 0 => at = <<at[1], 0>>)
        /\ <<b[1], 0>>[1] = b[1] /\ <<at[1], 0>>[1] = at[1]
        BY RowFacts
  <2>3. sel[b] => sel[<<b[1], 0>>]
        BY DEF TicksAgree
  <2>4. CASE b[1] # at[1]
    <3>1. b # at /\ <<b[1], 0>> # at /\ b # <<at[1], 0>> /\ <<b[1], 0>> # <<at[1], 0>>
          BY <2>2, <2>4
    <3>2. after[b] = sel[b] /\ after[<<b[1], 0>>] = sel[<<b[1], 0>>]
          BY <1>3, <1>4, <1>5, <2>1, <2>2, <2>4, <3>1
    <3> QED BY <1>6, <2>3, <3>2
  <2>5. CASE b[1] = at[1] /\ on
        BY <1>5, <2>1, <2>5
  <2>6. CASE b[1] = at[1] /\ ~ on
    <3>1. CASE at[2] = 0
      <4>1. after[b] = on
            BY <1>4, <1>5, <2>1, <2>6, <3>1
      <4> QED BY <1>6, <2>6, <4>1
    <3>2. CASE at[2] # 0
      <4>1. <<b[1], 0>> # at
            BY <3>2
      <4>2. after[<<b[1], 0>>] = sel[<<b[1], 0>>]
            BY <1>3, <1>4, <1>5, <2>1, <2>6, <3>2, <4>1
      <4>3. after[b] => sel[b]
            BY <1>3, <1>4, <1>5, <2>1, <2>6, <3>2
      <4> QED BY <1>6, <2>3, <4>2, <4>3
    <3> QED BY <3>1, <3>2
  <2> QED BY <2>4, <2>5, <2>6
<1>7. TicksAgree'
      BY <1>1, <1>6 DEF TicksAgree, Rep!AllEntries, Rep!EntriesOf, Rep!ModulesIn
<1> QED BY <1>1, <1>5, <1>7

LEMMA ReportedInit == ASSUME Rep!Init PROVE Reported
<1>1. [at \in Rep!RowsOfTree |-> FALSE] \in [Rep!RowsOfTree -> BOOLEAN]
      OBVIOUS
<1>2. sel \in [Rep!RowsOfTree -> BOOLEAN] /\ \A at \in Rep!AllEntries : sel[at] = TRUE /\ sel[<<at[1], 0>>] = TRUE
      BY <1>1, AllTicked DEF Rep!Init
<1>3. TicksAgree
      BY <1>2 DEF TicksAgree
<1> QED BY <1>2, <1>3 DEF Reported, Rep!Init, Rep!ReportIsAsTicked

(* What has been printed stays, in front of more. *)
LEMMA PrintMore ==
  ASSUME Printing, NEW more \in Seq(Rep!Expected),
         \A i, j \in 1 .. Len(more) : i < j => Rep!Earlier(more[i], more[j]),
         \A x \in Rep!Expected : Printed(x) => \A j \in 1 .. Len(more) : Rep!Earlier(x, more[j])
  PROVE  LET s == output \o more
         IN /\ s \in Seq(Rep!Expected)
            /\ {s[i] : i \in DOMAIN s} = {x \in Rep!Expected : Printed(x)} \cup {more[i] : i \in DOMAIN more}
            /\ \A i, j \in DOMAIN s : i < j => Rep!Earlier(s[i], s[j])
<1>1. /\ output \in Seq(Rep!Expected)
      /\ {output[i] : i \in DOMAIN output} = {x \in Rep!Expected : Printed(x)}
      /\ \A i, j \in DOMAIN output : i < j => Rep!Earlier(output[i], output[j])
      BY DEF Printing
<1>2. DOMAIN output = 1 .. Len(output)
      BY <1>1
<1>3. \A i \in 1 .. Len(output) : output[i] \in Rep!Expected /\ Printed(output[i])
      BY <1>1, <1>2
<1>4. \A i \in 1 .. Len(output) : \A j \in 1 .. Len(more) : Rep!Earlier(output[i], more[j])
      BY <1>3
<1>5. \A i, j \in 1 .. Len(output) : i < j => Rep!Earlier(output[i], output[j])
      BY <1>1, <1>2
<1>6. LET s == output \o more
      IN /\ s \in Seq(Rep!Expected)
         /\ {s[i] : i \in DOMAIN s} = {output[i] : i \in DOMAIN output} \cup {more[i] : i \in DOMAIN more}
         /\ \A i, j \in DOMAIN s : i < j => Rep!Earlier(s[i], s[j])
  <2>1. output \in Seq(Rep!Expected)
        BY <1>1
  <2> HIDE DEF Printing
  <2> QED BY <1>4, <1>5, <2>1, MoreLines, Zenon
<1>7. {output[i] : i \in DOMAIN output} = {x \in Rep!Expected : Printed(x)}
      BY <1>1
<1> QED BY <1>6, <1>7, Zenon

LEMMA AtFirst ==
  ASSUME Printing, todo # {}
  PROVE  /\ Rep!First \in todo /\ Rep!First \in Rep!Ticked /\ Rep!First \in Rep!AllEntries
         /\ Len(TheRows(Rep!First)) \in Nat
         /\ \A i \in 1 .. Len(TheRows(Rep!First)) :
              TheRows(Rep!First)[i].details \in Nat \cup {None} /\ Rep!LinesOf(Rep!First, i) \subseteq Rep!Expected
         /\ \A a \in Rep!Ticked \ todo : Rep!Before(a, Rep!First)
         /\ \A other \in todo : other # Rep!First => Rep!Before(Rep!First, other)
<1>1. todo \subseteq Rep!Ticked /\ \A a \in Rep!Ticked \ todo, b \in todo : Rep!Before(a, b)
      BY DEF Printing
<1>2. todo \subseteq Rep!AllEntries
      BY <1>1, ExpectedFacts
<1>3. Rep!First \in todo /\ \A other \in todo : other # Rep!First => Rep!Before(Rep!First, other)
      BY <1>2, FirstFacts
<1>4. Rep!First \in Rep!AllEntries /\ Rep!First \in Rep!Ticked
      BY <1>1, <1>2, <1>3
<1>5. /\ Len(TheRows(Rep!First)) \in Nat
      /\ \A i \in 1 .. Len(TheRows(Rep!First)) : TheRows(Rep!First)[i].details \in Nat \cup {None}
      BY <1>4, EntryFacts
<1>6. \A i \in 1 .. Len(TheRows(Rep!First)) : Rep!LinesOf(Rep!First, i) \subseteq Rep!Expected
      BY <1>4, ExpectedFacts
<1> QED BY <1>1, <1>3, <1>4, <1>5, <1>6

LEMMA GenerateKeeps == ASSUME Reported, NEW f \in {"html", "text", "shell"}, Rep!Generate(f) PROVE Reported'
<1>1. /\ pc' = "subtitle" /\ format' = f /\ todo' = UNION {Rep!Listed(m) : m \in Rep!ModulesIn}
      /\ UNCHANGED <<sel, in_details, output>> /\ output = <<>> /\ in_details = FALSE
      BY DEF Reported, Rep!Generate
<1>2. Rep!Ticked' = Rep!Ticked
      BY <1>1 DEF Rep!Ticked
<1>3. TicksAgree' /\ sel' \in [Rep!RowsOfTree -> BOOLEAN]
      BY <1>1 DEF TicksAgree, Reported
<1>4. todo' = Rep!Ticked
  <2>1. \A m \in Rep!ModulesIn : Rep!Listed(m) \subseteq Rep!Ticked
        BY DEF Rep!Listed, Rep!Ticked, Rep!AllEntries
  <2>2. ASSUME NEW at \in Rep!Ticked PROVE \E m \in Rep!ModulesIn : at \in Rep!Listed(m)
    <3>1. at \in Rep!AllEntries /\ sel[at] /\ ~ Rep!Entry(at).hidden
          BY DEF Rep!Ticked
    <3>2. sel[<<at[1], 0>>] /\ at \in Rep!EntriesOf(at[1]) /\ at[1] \in Rep!ModulesIn
          BY <3>1, EntryFacts, RowFacts DEF Reported, TicksAgree, Rep!ModulesIn
    <3> QED BY <3>1, <3>2 DEF Rep!Listed
  <2> QED BY <1>1, <2>1, <2>2
<1>5. Printing'
  <2>1. \A x : ~ Printed(x)'
        BY <1>1, <1>2, <1>4 DEF Printed
  <2>2. OwnColumns'
        BY <1>1 DEF OwnColumns
  <2>3. output' \in Seq(Rep!Expected') /\ {output'[i] : i \in DOMAIN output'} = {} /\ DOMAIN output' = {}
        BY <1>1
  <2> QED BY <1>1, <1>2, <1>4, <2>1, <2>2, <2>3 DEF Printing
<1> QED BY <1>1, <1>3, <1>5 DEF Reported, Rep!ReportIsAsTicked

LEMMA StartEntryKeeps == ASSUME Printing, Rep!StartEntry PROVE Printing'
<1>1. /\ pc = "subtitle" /\ todo # {} /\ row' = 0 /\ pc' = "rows"
      /\ columns' = IF format = "shell" THEN columns ELSE Rep!Entry(Rep!First).columns
      /\ UNCHANGED <<force_all_details, sel, format, todo, in_details, output>>
      BY DEF Rep!StartEntry
<1>2. Rep!Expected' = Rep!Expected /\ Rep!Ticked' = Rep!Ticked /\ Rep!First' = Rep!First
      BY <1>1, SameAsked DEF Rep!First
<1>3. Len(TheRows(Rep!First)) \in Nat
      BY <1>1, AtFirst
<1>4. \A x \in Rep!Expected : x.row \in Nat /\ x.row # 0
  <2> TAKE x \in Rep!Expected
  <2>1. x.row \in 1 .. Len(TheRows(x.at)) /\ x.at \in Rep!AllEntries
        BY ExpectedFacts
  <2>2. Len(TheRows(x.at)) \in Nat
        BY <2>1, EntryFacts
  <2> QED BY <2>1, <2>2
<1>5. {x \in Rep!Expected : Printed(x)'} = {x \in Rep!Expected : Printed(x)}
  <2>1. \A x \in Rep!Expected : Printed(x)' <=> Printed(x)
        BY <1>1, <1>2, <1>4 DEF Printed
  <2> QED BY <2>1
<1>6. OwnColumns'
      BY <1>1, <1>2 DEF OwnColumns, Printing
<1>7. (TheRows(Rep!First))' = TheRows(Rep!First)
      BY <1>2 DEF TheRows, Rep!Entry
<1> QED BY <1>1, <1>2, <1>3, <1>5, <1>6, <1>7 DEF Printing

LEMMA EndEntryKeeps == ASSUME Printing, Rep!EndEntry PROVE Printing'
<1>1. /\ pc = "rows" /\ row = Len(TheRows(Rep!First)) /\ pc' = "subtitle" /\ todo' = todo \ {Rep!First}
      /\ UNCHANGED <<force_all_details, sel, format, row, columns, parent_columns, in_details, output>>
      BY DEF Rep!EndEntry, TheRows
<1>2. Rep!Expected' = Rep!Expected /\ Rep!Ticked' = Rep!Ticked
      BY <1>1, SameAsked
<1>3. todo # {}
      BY <1>1 DEF Printing
<1>4. /\ Rep!First \in todo /\ Rep!First \in Rep!Ticked
      /\ \A a \in Rep!Ticked \ todo : Rep!Before(a, Rep!First)
      /\ \A other \in todo : other # Rep!First => Rep!Before(Rep!First, other)
      BY <1>3, AtFirst
<1>5. \A a \in Rep!Ticked \ todo', b \in todo' : Rep!Before(a, b)
      BY <1>1, <1>4 DEF Printing
<1>6. {x \in Rep!Expected : Printed(x)'} = {x \in Rep!Expected : Printed(x)}
  <2>1. ASSUME NEW x \in Rep!Expected PROVE Printed(x)' <=> Printed(x)
    <3>1. x.at \in Rep!Ticked /\ x.row \in 1 .. Len(TheRows(x.at))
          BY ExpectedFacts
    <3>2. Printed(x)' <=> x.at \in Rep!Ticked \ todo \/ x.at = Rep!First
          BY <1>1, <1>2, <1>4 DEF Printed
    <3>3. x.at = Rep!First => x.row <= row
          BY <1>1, <1>3, <3>1, AtFirst
    <3> QED BY <1>1, <3>2, <3>3 DEF Printed
  <2> QED BY <2>1
<1>7. OwnColumns'
      BY <1>1 DEF OwnColumns, Printing
<1>8. todo' \subseteq Rep!Ticked
      BY <1>1 DEF Printing
<1> QED BY <1>1, <1>2, <1>5, <1>6, <1>7, <1>8 DEF Printing

LEMMA RowKeeps == ASSUME Printing, Rep!Row PROVE Printing'
<1> DEFINE at == Rep!First
           i == row + 1
           wanted == Rep!WithDetails
           more == Rep!KeyValue(Rep!Current.parts)
           l == more[1]
<1>1. /\ pc = "rows" /\ row < Len(TheRows(at)) /\ output' = output \o more
      /\ IF wanted
         THEN /\ in_details' = TRUE /\ pc' = "details" /\ row' = row
              /\ IF format = "html" THEN parent_columns' = columns /\ columns' = {}
                 ELSE UNCHANGED <<columns, parent_columns>>
         ELSE row' = i /\ pc' = "rows" /\ UNCHANGED <<in_details, columns, parent_columns>>
      /\ UNCHANGED <<force_all_details, sel, format, todo>>
      BY DEF Rep!Row, TheRows
<1>2. Rep!Expected' = Rep!Expected /\ Rep!Ticked' = Rep!Ticked /\ Rep!First' = at
      BY <1>1, SameAsked DEF Rep!First
<1>3. /\ todo # {} /\ row \in Nat /\ i \in 1 .. Len(TheRows(at)) /\ Len(TheRows(at)) \in Nat
      /\ format \in {"html", "text", "shell"} /\ ~ in_details
      /\ format # "shell" => columns = Rep!Entry(at).columns
  <2>1. todo # {} /\ row \in 0 .. Len(TheRows(at)) /\ format \in {"html", "text", "shell"} /\ OwnColumns
        BY <1>1 DEF Printing
  <2>2. Len(TheRows(at)) \in Nat
        BY <2>1, AtFirst
  <2>3. ~ in_details /\ (format # "shell" => columns = Rep!Entry(at).columns)
        BY <1>1, <2>1 DEF OwnColumns
  <2> QED BY <1>1, <2>1, <2>2, <2>3
<1>4. /\ at \in todo /\ at \in Rep!Ticked /\ TheRows(at)[i].details \in Nat \cup {None}
      /\ Rep!LinesOf(at, i) \subseteq Rep!Expected
      /\ \A a \in Rep!Ticked \ todo : Rep!Before(a, at)
      BY <1>3, AtFirst
<1>5. Rep!Current = TheRows(at)[i]
      BY DEF Rep!Current, TheRows
<1>6. /\ Len(more) = 1 /\ DOMAIN more = {1}
      /\ l = Rep!Line(at, i, 0, Rep!Cells(TheRows(at)[i].parts))
      BY <1>5 DEF Rep!KeyValue, Rep!Line
<1>7. l \in Rep!LinesOf(at, i) /\ l.at = at /\ l.row = i /\ l.detail = 0
      /\ \A x \in Rep!LinesOf(at, i) : x.row = i /\ x.detail \in Nat /\ (x.detail = 0 => x = l)
                                       /\ (x.detail # 0 => wanted)
  <2>1. l = MainLine(at, i)
        BY <1>3, <1>6 DEF MainLine, Rep!Cells, Rep!VisibleColumns
  <2>2. wanted <=> Asked(at, i)
        BY <1>5 DEF Rep!WithDetails, Asked
  <2>3. l.at = at /\ l.row = i /\ l.detail = 0
        BY <1>6 DEF Rep!Line
  <2> HIDE DEF l, wanted, at, i
  <2> QED BY <1>4, <2>1, <2>2, <2>3, LineFacts
<1> HIDE DEF l, wanted, at
<1>8. more \in Seq(Rep!Expected)
  <2>1. more = <<l>>
        BY DEF l, Rep!KeyValue
  <2> QED BY <1>4, <1>7, <2>1
<1>9. \A x \in Rep!Expected :
        Printed(x) <=> x.at \in Rep!Ticked \ todo \/ (x.at = at /\ x.row <= row)
      BY <1>1 DEF Printed, at
<1>10. \A x \in Rep!Expected : Printed(x) => \A j \in 1 .. Len(more) : Rep!Earlier(x, more[j])
  <2> TAKE x \in Rep!Expected
  <2>1. ASSUME Printed(x) PROVE Rep!Earlier(x, l)
    <3>1. x.row \in 1 .. Len(TheRows(x.at))
          BY ExpectedFacts
    <3>2. CASE x.at \in Rep!Ticked \ todo
          BY <1>4, <1>7, <3>2 DEF Rep!Earlier
    <3>3. CASE x.at = at /\ x.row <= row
      <4>1. x.row < i
            BY <1>3, <3>1, <3>3
      <4> QED BY <1>7, <3>3, <4>1 DEF Rep!Earlier
    <3> QED BY <1>9, <2>1, <3>2, <3>3
  <2>2. \A j \in 1 .. Len(more) : more[j] = l
        BY <1>6 DEF l
  <2> QED BY <2>1, <2>2
<1>11. \A j, k \in 1 .. Len(more) : j < k => Rep!Earlier(more[j], more[k])
  <2>1. Len(more) = 1
        BY <1>6
  <2> QED BY <2>1
<1>12. {more[j] : j \in DOMAIN more} = {l}
      BY <1>6 DEF l
<1> HIDE DEF more
<1>13. /\ output' \in Seq(Rep!Expected)
       /\ {output'[j] : j \in DOMAIN output'} = {x \in Rep!Expected : Printed(x)} \cup {l}
       /\ \A j, k \in DOMAIN output' : j < k => Rep!Earlier(output'[j], output'[k])
  <2>1. LET s == output \o more
        IN /\ s \in Seq(Rep!Expected)
           /\ {s[j] : j \in DOMAIN s} = {x \in Rep!Expected : Printed(x)} \cup {more[j] : j \in DOMAIN more}
           /\ \A j, k \in DOMAIN s : j < k => Rep!Earlier(s[j], s[k])
        BY <1>8, <1>10, <1>11, PrintMore, Zenon
  <2>2. output' = output \o more
        BY <1>1
  <2> QED BY <1>12, <2>1, <2>2
<1>14. \A x \in Rep!Expected : Printed(x)' <=> Printed(x) \/ x = l
  <2> TAKE x \in Rep!Expected
  <2>1. x.row \in 1 .. Len(TheRows(x.at)) /\ x \in Rep!LinesOf(x.at, x.row) /\ x.row \in Int
        BY ExpectedFacts
  <2>2. x.at = at /\ x.row = i => (x.detail = 0 <=> x = l) /\ (x.detail # 0 => wanted)
        BY <1>7, <2>1
  <2>3. x = l => x.at = at /\ x.row = i /\ x.detail = 0
        BY <1>7
  <2>4. CASE wanted
    <3>1. Printed(x)' <=> x.at \in Rep!Ticked \ todo
                          \/ (x.at = at /\ (x.row <= row \/ (x.row = i /\ x.detail = 0)))
          BY <1>1, <1>2, <2>4 DEF Printed, at
    <3> QED BY <1>9, <2>2, <2>3, <3>1
  <2>5. CASE ~ wanted
    <3>1. Printed(x)' <=> x.at \in Rep!Ticked \ todo \/ (x.at = at /\ x.row <= i)
          BY <1>1, <1>2, <2>5 DEF Printed, at
    <3>2. x.row <= i <=> x.row <= row \/ x.row = i
          BY <1>3, <2>1
    <3> QED BY <1>9, <2>2, <2>3, <2>5, <3>1, <3>2
  <2> QED BY <2>4, <2>5
<1>15. {x \in Rep!Expected : Printed(x)'} = {x \in Rep!Expected : Printed(x)} \cup {l}
      BY <1>4, <1>7, <1>14
<1>16. OwnColumns'
  <2>1. CASE wanted
        BY <1>1, <1>2, <1>3, <2>1 DEF OwnColumns, at
  <2>2. CASE ~ wanted
        BY <1>1, <1>2, <1>3, <2>2 DEF OwnColumns, at
  <2> QED BY <2>1, <2>2
<1>17. (TheRows(Rep!First))' = TheRows(at)
      BY <1>2 DEF TheRows, Rep!Entry
<1>18. pc' \in {"rows", "details"} /\ row' \in 0 .. Len(TheRows(at)) /\ todo' # {}
      BY <1>1, <1>3
<1>19. pc' = "details" => row' < Len(TheRows(at)) /\ Rep!WithDetails'
  <2>1. pc' = "details" => wanted /\ row' = row /\ row < Len(TheRows(at))
        BY <1>1
  <2>2. row' = row => Rep!WithDetails' = wanted
        BY <1>1, <1>2 DEF wanted, Rep!WithDetails, Rep!Current, Rep!Entry, at
  <2> QED BY <2>1, <2>2
<1>20. todo' \subseteq Rep!Ticked /\ \A a \in Rep!Ticked \ todo', b \in todo' : Rep!Before(a, b)
      BY <1>1 DEF Printing
<1> QED BY <1>1, <1>2, <1>3, <1>13, <1>15, <1>16, <1>17, <1>18, <1>19, <1>20 DEF Printing

LEMMA DetailsKeep == ASSUME Printing, Rep!Details PROVE Printing'
<1> DEFINE at == Rep!First
           i == row + 1
           d == TheRows(at)[i].details
           more == [n \in 1 .. d |-> Rep!Line(at, i, n, 1)]
<1>1. /\ pc = "details" /\ pc' = "rows" /\ in_details' = FALSE /\ row' = i
      /\ IF format = "html" THEN Rep!Restored ELSE UNCHANGED <<columns, parent_columns>>
      /\ UNCHANGED <<force_all_details, sel, format, todo>>
      BY DEF Rep!Details
<1>2. Rep!Expected' = Rep!Expected /\ Rep!Ticked' = Rep!Ticked /\ Rep!First' = at
      BY <1>1, SameAsked DEF Rep!First
<1>3. /\ todo # {} /\ row \in Nat /\ i \in 1 .. Len(TheRows(at)) /\ Len(TheRows(at)) \in Nat
      /\ format \in {"html", "text", "shell"} /\ in_details /\ Rep!WithDetails
      /\ format = "html" => columns = {} /\ parent_columns = Rep!Entry(at).columns
      /\ format = "text" => columns = Rep!Entry(at).columns
  <2>1. /\ todo # {} /\ row \in 0 .. Len(TheRows(at)) /\ row < Len(TheRows(at))
        /\ format \in {"html", "text", "shell"} /\ OwnColumns /\ Rep!WithDetails
        BY <1>1 DEF Printing
  <2>2. Len(TheRows(at)) \in Nat
        BY <2>1, AtFirst
  <2> QED BY <1>1, <2>1, <2>2 DEF OwnColumns
<1>4. /\ at \in todo /\ at \in Rep!Ticked /\ d \in Nat \cup {None} /\ Rep!LinesOf(at, i) \subseteq Rep!Expected
      /\ \A a \in Rep!Ticked \ todo : Rep!Before(a, at)
      BY <1>3, AtFirst
<1>5. Rep!Current = TheRows(at)[i]
      BY DEF Rep!Current, TheRows
<1>6. /\ d \in Nat /\ d # None /\ (TheRows(at)[i].wants \/ force_all_details)
      BY <1>3, <1>4, <1>5 DEF Rep!WithDetails
<1>7. output' = output \o more
  <2>1. Rep!Cells(3) = 1
    <3>1. CASE format = "html"
      <4>1. Rep!Cardinality({}) = 0
            BY FS_EmptySet, SameCardinality
      <4>2. columns = {}
            BY <1>3, <3>1
      <4>3. Rep!VisibleColumns = 2
            BY <4>1, <4>2 DEF Rep!VisibleColumns
      <4> QED BY <4>3 DEF Rep!Cells
    <3>2. CASE format \in {"text", "shell"}
          BY <1>3, <3>2 DEF Rep!Cells
    <3> QED BY <1>3, <3>1, <3>2
  <2>2. more = [n \in 1 .. Rep!Current.details |-> [at |-> at, row |-> row + 1, detail |-> n, cells |-> Rep!Cells(3)]]
        BY <1>5, <2>1, Zenon DEF Rep!Line
  <2>3. output' = output \o [n \in 1 .. Rep!Current.details
                               |-> [at |-> at, row |-> row + 1, detail |-> n, cells |-> Rep!Cells(3)]]
        BY DEF Rep!Details
  <2> QED BY <2>2, <2>3
<1>8. /\ Len(more) = d /\ DOMAIN more = 1 .. d
      /\ \A n \in 1 .. d : more[n].at = at /\ more[n].row = i /\ more[n].detail = n /\ more[n] = Rep!Line(at, i, n, 1)
      BY <1>6 DEF Rep!Line
<1>9. /\ \A n \in 1 .. d : Rep!Line(at, i, n, 1) \in Rep!LinesOf(at, i)
      /\ \A x \in Rep!LinesOf(at, i) :
           x.detail \in Nat /\ (x.detail # 0 => x.detail \in 1 .. d /\ x = Rep!Line(at, i, x.detail, 1))
  <2>1. Asked(at, i)
        BY <1>6 DEF Asked
  <2> HIDE DEF at, i
  <2> QED BY <1>4, <2>1, LineFacts
<1> HIDE DEF at, d, more
<1>10. more \in Seq(Rep!Expected)
  <2>1. \A n \in 1 .. d : more[n] \in Rep!Expected
        BY <1>4, <1>8, <1>9
  <2>2. more = [n \in 1 .. d |-> more[n]]
        BY <1>8 DEF more
  <2> QED BY <1>6, <2>1, <2>2
<1>11. \A x \in Rep!Expected :
         Printed(x) <=> x.at \in Rep!Ticked \ todo
                        \/ (x.at = at /\ (x.row <= row \/ (x.row = i /\ x.detail = 0)))
       BY <1>1 DEF Printed, at
<1>12. \A x \in Rep!Expected : Printed(x) => \A j \in 1 .. Len(more) : Rep!Earlier(x, more[j])
  <2> TAKE x \in Rep!Expected
  <2> SUFFICES ASSUME Printed(x), NEW j \in 1 .. Len(more) PROVE Rep!Earlier(x, more[j])
        OBVIOUS
  <2>1. x.row \in 1 .. Len(TheRows(x.at)) /\ x.row \in Int
        BY ExpectedFacts
  <2>2. more[j].at = at /\ more[j].row = i /\ more[j].detail = j /\ j \in Int /\ j > 0
        BY <1>6, <1>8
  <2>3. CASE x.at \in Rep!Ticked \ todo
        BY <1>4, <2>2, <2>3 DEF Rep!Earlier
  <2>4. CASE x.at = at /\ x.row <= row
    <3>1. x.row < i
          BY <1>3, <2>1, <2>4
    <3> QED BY <2>2, <2>4, <3>1 DEF Rep!Earlier
  <2>5. CASE x.at = at /\ x.row = i /\ x.detail = 0
        BY <2>2, <2>5 DEF Rep!Earlier
  <2> QED BY <1>11, <2>3, <2>4, <2>5
<1>13. \A j, k \in 1 .. Len(more) : j < k => Rep!Earlier(more[j], more[k])
       BY <1>6, <1>8 DEF Rep!Earlier
<1>14. /\ output' \in Seq(Rep!Expected)
       /\ {output'[j] : j \in DOMAIN output'} = {x \in Rep!Expected : Printed(x)} \cup {more[j] : j \in DOMAIN more}
       /\ \A j, k \in DOMAIN output' : j < k => Rep!Earlier(output'[j], output'[k])
  <2>1. LET s == output \o more
        IN /\ s \in Seq(Rep!Expected)
           /\ {s[j] : j \in DOMAIN s} = {x \in Rep!Expected : Printed(x)} \cup {more[j] : j \in DOMAIN more}
           /\ \A j, k \in DOMAIN s : j < k => Rep!Earlier(s[j], s[k])
        BY <1>10, <1>12, <1>13, PrintMore, Zenon
  <2> QED BY <1>7, <2>1
<1>15. \A x \in Rep!Expected : Printed(x)' <=> Printed(x) \/ x \in {more[j] : j \in DOMAIN more}
  <2> TAKE x \in Rep!Expected
  <2>1. x \in Rep!LinesOf(x.at, x.row) /\ x.row \in 1 .. Len(TheRows(x.at)) /\ x.row \in Int
        BY ExpectedFacts
  <2>2. Printed(x)' <=> x.at \in Rep!Ticked \ todo \/ (x.at = at /\ x.row <= i)
        BY <1>1, <1>2 DEF Printed, at
  <2>3. x.row <= i <=> x.row <= row \/ x.row = i
        BY <1>3, <2>1
  <2>4. ASSUME x.at = at, x.row = i, x.detail # 0 PROVE x \in {more[j] : j \in DOMAIN more}
        BY <1>8, <1>9, <2>1, <2>4
  <2>5. ASSUME x \in {more[j] : j \in DOMAIN more} PROVE x.at = at /\ x.row = i
        BY <1>8, <2>5
  <2> QED BY <1>11, <2>2, <2>3, <2>4, <2>5
<1>16. {x \in Rep!Expected : Printed(x)'} = {x \in Rep!Expected : Printed(x)} \cup {more[j] : j \in DOMAIN more}
  <2>1. {more[j] : j \in DOMAIN more} \subseteq Rep!Expected
        BY <1>4, <1>8, <1>9
  <2> HIDE DEF Printed
  <2> QED BY <1>15, <2>1
<1>17. OwnColumns'
       BY <1>1, <1>2, <1>3 DEF OwnColumns, Rep!Restored, at
<1>18. (TheRows(Rep!First))' = TheRows(at)
       BY <1>2 DEF TheRows, Rep!Entry
<1>19. pc' = "rows" /\ row' \in 0 .. Len(TheRows(at)) /\ todo' # {}
       BY <1>1, <1>3
<1>20. todo' \subseteq Rep!Ticked /\ \A a \in Rep!Ticked \ todo', b \in todo' : Rep!Before(a, b)
       BY <1>1 DEF Printing
<1> QED BY <1>1, <1>2, <1>3, <1>14, <1>16, <1>17, <1>18, <1>19, <1>20 DEF Printing

LEMMA ReportedNext == ASSUME Reported, Rep!Next PROVE Reported'
<1>1. ASSUME NEW on \in BOOLEAN, Rep!SelectAll(on) PROVE Reported'
  <2>1. pc = "dialog" /\ sel' = Rep!AllActive(on, sel) /\ UNCHANGED <<output, in_details, pc>>
        BY <1>1 DEF Rep!SelectAll, Rep!context
  <2>2. sel' \in [Rep!RowsOfTree -> BOOLEAN] /\ \A at \in Rep!AllEntries : sel'[at] = on /\ sel'[<<at[1], 0>>] = on
        BY <2>1, AllTicked DEF Reported
  <2>3. TicksAgree'
        BY <2>2 DEF TicksAgree, Rep!AllEntries, Rep!EntriesOf, Rep!ModulesIn
  <2> QED BY <2>1, <2>2, <2>3 DEF Reported, Rep!ReportIsAsTicked
<1>2. ASSUME NEW at \in Rep!RowsOfTree, Rep!Toggle(at) PROVE Reported'
  <2>1. pc = "dialog" /\ UNCHANGED <<output, in_details, pc>>
        BY <1>2 DEF Rep!Toggle, Rep!context
  <2>2. sel' \in [Rep!RowsOfTree -> BOOLEAN] /\ TicksAgree'
        BY <1>2, ToggleAgrees DEF Reported
  <2> QED BY <2>1, <2>2 DEF Reported, Rep!ReportIsAsTicked
<1>3. ASSUME Rep!NoFile PROVE Reported'
      BY <1>3 DEF Rep!NoFile, Rep!context, Reported, Rep!ReportIsAsTicked, TicksAgree
<1>4. ASSUME pc \in {"subtitle", "rows", "details"}, pc' \in {"subtitle", "rows", "details"},
             UNCHANGED sel, Printing'
      PROVE  Reported'
      BY <1>4 DEF Reported, Rep!ReportIsAsTicked, TicksAgree
<1>5. CASE Rep!StartEntry
      BY <1>4, <1>5, StartEntryKeeps DEF Rep!StartEntry, Reported
<1>6. CASE Rep!Row
  <2>1. pc = "rows" /\ pc' \in {"rows", "details"} /\ UNCHANGED sel
        BY <1>6 DEF Rep!Row
  <2> QED BY <1>4, <1>6, <2>1, RowKeeps DEF Reported
<1>7. CASE Rep!Details
      BY <1>4, <1>7, DetailsKeep DEF Rep!Details, Reported
<1>8. CASE Rep!EndEntry
      BY <1>4, <1>8, EndEntryKeeps DEF Rep!EndEntry, Reported
<1>9. CASE Rep!Save
  <2>1. pc = "subtitle" /\ todo = {} /\ pc' = "saved" /\ fmt_opts' = "pango" /\ Printing
        /\ UNCHANGED <<force_all_details, sel, format, output>>
        BY <1>9 DEF Rep!Save, Rep!context, Reported
  <2>2. Rep!Expected' = Rep!Expected
        BY <2>1, SameAsked
  <2>3. {output[i] : i \in DOMAIN output} = Rep!Expected
    <3>1. \A x \in Rep!Expected : Printed(x)
          BY <2>1, ExpectedFacts DEF Printed
    <3> QED BY <2>1, <3>1 DEF Printing
  <2>4. \A i, j \in DOMAIN output : i < j => Rep!Earlier(output[i], output[j])
        BY <2>1 DEF Printing
  <2>5. Rep!ReportIsAsTicked'
        BY <2>1, <2>2, <2>3, <2>4 DEF Rep!ReportIsAsTicked
  <2> QED BY <2>1, <2>5 DEF Reported, TicksAgree
<1> QED BY <1>1, <1>2, <1>3, <1>5, <1>6, <1>7, <1>8, <1>9, GenerateKeeps DEF Rep!Next

LEMMA ReportedStays == ASSUME Reported, UNCHANGED Rep!vars PROVE Reported'
<1>1. UNCHANGED <<force_all_details, sel, fmt_opts, format, todo, row, columns, parent_columns, in_details, output, pc>>
      BY DEF Rep!vars
<1>2. Rep!Expected' = Rep!Expected /\ Rep!Ticked' = Rep!Ticked /\ Rep!First' = Rep!First
      BY <1>1, SameAsked DEF Rep!First
<1>3. TicksAgree' = TicksAgree
      BY <1>1 DEF TicksAgree
<1>4. Printing' = Printing
  <2>1. \A x : Printed(x)' <=> Printed(x)
        BY <1>1, <1>2 DEF Printed
  <2>2. {x \in Rep!Expected' : Printed(x)'} = {x \in Rep!Expected : Printed(x)}
        BY <1>2, <2>1
  <2>3. Rep!WithDetails' = Rep!WithDetails /\ (TheRows(Rep!First))' = TheRows(Rep!First) /\ OwnColumns' = OwnColumns
        BY <1>1, <1>2 DEF Rep!WithDetails, Rep!Current, TheRows, Rep!Entry, OwnColumns
  <2> QED BY <1>1, <1>2, <2>2, <2>3 DEF Printing
<1>5. Rep!ReportIsAsTicked' = Rep!ReportIsAsTicked
      BY <1>1, <1>2 DEF Rep!ReportIsAsTicked
<1> QED BY <1>1, <1>3, <1>4, <1>5 DEF Reported

(* A report has what was ticked in its dialog and nothing else, in the order *)
(* of the tree: each row once, in its own entry's columns, and its details   *)
(* after it when they are wanted, whatever the modules hold.                 *)
THEOREM ReportsForAll == ProgramSpec => []ReportIsAsTicked
<1> DEFINE I == live = "report" => Reported
<1>1. ProgramInit => I
      BY ReportedInit DEF ProgramInit, Own
<1>2. I /\ [ProgramNext]_its => I'
  <2>1. ASSUME I, ProgramNext, live = "report" PROVE Reported'
        BY <2>1, ReportedNext DEF ProgramNext, Own
  <2>2. ASSUME Reported, UNCHANGED its PROVE Reported'
    <3>1. UNCHANGED Rep!vars
          BY <2>2 DEF its
    <3> QED BY <2>2, <3>1, ReportedStays
  <2> QED BY <2>1, <2>2, LiveStays DEF its
<1>3. I => ReportIsAsTicked
      BY DEF Reported, ReportIsAsTicked
<1> HIDE DEF I
<1> QED BY <1>1, <1>2, <1>3, PTL DEF ProgramSpec

-----------------------------------------------------------------------------
(* The processors. Of an architecture's keys none is looked for before one   *)
(* that begins with it: what tells them apart is their first words, or the   *)
(* second, or that the earlier is the longer.                                *)
Differ(k, key) == k[1] # key[1] \/ Len(k) > Len(key) \/ (Len(k) > 1 /\ k[2] # key[2])
KeysInOrder(keys) == \A i \in 1 .. Len(keys) : \A j \in 1 .. i - 1 : Differ(keys[j][1], keys[i][1])
KeyTable(keys) == Len(keys) \in Nat /\ KeysInOrder(keys) /\ \A i \in 1 .. Len(keys) : Len(keys[i][1]) \in 1 .. 3

(* What is for all processors begins otherwise than what begins one, and so  *)
(* do the fields.                                                            *)
Starters(s) == s.lone \cup ({s.begin} \ {<<>>})
WellMade(s) ==
  /\ KeyTable(s.rep) /\ KeyTable(s.fields)
  /\ \A k \in Starters(s) : Len(k) \in 1 .. 3 /\ \A i \in 1 .. Len(s.rep) : s.rep[i][1][1] # k[1]
  /\ s.begin # <<>> => /\ \A i \in 1 .. Len(s.fields) : s.fields[i][1][1] # s.begin[1]
                       /\ \A k \in s.lone : k[1] # s.begin[1]
  /\ \A i \in 1 .. Len(s.rep), j \in 1 .. Len(s.fields) : s.rep[i][1][1] # s.fields[j][1][1]
  /\ s.begin = <<>> => s.lone = {}

(* Every list of keys in the source is like that. *)
LEMMA NoKeys == KeyTable(<<>>)
BY DEF KeysInOrder, KeyTable

LEMMA X86Reads == WellMade(Info!X86)
<1> DEFINE t == Info!X86.fields
<1>0. Len(t) = 17
      BY DEF Info!X86, Info!Scan
<1>1. t[1][1][1] = "model" /\ t[2][1][1] = "vendor_id" /\ t[3][1][1] = "flags" /\ t[4][1][1] = "bugs"
      /\ t[5][1][1] = "power" /\ t[6][1][1] = "microcode" /\ t[7][1][1] = "cache" /\ t[8][1][1] = "cpu"
      /\ t[9][1][1] = "bogomips" /\ t[10][1][1] = "fpu" /\ t[11][1][1] = "fdiv_bug"
      /\ t[12][1][1] = "hlt_bug" /\ t[13][1][1] = "f00f_bug" /\ t[14][1][1] = "coma_bug"
      /\ t[15][1][1] = "model" /\ t[16][1][1] = "cpu" /\ t[17][1][1] = "stepping"
      BY DEF Info!X86, Info!Scan
<1>2. \A i \in 1 .. 17 : Len(t[i][1]) \in 1 .. 3
      BY DEF Info!X86, Info!Scan
<1>3. Differ(t[1][1], t[15][1]) /\ Differ(t[8][1], t[16][1])
      BY DEF Info!X86, Info!Scan, Differ
<1>4. Info!X86.begin = <<"processor">> /\ Info!X86.lone = {} /\ Info!X86.rep = <<>>
      BY DEF Info!X86, Info!Scan
<1> HIDE DEF t
<1>5. ASSUME NEW i \in 1 .. 17, NEW j \in 1 .. i - 1 PROVE Differ(t[j][1], t[i][1])
  <2>1. t[j][1][1] # t[i][1][1] \/ (j = 1 /\ i = 15) \/ (j = 8 /\ i = 16)
    <3>1. CASE i \in 1 .. 8
          BY <3>1, <1>1
    <3>2. CASE i \in 9 .. 12
          BY <3>2, <1>1
    <3>3. CASE i \in 13 .. 17
          BY <3>3, <1>1
    <3> QED BY <3>1, <3>2, <3>3
  <2>2. t[j][1][1] = t[i][1][1] => Differ(t[j][1], t[i][1])
        BY <1>3, <2>1
  <2> QED BY <2>2 DEF Differ
<1>6. KeysInOrder(t)
      BY <1>0, <1>5 DEF KeysInOrder
<1>t. KeyTable(t)
      BY <1>0, <1>2, <1>6 DEF KeyTable
<1> DEFINE s == Info!X86
<1>8. \A i \in 1 .. Len(t) : t[i][1][1] # "processor"
      BY <1>0, <1>1
<1>9. s.fields = t /\ s.begin = <<"processor">> /\ s.lone = {} /\ s.rep = <<>>
      BY <1>4 DEF t
<1> HIDE DEF s
<1>a. KeyTable(s.rep) /\ KeyTable(s.fields)
      BY <1>t, NoKeys, <1>9, Zenon
<1>b. \A k \in Starters(s) : Len(k) \in 1 .. 3 /\ \A i \in 1 .. Len(s.rep) : s.rep[i][1][1] # k[1]
      BY <1>8, <1>9 DEF Starters
<1>c. s.begin # <<>> /\ (\A i \in 1 .. Len(s.fields) : s.fields[i][1][1] # s.begin[1])
      /\ \A k \in s.lone : k[1] # s.begin[1]
      BY <1>8, <1>9
<1>d. \A i \in 1 .. Len(s.rep), j \in 1 .. Len(s.fields) : s.rep[i][1][1] # s.fields[j][1][1]
      BY <1>8, <1>9
<1> QED BY <1>a, <1>b, <1>c, <1>d, Zenon DEF WellMade, s

LEMMA E2kReads == WellMade(Info!E2k)
<1> DEFINE t == Info!E2k.fields
<1>0. Len(t) = 7
      BY DEF Info!E2k, Info!Scan
<1>1. t[1][1][1] = "model" /\ t[2][1][1] = "vendor_id" /\ t[3][1][1] = "cpu" /\ t[4][1][1] = "model"
      /\ t[5][1][1] = "revision" /\ t[6][1][1] = "cpu" /\ t[7][1][1] = "bogomips"
      BY DEF Info!E2k, Info!Scan
<1>2. \A i \in 1 .. 7 : Len(t[i][1]) \in 1 .. 3
      BY DEF Info!E2k, Info!Scan
<1>3. Differ(t[1][1], t[4][1]) /\ Differ(t[3][1], t[6][1])
      BY DEF Info!E2k, Info!Scan, Differ
<1>4. Info!E2k.begin = <<"processor">> /\ Info!E2k.lone = {} /\ Info!E2k.rep = <<>>
      BY DEF Info!E2k, Info!Scan
<1> HIDE DEF t
<1>5. ASSUME NEW i \in 1 .. 7, NEW j \in 1 .. i - 1 PROVE Differ(t[j][1], t[i][1])
  <2>1. t[j][1][1] # t[i][1][1] \/ (j = 1 /\ i = 4) \/ (j = 3 /\ i = 6)
        BY <1>1
  <2>2. t[j][1][1] = t[i][1][1] => Differ(t[j][1], t[i][1])
        BY <1>3, <2>1
  <2> QED BY <2>2 DEF Differ
<1>6. KeysInOrder(t)
      BY <1>0, <1>5 DEF KeysInOrder
<1>t. KeyTable(t)
      BY <1>0, <1>2, <1>6 DEF KeyTable
<1> DEFINE s == Info!E2k
<1>8. \A i \in 1 .. Len(t) : t[i][1][1] # "processor"
      BY <1>0, <1>1
<1>9. s.fields = t /\ s.begin = <<"processor">> /\ s.lone = {} /\ s.rep = <<>>
      BY <1>4 DEF t
<1> HIDE DEF s
<1>a. KeyTable(s.rep) /\ KeyTable(s.fields)
      BY <1>t, NoKeys, <1>9, Zenon
<1>b. \A k \in Starters(s) : Len(k) \in 1 .. 3 /\ \A i \in 1 .. Len(s.rep) : s.rep[i][1][1] # k[1]
      BY <1>8, <1>9 DEF Starters
<1>c. s.begin # <<>> /\ (\A i \in 1 .. Len(s.fields) : s.fields[i][1][1] # s.begin[1])
      /\ \A k \in s.lone : k[1] # s.begin[1]
      BY <1>8, <1>9
<1>d. \A i \in 1 .. Len(s.rep), j \in 1 .. Len(s.fields) : s.rep[i][1][1] # s.fields[j][1][1]
      BY <1>8, <1>9
<1> QED BY <1>a, <1>b, <1>c, <1>d, Zenon DEF WellMade, s

LEMMA ArmReads == WellMade(Info!Arm)
<1> DEFINE t == Info!Arm.fields
           r == Info!Arm.rep
<1>0. Len(t) = 8 /\ Len(r) = 1
      BY DEF Info!Arm, Info!Scan
<1>1. t[1][1][1] = "model" /\ t[2][1][1] = "Features" /\ t[3][1][1] = "BogoMIPS" /\ t[4][1][1] = "CPU"
      /\ t[5][1][1] = "CPU" /\ t[6][1][1] = "CPU" /\ t[7][1][1] = "CPU" /\ t[8][1][1] = "CPU"
      /\ r[1][1][1] = "Processor"
      BY DEF Info!Arm, Info!Scan
<1>2. (\A i \in 1 .. 8 : Len(t[i][1]) \in 1 .. 3) /\ (\A i \in 1 .. 1 : Len(r[i][1]) \in 1 .. 3)
      BY DEF Info!Arm, Info!Scan
<1>3. Differ(t[4][1], t[5][1]) /\ Differ(t[4][1], t[6][1]) /\ Differ(t[5][1], t[6][1])
      /\ Differ(t[4][1], t[7][1]) /\ Differ(t[5][1], t[7][1]) /\ Differ(t[6][1], t[7][1])
      /\ Differ(t[4][1], t[8][1]) /\ Differ(t[5][1], t[8][1]) /\ Differ(t[6][1], t[8][1])
      /\ Differ(t[7][1], t[8][1])
      BY DEF Info!Arm, Info!Scan, Differ
<1>4. Info!Arm.begin = <<"processor">>
      /\ Info!Arm.lone = {<<"model", "name">>, <<"Features">>, <<"BogoMIPS">>}
      BY DEF Info!Arm, Info!Scan
<1> HIDE DEF t, r
<1>5. ASSUME NEW i \in 1 .. 8, NEW j \in 1 .. i - 1 PROVE Differ(t[j][1], t[i][1])
  <2>1. t[j][1][1] # t[i][1][1] \/ (j = 4 /\ i = 5) \/ (j = 4 /\ i = 6) \/ (j = 5 /\ i = 6)
          \/ (j = 4 /\ i = 7) \/ (j = 5 /\ i = 7) \/ (j = 6 /\ i = 7) \/ (j = 4 /\ i = 8)
          \/ (j = 5 /\ i = 8) \/ (j = 6 /\ i = 8) \/ (j = 7 /\ i = 8)
        BY <1>1
  <2>2. t[j][1][1] = t[i][1][1] => Differ(t[j][1], t[i][1])
        BY <1>3, <2>1
  <2> QED BY <2>2 DEF Differ
<1>6. KeysInOrder(t)
      BY <1>0, <1>5 DEF KeysInOrder
<1>t. KeyTable(t)
      BY <1>0, <1>2, <1>6 DEF KeyTable
<1>7. KeysInOrder(r)
      BY <1>0, <1>1 DEF KeysInOrder, Differ
<1>r. KeyTable(r)
      BY <1>0, <1>2, <1>7 DEF KeyTable
<1> DEFINE s == Info!Arm
<1>8. /\ \A i \in 1 .. Len(r) : r[i][1][1] = "Processor"
      /\ \A i \in 1 .. Len(t) : t[i][1][1] \notin {"Processor", "processor"}
      BY <1>0, <1>1
<1>9. s.fields = t /\ s.rep = r /\ s.begin = <<"processor">> /\ s.lone = {<<"model", "name">>, <<"Features">>, <<"BogoMIPS">>}
      BY <1>4 DEF t, r
<1> HIDE DEF s
<1>a. KeyTable(s.rep) /\ KeyTable(s.fields)
      BY <1>t, <1>r, <1>9, Zenon
<1>b. \A k \in Starters(s) : Len(k) \in 1 .. 3 /\ \A i \in 1 .. Len(s.rep) : s.rep[i][1][1] # k[1]
      BY <1>8, <1>9 DEF Starters
<1>c. s.begin # <<>> /\ (\A i \in 1 .. Len(s.fields) : s.fields[i][1][1] # s.begin[1])
      /\ \A k \in s.lone : k[1] # s.begin[1]
      BY <1>8, <1>9
<1>d. \A i \in 1 .. Len(s.rep), j \in 1 .. Len(s.fields) : s.rep[i][1][1] # s.fields[j][1][1]
      BY <1>8, <1>9
<1> QED BY <1>a, <1>b, <1>c, <1>d, Zenon DEF WellMade, s

LEMMA PpcReads == WellMade(Info!Ppc)
<1> DEFINE t == Info!Ppc.fields
           r == Info!Ppc.rep
<1>0. Len(t) = 4 /\ Len(r) = 1
      BY DEF Info!Ppc, Info!Scan
<1>1. t[1][1][1] = "cpu" /\ t[2][1][1] = "revision" /\ t[3][1][1] = "clock" /\ t[4][1][1] = "BogoMIPS"
      /\ r[1][1][1] = "Processor"
      BY DEF Info!Ppc, Info!Scan
<1>2. (\A i \in 1 .. 4 : Len(t[i][1]) \in 1 .. 3) /\ (\A i \in 1 .. 1 : Len(r[i][1]) \in 1 .. 3)
      BY DEF Info!Ppc, Info!Scan
<1>4. Info!Ppc.begin = <<"processor">> /\ Info!Ppc.lone = {<<"cpu">>, <<"clock">>, <<"revision">>}
      BY DEF Info!Ppc, Info!Scan
<1> HIDE DEF t, r
<1>5. ASSUME NEW i \in 1 .. 4, NEW j \in 1 .. i - 1 PROVE Differ(t[j][1], t[i][1])
  <2>1. t[j][1][1] # t[i][1][1]
        BY <1>1
  <2> QED BY <2>1 DEF Differ
<1>6. KeysInOrder(t)
      BY <1>0, <1>5 DEF KeysInOrder
<1>t. KeyTable(t)
      BY <1>0, <1>2, <1>6 DEF KeyTable
<1>7. KeysInOrder(r)
      BY <1>0, <1>1 DEF KeysInOrder, Differ
<1>r. KeyTable(r)
      BY <1>0, <1>2, <1>7 DEF KeyTable
<1> DEFINE s == Info!Ppc
<1>8. /\ \A i \in 1 .. Len(r) : r[i][1][1] = "Processor"
      /\ \A i \in 1 .. Len(t) : t[i][1][1] \notin {"Processor", "processor"}
      BY <1>0, <1>1
<1>9. s.fields = t /\ s.rep = r /\ s.begin = <<"processor">> /\ s.lone = {<<"cpu">>, <<"clock">>, <<"revision">>}
      BY <1>4 DEF t, r
<1> HIDE DEF s
<1>a. KeyTable(s.rep) /\ KeyTable(s.fields)
      BY <1>t, <1>r, <1>9, Zenon
<1>b. \A k \in Starters(s) : Len(k) \in 1 .. 3 /\ \A i \in 1 .. Len(s.rep) : s.rep[i][1][1] # k[1]
      BY <1>8, <1>9 DEF Starters
<1>c. s.begin # <<>> /\ (\A i \in 1 .. Len(s.fields) : s.fields[i][1][1] # s.begin[1])
      /\ \A k \in s.lone : k[1] # s.begin[1]
      BY <1>8, <1>9
<1>d. \A i \in 1 .. Len(s.rep), j \in 1 .. Len(s.fields) : s.rep[i][1][1] # s.fields[j][1][1]
      BY <1>8, <1>9
<1> QED BY <1>a, <1>b, <1>c, <1>d, Zenon DEF WellMade, s

LEMMA PariscReads == WellMade(Info!Parisc)
<1> DEFINE t == Info!Parisc.fields
           r == Info!Parisc.rep
<1>0. Len(t) = 9 /\ Len(r) = 1
      BY DEF Info!Parisc, Info!Scan
<1>1. t[1][1][1] = "cpu" /\ t[2][1][1] = "cpu" /\ t[3][1][1] = "cpu" /\ t[4][1][1] = "bogomips"
      /\ t[5][1][1] = "model" /\ t[6][1][1] = "I-cache" /\ t[7][1][1] = "D-cache"
      /\ t[8][1][1] = "hversion" /\ t[9][1][1] = "sversion" /\ r[1][1][1] = "Processor"
      BY DEF Info!Parisc, Info!Scan
<1>2. (\A i \in 1 .. 9 : Len(t[i][1]) \in 1 .. 3) /\ (\A i \in 1 .. 1 : Len(r[i][1]) \in 1 .. 3)
      BY DEF Info!Parisc, Info!Scan
<1>3. Differ(t[1][1], t[2][1]) /\ Differ(t[1][1], t[3][1]) /\ Differ(t[2][1], t[3][1])
      BY DEF Info!Parisc, Info!Scan, Differ
<1>4. Info!Parisc.begin = <<"processor">>
      /\ Info!Parisc.lone = {<<"cpu", "family">>, <<"cpu", "MHz">>, <<"cpu">>}
      BY DEF Info!Parisc, Info!Scan
<1> HIDE DEF t, r
<1>5. ASSUME NEW i \in 1 .. 9, NEW j \in 1 .. i - 1 PROVE Differ(t[j][1], t[i][1])
  <2>1. t[j][1][1] # t[i][1][1] \/ (j = 1 /\ i = 2) \/ (j = 1 /\ i = 3) \/ (j = 2 /\ i = 3)
        BY <1>1
  <2>2. t[j][1][1] = t[i][1][1] => Differ(t[j][1], t[i][1])
        BY <1>3, <2>1
  <2> QED BY <2>2 DEF Differ
<1>6. KeysInOrder(t)
      BY <1>0, <1>5 DEF KeysInOrder
<1>t. KeyTable(t)
      BY <1>0, <1>2, <1>6 DEF KeyTable
<1>7. KeysInOrder(r)
      BY <1>0, <1>1 DEF KeysInOrder, Differ
<1>r. KeyTable(r)
      BY <1>0, <1>2, <1>7 DEF KeyTable
<1> DEFINE s == Info!Parisc
<1>8. /\ \A i \in 1 .. Len(r) : r[i][1][1] = "Processor"
      /\ \A i \in 1 .. Len(t) : t[i][1][1] \notin {"Processor", "processor"}
      BY <1>0, <1>1
<1>9. s.fields = t /\ s.rep = r /\ s.begin = <<"processor">> /\ s.lone = {<<"cpu", "family">>, <<"cpu", "MHz">>, <<"cpu">>}
      BY <1>4 DEF t, r
<1> HIDE DEF s
<1>a. KeyTable(s.rep) /\ KeyTable(s.fields)
      BY <1>t, <1>r, <1>9, Zenon
<1>b. \A k \in Starters(s) : Len(k) \in 1 .. 3 /\ \A i \in 1 .. Len(s.rep) : s.rep[i][1][1] # k[1]
      BY <1>8, <1>9 DEF Starters
<1>c. s.begin # <<>> /\ (\A i \in 1 .. Len(s.fields) : s.fields[i][1][1] # s.begin[1])
      /\ \A k \in s.lone : k[1] # s.begin[1]
      BY <1>8, <1>9
<1>d. \A i \in 1 .. Len(s.rep), j \in 1 .. Len(s.fields) : s.rep[i][1][1] # s.fields[j][1][1]
      BY <1>8, <1>9
<1> QED BY <1>a, <1>b, <1>c, <1>d, Zenon DEF WellMade, s

LEMMA Ia64Reads == WellMade(Info!Ia64)
<1> DEFINE t == Info!Ia64.fields
           r == Info!Ia64.rep
<1>0. Len(t) = 10 /\ Len(r) = 1
      BY DEF Info!Ia64, Info!Scan
<1>1. t[1][1][1] = "vendor" /\ t[2][1][1] = "arch" /\ t[3][1][1] = "arch" /\ t[4][1][1] = "family"
      /\ t[5][1][1] = "features" /\ t[6][1][1] = "model" /\ t[7][1][1] = "revision"
      /\ t[8][1][1] = "BogoMIPS" /\ t[9][1][1] = "cpu" /\ t[10][1][1] = "cpu"
      /\ r[1][1][1] = "Processor"
      BY DEF Info!Ia64, Info!Scan
<1>2. (\A i \in 1 .. 10 : Len(t[i][1]) \in 1 .. 3) /\ (\A i \in 1 .. 1 : Len(r[i][1]) \in 1 .. 3)
      BY DEF Info!Ia64, Info!Scan
<1>3. Differ(t[2][1], t[3][1]) /\ Differ(t[9][1], t[10][1])
      BY DEF Info!Ia64, Info!Scan, Differ
<1>4. Info!Ia64.begin = <<"processor">> /\ Info!Ia64.lone = {<<"vendor">>, <<"arch">>, <<"family">>}
      BY DEF Info!Ia64, Info!Scan
<1> HIDE DEF t, r
<1>5. ASSUME NEW i \in 1 .. 10, NEW j \in 1 .. i - 1 PROVE Differ(t[j][1], t[i][1])
  <2>1. t[j][1][1] # t[i][1][1] \/ (j = 2 /\ i = 3) \/ (j = 9 /\ i = 10)
        BY <1>1
  <2>2. t[j][1][1] = t[i][1][1] => Differ(t[j][1], t[i][1])
        BY <1>3, <2>1
  <2> QED BY <2>2 DEF Differ
<1>6. KeysInOrder(t)
      BY <1>0, <1>5 DEF KeysInOrder
<1>t. KeyTable(t)
      BY <1>0, <1>2, <1>6 DEF KeyTable
<1>7. KeysInOrder(r)
      BY <1>0, <1>1 DEF KeysInOrder, Differ
<1>r. KeyTable(r)
      BY <1>0, <1>2, <1>7 DEF KeyTable
<1> DEFINE s == Info!Ia64
<1>8. /\ \A i \in 1 .. Len(r) : r[i][1][1] = "Processor"
      /\ \A i \in 1 .. Len(t) : t[i][1][1] \notin {"Processor", "processor"}
      BY <1>0, <1>1
<1>9. s.fields = t /\ s.rep = r /\ s.begin = <<"processor">> /\ s.lone = {<<"vendor">>, <<"arch">>, <<"family">>}
      BY <1>4 DEF t, r
<1> HIDE DEF s
<1>a. KeyTable(s.rep) /\ KeyTable(s.fields)
      BY <1>t, <1>r, <1>9, Zenon
<1>b. \A k \in Starters(s) : Len(k) \in 1 .. 3 /\ \A i \in 1 .. Len(s.rep) : s.rep[i][1][1] # k[1]
      BY <1>8, <1>9 DEF Starters
<1>c. s.begin # <<>> /\ (\A i \in 1 .. Len(s.fields) : s.fields[i][1][1] # s.begin[1])
      /\ \A k \in s.lone : k[1] # s.begin[1]
      BY <1>8, <1>9
<1>d. \A i \in 1 .. Len(s.rep), j \in 1 .. Len(s.fields) : s.rep[i][1][1] # s.fields[j][1][1]
      BY <1>8, <1>9
<1> QED BY <1>a, <1>b, <1>c, <1>d, Zenon DEF WellMade, s

LEMMA RiscvReads == WellMade(Info!Riscv)
<1> DEFINE t == Info!Riscv.fields
<1>0. Len(t) = 3
      BY DEF Info!Riscv, Info!Scan
<1>1. t[1][1][1] = "mmu" /\ t[2][1][1] = "isa" /\ t[3][1][1] = "uarch"
      BY DEF Info!Riscv, Info!Scan
<1>2. \A i \in 1 .. 3 : Len(t[i][1]) \in 1 .. 3
      BY DEF Info!Riscv, Info!Scan
<1>4. Info!Riscv.begin = <<"hart">> /\ Info!Riscv.lone = {<<"mmu">>, <<"isa">>, <<"uarch">>}
      /\ Info!Riscv.rep = <<>>
      BY DEF Info!Riscv, Info!Scan
<1> HIDE DEF t
<1>5. ASSUME NEW i \in 1 .. 3, NEW j \in 1 .. i - 1 PROVE Differ(t[j][1], t[i][1])
  <2>1. t[j][1][1] # t[i][1][1]
        BY <1>1
  <2> QED BY <2>1 DEF Differ
<1>6. KeysInOrder(t)
      BY <1>0, <1>5 DEF KeysInOrder
<1>t. KeyTable(t)
      BY <1>0, <1>2, <1>6 DEF KeyTable
<1> DEFINE s == Info!Riscv
<1>8. \A i \in 1 .. Len(t) : t[i][1][1] # "hart"
      BY <1>0, <1>1
<1>9. s.fields = t /\ s.begin = <<"hart">> /\ s.lone = {<<"mmu">>, <<"isa">>, <<"uarch">>} /\ s.rep = <<>>
      BY <1>4 DEF t
<1> HIDE DEF s
<1>a. KeyTable(s.rep) /\ KeyTable(s.fields)
      BY <1>t, NoKeys, <1>9, Zenon
<1>b. \A k \in Starters(s) : Len(k) \in 1 .. 3 /\ \A i \in 1 .. Len(s.rep) : s.rep[i][1][1] # k[1]
      BY <1>8, <1>9 DEF Starters
<1>c. s.begin # <<>> /\ (\A i \in 1 .. Len(s.fields) : s.fields[i][1][1] # s.begin[1])
      /\ \A k \in s.lone : k[1] # s.begin[1]
      BY <1>8, <1>9
<1>d. \A i \in 1 .. Len(s.rep), j \in 1 .. Len(s.fields) : s.rep[i][1][1] # s.fields[j][1][1]
      BY <1>8, <1>9
<1> QED BY <1>a, <1>b, <1>c, <1>d, Zenon DEF WellMade, s

LEMMA S390Reads == WellMade(Info!S390)
<1> DEFINE t == Info!S390.fields
           r == Info!S390.rep
<1>0. Len(t) = 0 /\ Len(r) = 2
      BY DEF Info!S390, Info!Scan
<1>1. r[1][1][1] = "vendor_id" /\ r[2][1][1] = "bogomips"
      BY DEF Info!S390, Info!Scan
<1>2. \A i \in 1 .. 2 : Len(r[i][1]) \in 1 .. 3
      BY DEF Info!S390, Info!Scan
<1>4. Info!S390.begin = <<"processor">> /\ Info!S390.lone = {} /\ Info!S390.fields = <<>>
      BY DEF Info!S390, Info!Scan
<1> HIDE DEF t, r
<1>7. KeysInOrder(r)
      BY <1>0, <1>1 DEF KeysInOrder, Differ
<1>r. KeyTable(r)
      BY <1>0, <1>2, <1>7 DEF KeyTable
<1> DEFINE s == Info!S390
<1>8. \A i \in 1 .. Len(r) : r[i][1][1] # "processor"
      BY <1>0, <1>1
<1>9. s.fields = t /\ s.rep = r /\ s.begin = <<"processor">> /\ s.lone = {} /\ s.fields = <<>>
      BY <1>4 DEF t, r
<1> HIDE DEF s
<1>a. KeyTable(s.rep) /\ KeyTable(s.fields)
      BY <1>r, NoKeys, <1>9, Zenon
<1>b. \A k \in Starters(s) : Len(k) \in 1 .. 3 /\ \A i \in 1 .. Len(s.rep) : s.rep[i][1][1] # k[1]
      BY <1>8, <1>9 DEF Starters
<1>c. s.begin # <<>> /\ (\A i \in 1 .. Len(s.fields) : s.fields[i][1][1] # s.begin[1])
      /\ \A k \in s.lone : k[1] # s.begin[1]
      BY <1>8, <1>9
<1>d. \A i \in 1 .. Len(s.rep), j \in 1 .. Len(s.fields) : s.rep[i][1][1] # s.fields[j][1][1]
      BY <1>8, <1>9
<1> QED BY <1>a, <1>b, <1>c, <1>d, Zenon DEF WellMade, s

LEMMA AlphaReads == WellMade(Info!Alpha)
<1> DEFINE t == Info!Alpha.fields
<1>0. Len(t) = 4
      BY DEF Info!Alpha, Info!Scan, Info!Single
<1>1. t[1][1][1] = "cpu" /\ t[2][1][1] = "BogoMIPS" /\ t[3][1][1] = "platform" /\ t[4][1][1] = "cycle"
      BY DEF Info!Alpha, Info!Scan, Info!Single
<1>2. \A i \in 1 .. 4 : Len(t[i][1]) \in 1 .. 3
      BY DEF Info!Alpha, Info!Scan, Info!Single
<1>4. Info!Alpha.begin = <<>> /\ Info!Alpha.lone = {} /\ Info!Alpha.rep = <<>>
      BY DEF Info!Alpha, Info!Scan, Info!Single
<1> HIDE DEF t
<1>5. ASSUME NEW i \in 1 .. 4, NEW j \in 1 .. i - 1 PROVE Differ(t[j][1], t[i][1])
  <2>1. t[j][1][1] # t[i][1][1]
        BY <1>1
  <2> QED BY <2>1 DEF Differ
<1>6. KeysInOrder(t)
      BY <1>0, <1>5 DEF KeysInOrder
<1>t. KeyTable(t)
      BY <1>0, <1>2, <1>6 DEF KeyTable
<1> QED BY <1>t, <1>4, NoKeys DEF t, WellMade, Starters

LEMMA LoongarchReads == WellMade(Info!Loongarch)
<1> DEFINE t == Info!Loongarch.fields
<1>0. Len(t) = 7
      BY DEF Info!Loongarch, Info!Scan, Info!Single
<1>1. t[1][1][1] = "system" /\ t[2][1][1] = "CPU" /\ t[3][1][1] = "Model" /\ t[4][1][1] = "CPU"
      /\ t[5][1][1] = "CPU" /\ t[6][1][1] = "BogoMIPS" /\ t[7][1][1] = "Features"
      BY DEF Info!Loongarch, Info!Scan, Info!Single
<1>2. \A i \in 1 .. 7 : Len(t[i][1]) \in 1 .. 3
      BY DEF Info!Loongarch, Info!Scan, Info!Single
<1>3. Differ(t[2][1], t[4][1]) /\ Differ(t[2][1], t[5][1]) /\ Differ(t[4][1], t[5][1])
      BY DEF Info!Loongarch, Info!Scan, Info!Single, Differ
<1>4. Info!Loongarch.begin = <<>> /\ Info!Loongarch.lone = {} /\ Info!Loongarch.rep = <<>>
      BY DEF Info!Loongarch, Info!Scan, Info!Single
<1> HIDE DEF t
<1>5. ASSUME NEW i \in 1 .. 7, NEW j \in 1 .. i - 1 PROVE Differ(t[j][1], t[i][1])
  <2>1. t[j][1][1] # t[i][1][1] \/ (j = 2 /\ i = 4) \/ (j = 2 /\ i = 5) \/ (j = 4 /\ i = 5)
        BY <1>1
  <2>2. t[j][1][1] = t[i][1][1] => Differ(t[j][1], t[i][1])
        BY <1>3, <2>1
  <2> QED BY <2>2 DEF Differ
<1>6. KeysInOrder(t)
      BY <1>0, <1>5 DEF KeysInOrder
<1>t. KeyTable(t)
      BY <1>0, <1>2, <1>6 DEF KeyTable
<1> QED BY <1>t, <1>4, NoKeys DEF t, WellMade, Starters

LEMMA M68kReads == WellMade(Info!M68k)
<1> DEFINE t == Info!M68k.fields
<1>0. Len(t) = 6
      BY DEF Info!M68k, Info!Scan, Info!Single
<1>1. t[1][1][1] = "CPU" /\ t[2][1][1] = "MMU" /\ t[3][1][1] = "FPU" /\ t[4][1][1] = "Clocking"
      /\ t[5][1][1] = "BogoMips" /\ t[6][1][1] = "Calibration"
      BY DEF Info!M68k, Info!Scan, Info!Single
<1>2. \A i \in 1 .. 6 : Len(t[i][1]) \in 1 .. 3
      BY DEF Info!M68k, Info!Scan, Info!Single
<1>4. Info!M68k.begin = <<>> /\ Info!M68k.lone = {} /\ Info!M68k.rep = <<>>
      BY DEF Info!M68k, Info!Scan, Info!Single
<1> HIDE DEF t
<1>5. ASSUME NEW i \in 1 .. 6, NEW j \in 1 .. i - 1 PROVE Differ(t[j][1], t[i][1])
  <2>1. t[j][1][1] # t[i][1][1]
        BY <1>1
  <2> QED BY <2>1 DEF Differ
<1>6. KeysInOrder(t)
      BY <1>0, <1>5 DEF KeysInOrder
<1>t. KeyTable(t)
      BY <1>0, <1>2, <1>6 DEF KeyTable
<1> QED BY <1>t, <1>4, NoKeys DEF t, WellMade, Starters

LEMMA MipsReads == WellMade(Info!Mips)
<1> DEFINE t == Info!Mips.fields
<1>0. Len(t) = 4
      BY DEF Info!Mips, Info!Scan, Info!Single
<1>1. t[1][1][1] = "system" /\ t[2][1][1] = "cpu" /\ t[3][1][1] = "cpu" /\ t[4][1][1] = "BogoMIPS"
      BY DEF Info!Mips, Info!Scan, Info!Single
<1>2. \A i \in 1 .. 4 : Len(t[i][1]) \in 1 .. 3
      BY DEF Info!Mips, Info!Scan, Info!Single
<1>3. Differ(t[2][1], t[3][1])
      BY DEF Info!Mips, Info!Scan, Info!Single, Differ
<1>4. Info!Mips.begin = <<>> /\ Info!Mips.lone = {} /\ Info!Mips.rep = <<>>
      BY DEF Info!Mips, Info!Scan, Info!Single
<1> HIDE DEF t
<1>5. ASSUME NEW i \in 1 .. 4, NEW j \in 1 .. i - 1 PROVE Differ(t[j][1], t[i][1])
  <2>1. t[j][1][1] # t[i][1][1] \/ (j = 2 /\ i = 3)
        BY <1>1
  <2>2. t[j][1][1] = t[i][1][1] => Differ(t[j][1], t[i][1])
        BY <1>3, <2>1
  <2> QED BY <2>2 DEF Differ
<1>6. KeysInOrder(t)
      BY <1>0, <1>5 DEF KeysInOrder
<1>t. KeyTable(t)
      BY <1>0, <1>2, <1>6 DEF KeyTable
<1> QED BY <1>t, <1>4, NoKeys DEF t, WellMade, Starters

LEMMA ShReads == WellMade(Info!Sh)
<1> DEFINE t == Info!Sh.fields
<1>0. Len(t) = 7
      BY DEF Info!Sh, Info!Scan, Info!Single
<1>1. t[1][1][1] = "machine" /\ t[2][1][1] = "cpu" /\ t[3][1][1] = "cpu" /\ t[4][1][1] = "cpu"
      /\ t[5][1][1] = "bus" /\ t[6][1][1] = "module" /\ t[7][1][1] = "bogomips"
      BY DEF Info!Sh, Info!Scan, Info!Single
<1>2. \A i \in 1 .. 7 : Len(t[i][1]) \in 1 .. 3
      BY DEF Info!Sh, Info!Scan, Info!Single
<1>3. Differ(t[2][1], t[3][1]) /\ Differ(t[2][1], t[4][1]) /\ Differ(t[3][1], t[4][1])
      BY DEF Info!Sh, Info!Scan, Info!Single, Differ
<1>4. Info!Sh.begin = <<>> /\ Info!Sh.lone = {} /\ Info!Sh.rep = <<>>
      BY DEF Info!Sh, Info!Scan, Info!Single
<1> HIDE DEF t
<1>5. ASSUME NEW i \in 1 .. 7, NEW j \in 1 .. i - 1 PROVE Differ(t[j][1], t[i][1])
  <2>1. t[j][1][1] # t[i][1][1] \/ (j = 2 /\ i = 3) \/ (j = 2 /\ i = 4) \/ (j = 3 /\ i = 4)
        BY <1>1
  <2>2. t[j][1][1] = t[i][1][1] => Differ(t[j][1], t[i][1])
        BY <1>3, <2>1
  <2> QED BY <2>2 DEF Differ
<1>6. KeysInOrder(t)
      BY <1>0, <1>5 DEF KeysInOrder
<1>t. KeyTable(t)
      BY <1>0, <1>2, <1>6 DEF KeyTable
<1> QED BY <1>t, <1>4, NoKeys DEF t, WellMade, Starters

LEMMA SparcReads == WellMade(Info!Sparc)
<1> DEFINE t == Info!Sparc.fields
<1>0. Len(t) = 3
      BY DEF Info!Sparc, Info!Scan, Info!Single
<1>1. t[1][1][1] = "cpu" /\ t[2][1][1] = "cpu" /\ t[3][1][1] = "fpu"
      BY DEF Info!Sparc, Info!Scan, Info!Single
<1>2. \A i \in 1 .. 3 : Len(t[i][1]) \in 1 .. 3
      BY DEF Info!Sparc, Info!Scan, Info!Single
<1>3. Differ(t[1][1], t[2][1])
      BY DEF Info!Sparc, Info!Scan, Info!Single, Differ
<1>4. Info!Sparc.begin = <<>> /\ Info!Sparc.lone = {} /\ Info!Sparc.rep = <<>>
      BY DEF Info!Sparc, Info!Scan, Info!Single
<1> HIDE DEF t
<1>5. ASSUME NEW i \in 1 .. 3, NEW j \in 1 .. i - 1 PROVE Differ(t[j][1], t[i][1])
  <2>1. t[j][1][1] # t[i][1][1] \/ (j = 1 /\ i = 2)
        BY <1>1
  <2>2. t[j][1][1] = t[i][1][1] => Differ(t[j][1], t[i][1])
        BY <1>3, <2>1
  <2> QED BY <2>2 DEF Differ
<1>6. KeysInOrder(t)
      BY <1>0, <1>5 DEF KeysInOrder
<1>t. KeyTable(t)
      BY <1>0, <1>2, <1>6 DEF KeyTable
<1> QED BY <1>t, <1>4, NoKeys DEF t, WellMade, Starters

(* The architectures are these, and the key lists of each are well made. *)
LEMMA ArchWellMade ==
  ASSUME file \in CpuFiles
  PROVE  WellMade(Info!Arch)
<1>1. file.arch \in {"x86", "e2k", "arm", "ppc", "parisc", "ia64", "riscv", "s390", "alpha", "loongarch64",
                     "m68k", "mips", "sh", "sparc"}
      BY CpuFilesAssumption DEF Info!OfKernel, Info!Scans
<1>2. /\ file.arch = "x86" => Info!Arch = Info!X86
      /\ file.arch = "e2k" => Info!Arch = Info!E2k
      /\ file.arch = "arm" => Info!Arch = Info!Arm
      /\ file.arch = "ppc" => Info!Arch = Info!Ppc
      /\ file.arch = "parisc" => Info!Arch = Info!Parisc
      /\ file.arch = "ia64" => Info!Arch = Info!Ia64
      /\ file.arch = "riscv" => Info!Arch = Info!Riscv
      BY DEF Info!Arch, Info!Scans
<1>3. /\ file.arch = "s390" => Info!Arch = Info!S390
      /\ file.arch = "alpha" => Info!Arch = Info!Alpha
      /\ file.arch = "loongarch64" => Info!Arch = Info!Loongarch
      /\ file.arch = "m68k" => Info!Arch = Info!M68k
      /\ file.arch = "mips" => Info!Arch = Info!Mips
      /\ file.arch = "sh" => Info!Arch = Info!Sh
      /\ file.arch = "sparc" => Info!Arch = Info!Sparc
      BY DEF Info!Arch, Info!Scans
<1>4. CASE file.arch \in {"x86", "e2k", "arm", "ppc", "parisc", "ia64", "riscv"}
      BY <1>2, <1>4, X86Reads, E2kReads, ArmReads, PpcReads, PariscReads, Ia64Reads, RiscvReads, Zenon
<1>5. CASE file.arch \in {"s390", "alpha", "loongarch64", "m68k", "mips", "sh", "sparc"}
      BY <1>3, <1>5, S390Reads, AlphaReads, LoongarchReads, M68kReads, MipsReads, ShReads, SparcReads, Zenon
<1> QED BY <1>1, <1>4, <1>5, Zenon

(* A key that begins with k begins with the words of k. *)
LEMMA PrefixWords ==
  ASSUME NEW k, NEW key, Len(k) \in Nat, Len(k) >= 1, Info!IsPrefix(k, key)
  PROVE  k[1] = key[1] /\ Len(k) <= Len(key) /\ (Len(k) > 1 => k[2] = key[2])
<1> DEFINE S == {k[i] : i \in 1 .. Len(k)} \cup {key[i] : i \in 1 .. Len(k)}
<1>1. \A i \in 1 .. Len(k) : k[i] \in S /\ key[i] \in S
      OBVIOUS
<1> HIDE DEF S
<1>2. \A i \in 1 .. Len(k) - 1 + 1 : SubSeq(k, 1, Len(k))[i] = k[1 + i - 1]
      BY <1>1, SubSeqProperties
<1>3. \A i \in 1 .. Len(k) - 1 + 1 : SubSeq(key, 1, Len(k))[i] = key[1 + i - 1]
      BY <1>1, SubSeqProperties
<1>4. SubSeq(k, 1, Len(k)) = SubSeq(key, 1, Len(k)) /\ Len(k) <= Len(key)
      BY DEF Info!IsPrefix
<1>5. \A i \in 1 .. Len(k) : k[i] = key[i]
  <2> TAKE i \in 1 .. Len(k)
  <2>1. SubSeq(k, 1, Len(k))[i] = k[i]
        BY <1>2
  <2>2. SubSeq(key, 1, Len(k))[i] = key[i]
        BY <1>3
  <2> QED BY <2>1, <2>2, <1>4
<1> QED BY <1>4, <1>5

(* A key begins with itself. *)
LEMMA PrefixSelf ==
  ASSUME NEW k, Len(k) \in Nat
  PROVE  Info!IsPrefix(k, k)
BY DEF Info!IsPrefix

(* What is not exceeded in a set is its greatest, and so for the least. *)
LEMMA GreatestIs ==
  ASSUME NEW T, NEW x \in T, T \subseteq Int, \A y \in T : x >= y
  PROVE  Info!Max(T) = x
<1>1. Info!Max(T) \in T /\ \A y \in T : Info!Max(T) >= y
      BY Zenon DEF Info!Max
<1>2. Info!Max(T) \in Int /\ x \in Int
      BY <1>1
<1>3. Info!Max(T) >= x /\ x >= Info!Max(T)
      BY <1>1
<1> QED BY <1>2, <1>3

LEMMA LeastIs ==
  ASSUME NEW T, NEW x \in T, T \subseteq Int, \A y \in T : x <= y
  PROVE  Info!Min(T) = x
<1>1. Info!Min(T) \in T /\ \A y \in T : Info!Min(T) <= y
      BY Zenon DEF Info!Min
<1>2. Info!Min(T) \in Int /\ x \in Int
      BY <1>1
<1>3. Info!Min(T) <= x /\ x <= Info!Min(T)
      BY <1>1
<1> QED BY <1>2, <1>3

(* Of the keys of a list, the first that one of them begins with is itself. *)
LEMMA KeyFindsItself ==
  ASSUME NEW keys, KeyTable(keys), NEW i \in 1 .. Len(keys)
  PROVE  /\ i \in Info!Matching(keys, keys[i][1])
         /\ Info!FieldOf(keys, keys[i][1]) = keys[i][2]
<1>1. i \in Info!Matching(keys, keys[i][1])
      BY PrefixSelf DEF Info!Matching, KeyTable
<1>2. ASSUME NEW j \in Info!Matching(keys, keys[i][1]) PROVE j \in Int /\ i <= j
  <2>1. j \in 1 .. Len(keys) /\ Info!IsPrefix(keys[j][1], keys[i][1]) /\ Len(keys) \in Nat
        BY <1>2 DEF Info!Matching, KeyTable
  <2>2. Len(keys[j][1]) \in 1 .. 3 /\ Len(keys[i][1]) \in 1 .. 3
        BY <2>1 DEF KeyTable
  <2>3. keys[j][1][1] = keys[i][1][1] /\ Len(keys[j][1]) <= Len(keys[i][1])
        /\ (Len(keys[j][1]) > 1 => keys[j][1][2] = keys[i][1][2])
        BY <2>1, <2>2, PrefixWords
  <2>4. ~Differ(keys[j][1], keys[i][1])
        BY <2>2, <2>3 DEF Differ
  <2>5. j \in 1 .. i - 1 => Differ(keys[j][1], keys[i][1])
        BY DEF KeyTable, KeysInOrder
  <2> QED BY <2>1, <2>4, <2>5
<1>3. Info!Matching(keys, keys[i][1]) \subseteq Int
      BY <1>2
<1>4. Info!Min(Info!Matching(keys, keys[i][1])) = i
      BY <1>1, <1>2, <1>3, LeastIs
<1> QED BY <1>1, <1>4 DEF Info!FieldOf

(* What a processor may have. *)
FileValues == {None, 0} \cup {file.lines[n].value : n \in 1 .. Len(file.lines)}
Processors == [id : FileValues, is : [Info!FieldNames -> FileValues]]

(* The fields that are not misread. *)
Told == {f \in Info!FieldNames : <<file.arch, f>> \notin Info!Misread}

(* A line is of the field whose key it has. *)
LEMMA KeyOfOneField ==
  ASSUME NEW keys, KeyTable(keys), NEW key, NEW f, key \in {keys[k][1] : k \in 1 .. Len(keys)}
  PROVE  /\ Info!Matching(keys, key) # {}
         /\ key \in Info!Keys(keys, f) <=> f = Info!FieldOf(keys, key)
<1>1. PICK i \in 1 .. Len(keys) : key = keys[i][1]
      OBVIOUS
<1>2. i \in Info!Matching(keys, key) /\ Info!FieldOf(keys, key) = keys[i][2]
      BY <1>1, KeyFindsItself
<1>3. ASSUME key \in Info!Keys(keys, f) PROVE f = Info!FieldOf(keys, key)
  <2>1. PICK k \in 1 .. Len(keys) : keys[k][2] = f /\ key = keys[k][1]
        BY <1>3 DEF Info!Keys
  <2> QED BY <2>1, KeyFindsItself
<1>4. ASSUME f = Info!FieldOf(keys, key) PROVE key \in Info!Keys(keys, f)
      BY <1>1, <1>2, <1>4 DEF Info!Keys
<1> QED BY <1>2, <1>3, <1>4

(* get_str() of a line gives a field that is not misread its value when the *)
(* line has exactly its key, and leaves it alone otherwise.                 *)
LEMMA GetIs ==
  ASSUME file \in CpuFiles, NEW n \in 1 .. Len(file.lines),
         NEW keys \in {Info!Arch.rep, Info!Arch.fields}, KeyTable(keys),
         NEW into \in [Info!FieldNames -> FileValues], NEW f \in Told
  PROVE  Info!Get(keys, file.lines[n], into)[f] =
           IF file.lines[n].key \in Info!Keys(keys, f) THEN file.lines[n].value ELSE into[f]
<1> DEFINE l == file.lines[n]
           M == Info!Matching(keys, l.key)
<1>1. \A i \in M : l.key \in {keys[k][1] : k \in 1 .. Len(keys)} \/ <<file.arch, keys[i][2]>> \in Info!Misread
      BY CpuFilesAssumption DEF Info!OfKernel, Info!Arch
<1>2. f \in Info!FieldNames /\ <<file.arch, f>> \notin Info!Misread
      BY DEF Told
<1>3. CASE l.key \in {keys[k][1] : k \in 1 .. Len(keys)}
  <2>1. M # {} /\ (l.key \in Info!Keys(keys, f) <=> f = Info!FieldOf(keys, l.key))
        BY <1>3, KeyOfOneField
  <2>2. Info!Get(keys, l, into) = [into EXCEPT ![Info!FieldOf(keys, l.key)] = l.value]
        BY <2>1 DEF Info!Get
  <2> HIDE DEF l
  <2> QED BY <2>1, <2>2, <1>2 DEF l
<1>4. CASE l.key \notin {keys[k][1] : k \in 1 .. Len(keys)}
  <2>1. l.key \notin Info!Keys(keys, f)
        BY <1>4 DEF Info!Keys
  <2>2. CASE M = {}
        BY <2>1, <2>2 DEF Info!Get
  <2>3. CASE M # {}
    <3>1. Info!Min(M) \in M
      <4>1. M \subseteq Nat
            BY DEF Info!Matching
      <4>2. \E x \in M : \A y \in M : x <= y
            BY <4>1, <2>3, Least
      <4> QED BY <4>2, Zenon DEF Info!Min
    <3>2. <<file.arch, keys[Info!Min(M)][2]>> \in Info!Misread
          BY <3>1, <1>1, <1>4
    <3>3. f # Info!FieldOf(keys, l.key)
          BY <3>2, <1>2 DEF Info!FieldOf
    <3>4. Info!Get(keys, l, into) = [into EXCEPT ![Info!FieldOf(keys, l.key)] = l.value]
          BY <2>3 DEF Info!Get
    <3> HIDE DEF l
    <3> QED BY <2>1, <3>3, <3>4, <1>2 DEF l
  <2> QED BY <2>2, <2>3
<1> QED BY <1>3, <1>4

(* get_str() keeps the record of a processor one. *)
LEMMA GetType ==
  ASSUME NEW keys, NEW l, NEW into \in [Info!FieldNames -> FileValues], l.value \in FileValues
  PROVE  Info!Get(keys, l, into) \in [Info!FieldNames -> FileValues]
BY DEF Info!Get

(* A line that is for all processors neither begins one nor is of one. *)
LEMMA RepStandsApart ==
  ASSUME WellMade(Info!Arch), NEW l, Info!Matching(Info!Arch.rep, l.key) # {}
  PROVE  /\ ~Info!Begins(l) /\ ~Info!TellsOfOne(l)
         /\ \A f : l.key \notin Info!Keys(Info!Arch.fields, f)
<1>1. PICK i \in 1 .. Len(Info!Arch.rep) : Info!IsPrefix(Info!Arch.rep[i][1], l.key)
      BY DEF Info!Matching
<1>2. Len(Info!Arch.rep[i][1]) \in 1 .. 3
      BY DEF WellMade, KeyTable
<1>3. l.key[1] = Info!Arch.rep[i][1][1]
      BY <1>1, <1>2, PrefixWords
<1>4. ASSUME NEW k \in Starters(Info!Arch) PROVE ~Info!IsPrefix(k, l.key)
  <2>1. Len(k) \in 1 .. 3 /\ Info!Arch.rep[i][1][1] # k[1]
        BY DEF WellMade
  <2> QED BY <2>1, <1>3, PrefixWords
<1>5. ~Info!Begins(l)
      BY <1>4 DEF Info!Begins, Starters
<1>6. ~Info!TellsOfOne(l)
      BY <1>4 DEF Info!TellsOfOne, Starters
<1>7. ASSUME NEW f, l.key \in Info!Keys(Info!Arch.fields, f) PROVE FALSE
  <2>1. PICK j \in 1 .. Len(Info!Arch.fields) : l.key = Info!Arch.fields[j][1]
        BY <1>7 DEF Info!Keys
  <2>2. Info!Arch.rep[i][1][1] # Info!Arch.fields[j][1][1]
        BY DEF WellMade
  <2> QED BY <2>1, <2>2, <1>3
<1> QED BY <1>5, <1>6, <1>7

(* A line that begins a processor says no more of it. *)
LEMMA BeginningStandsApart ==
  ASSUME WellMade(Info!Arch), NEW l, Info!Begins(l)
  PROVE  \A f : l.key \notin Info!Keys(Info!Arch.fields, f)
<1>1. Info!Arch.begin # <<>> /\ Info!IsPrefix(Info!Arch.begin, l.key) /\ Info!Arch.begin \in Starters(Info!Arch)
      BY DEF Info!Begins, Starters
<1>2. Len(Info!Arch.begin) \in 1 .. 3
      BY <1>1 DEF WellMade
<1>3. l.key[1] = Info!Arch.begin[1]
      BY <1>1, <1>2, PrefixWords
<1>7. ASSUME NEW f, l.key \in Info!Keys(Info!Arch.fields, f) PROVE FALSE
  <2>1. PICK j \in 1 .. Len(Info!Arch.fields) : l.key = Info!Arch.fields[j][1]
        BY <1>7 DEF Info!Keys
  <2>2. Info!Arch.fields[j][1][1] # Info!Arch.begin[1]
        BY <1>1 DEF WellMade
  <2> QED BY <2>1, <2>2, <1>3
<1> QED BY <1>7

(* A line with the key of a field for all is one that is looked for before. *)
LEMMA NotForAll ==
  ASSUME WellMade(Info!Arch), NEW l, Info!Matching(Info!Arch.rep, l.key) = {}
  PROVE  \A f : l.key \notin Info!Keys(Info!Arch.rep, f)
<1> SUFFICES ASSUME NEW f, l.key \in Info!Keys(Info!Arch.rep, f) PROVE FALSE
    OBVIOUS
<1>1. PICK i \in 1 .. Len(Info!Arch.rep) : l.key = Info!Arch.rep[i][1]
      BY DEF Info!Keys
<1>2. i \in Info!Matching(Info!Arch.rep, l.key)
      BY <1>1, KeyFindsItself DEF WellMade
<1> QED BY <1>2

(* The processors that begin up to line n. *)
Begun(n) == {b \in Info!Beginnings : b <= n}

(* A file has lines with values, and without a line that begins a processor *)
(* there is only one.                                                        *)
LEMMA FileFacts ==
  ASSUME file \in CpuFiles
  PROVE  /\ Len(file.lines) \in Nat
         /\ \A n \in 1 .. Len(file.lines) : file.lines[n].value # None
         /\ Info!Arch.begin = <<>> => Info!Arch.lone = {}
BY CpuFilesAssumption, ArchWellMade DEF Info!OfKernel, WellMade

(* Where processors begin: without a line that begins one, at 0.            *)
LEMMA WhereTheyBegin ==
  ASSUME file \in CpuFiles
  PROVE  /\ Info!Beginnings \subseteq 0 .. Len(file.lines)
         /\ Info!Arch.begin = <<>> => Info!Beginnings = {0} /\ \A n : ~Info!BeginsAt(n)
         /\ Info!Arch.begin # <<>> => /\ Info!Beginnings \subseteq 1 .. Len(file.lines)
                                      /\ \A n \in 1 .. Len(file.lines) : n \in Info!Beginnings <=> Info!BeginsAt(n)
<1>1. CASE Info!Arch.begin = <<>>
  <2>1. Info!Beginnings = {0}
        BY <1>1 DEF Info!Beginnings
  <2>2. \A n : ~Info!BeginsAt(n)
        BY <1>1, FileFacts DEF Info!BeginsAt, Info!Begins, Info!TellsOfOne
  <2>3. {0} \subseteq 0 .. Len(file.lines)
        BY FileFacts
  <2> QED BY <1>1, <2>1, <2>2, <2>3
<1>2. CASE Info!Arch.begin # <<>>
  <2>1. Info!Beginnings = {n \in 1 .. Len(file.lines) : Info!BeginsAt(n)}
        BY <1>2 DEF Info!Beginnings
  <2> QED BY <1>2, <2>1, FileFacts
<1> QED BY <1>1, <1>2

(* A line begins a processor or not. *)
LEMMA BegunNext ==
  ASSUME file \in CpuFiles, NEW n \in 0 .. Len(file.lines) - 1
  PROVE  Begun(n + 1) = IF Info!BeginsAt(n + 1) THEN Begun(n) \cup {n + 1} ELSE Begun(n)
<1>1. n + 1 \in 1 .. Len(file.lines) /\ \A b \in Info!Beginnings : b \in Int
      BY FileFacts, WhereTheyBegin
<1>2. n + 1 \in Info!Beginnings <=> Info!BeginsAt(n + 1)
      BY <1>1, WhereTheyBegin
<1>3. \A b \in Info!Beginnings : b <= n + 1 <=> b <= n \/ b = n + 1
      BY <1>1
<1> QED BY <1>2, <1>3 DEF Begun

(* While none has begun no line began one, *)
LEMMA NoneBegun ==
  ASSUME file \in CpuFiles, NEW n \in 0 .. Len(file.lines), Begun(n) = {}
  PROVE  /\ Info!Arch.begin # <<>>
         /\ \A m \in 1 .. n : ~Info!Begins(file.lines[m]) /\ ~Info!TellsOfOne(file.lines[m])
<1>1. Info!Arch.begin # <<>>
  <2>1. 0 <= n
        BY FileFacts
  <2>2. Info!Arch.begin = <<>> => 0 \in Begun(n)
        BY <2>1, WhereTheyBegin DEF Begun
  <2> QED BY <2>2
<1> DEFINE T == {m \in 1 .. n : Info!Begins(file.lines[m]) \/ Info!TellsOfOne(file.lines[m])}
<1>2. ASSUME T # {} PROVE FALSE
  <2>1. T \subseteq Nat
        OBVIOUS
  <2>2. PICK m \in T : \A y \in T : m <= y
        BY <2>1, <1>2, Least
  <2>3. m \in 1 .. n /\ m \in 1 .. Len(file.lines) /\ m <= n
        BY FileFacts
  <2>4. ASSUME NEW k \in 1 .. m - 1 PROVE ~Info!Begins(file.lines[k]) /\ ~Info!TellsOfOne(file.lines[k])
    <3>1. k \in 1 .. n /\ ~(m <= k)
          BY <2>3
    <3> QED BY <3>1, <2>2
  <2>5. Info!BeginsAt(m)
        BY <2>4 DEF Info!BeginsAt
  <2>6. m \in Begun(n)
        BY <2>5, <2>3, <1>1, WhereTheyBegin DEF Begun
  <2> QED BY <2>6
<1> QED BY <1>1, <1>2

(* and where one has begun a line did. *)
LEMMA SomeBegun ==
  ASSUME file \in CpuFiles, NEW n \in 0 .. Len(file.lines), NEW b \in Begun(n), Info!Arch.begin # <<>>
  PROVE  /\ b \in 1 .. n /\ Info!BeginsAt(b)
         /\ Info!Begins(file.lines[b]) \/ Info!TellsOfOne(file.lines[b])
<1>1. b \in Info!Beginnings /\ b <= n /\ b \in 1 .. Len(file.lines)
      BY WhereTheyBegin DEF Begun
<1>2. Info!BeginsAt(b)
      BY <1>1, WhereTheyBegin
<1>3. b \in 1 .. n
      BY <1>1, FileFacts
<1> QED BY <1>2, <1>3 DEF Info!BeginsAt

(* What is said for all, when a line is added. *)
LEMMA AllNext ==
  ASSUME file \in CpuFiles, NEW n \in 0 .. Len(file.lines) - 1, NEW f
  PROVE  Info!LastValue(Info!OfAll(f, n + 1)) =
           IF file.lines[n + 1].key \in Info!Keys(Info!Arch.rep, f) THEN file.lines[n + 1].value
           ELSE Info!LastValue(Info!OfAll(f, n))
<1> DEFINE K == Info!Keys(Info!Arch.rep, f)
<1>0. n \in Nat /\ \A m : m \in 1 .. n + 1 <=> m \in 1 .. n \/ m = n + 1
      BY FileFacts
<1> HIDE DEF K
<1>1. CASE file.lines[n + 1].key \in K
  <2>1. n + 1 \in Info!OfAll(f, n + 1) /\ Info!OfAll(f, n + 1) \subseteq 1 .. n + 1
        BY <1>0, <1>1 DEF Info!OfAll, K
  <2>2. Info!OfAll(f, n + 1) \subseteq Int /\ \A y \in Info!OfAll(f, n + 1) : n + 1 >= y
        BY <2>1, <1>0
  <2>3. Info!Max(Info!OfAll(f, n + 1)) = n + 1
        BY <2>1, <2>2, GreatestIs
  <2> QED BY <2>1, <2>3, <1>1 DEF Info!LastValue, K
<1>2. CASE file.lines[n + 1].key \notin K
  <2>1. Info!OfAll(f, n + 1) = Info!OfAll(f, n)
        BY <1>0, <1>2 DEF Info!OfAll, K
  <2> QED BY <2>1, <1>2 DEF K
<1> QED BY <1>1, <1>2

(* What is said of the processor that begins at b, when a line is added: the *)
(* line changes it when it has the field's key and no processor begins after *)
(* b.                                                                       *)
LEMMA SaidNext ==
  ASSUME file \in CpuFiles, NEW n \in 0 .. Len(file.lines) - 1, NEW b \in 0 .. n, NEW f
  PROVE  Info!Said(b, f, n + 1) =
           IF file.lines[n + 1].key \in Info!Keys(Info!Arch.fields, f) /\ \A s \in b + 1 .. n + 1 : ~Info!BeginsAt(s)
           THEN file.lines[n + 1].value ELSE Info!Said(b, f, n)
<1> DEFINE K == file.lines[n + 1].key \in Info!Keys(Info!Arch.fields, f) /\ \A s \in b + 1 .. n + 1 : ~Info!BeginsAt(s)
<1>0. n \in Nat /\ b \in Nat /\ (\A m : m \in b .. n + 1 <=> m \in b .. n \/ m = n + 1) /\ n + 1 > 0
      BY FileFacts
<1> HIDE DEF K
<1>1. CASE K
  <2>1. n + 1 \in Info!OfOne(b, f, n + 1) /\ Info!OfOne(b, f, n + 1) \subseteq b .. n + 1
        BY <1>0, <1>1 DEF Info!OfOne, K
  <2>2. Info!OfOne(b, f, n + 1) \subseteq Int /\ \A y \in Info!OfOne(b, f, n + 1) : n + 1 >= y
        BY <2>1, <1>0
  <2>3. Info!Max(Info!OfOne(b, f, n + 1)) = n + 1
        BY <2>1, <2>2, GreatestIs
  <2>4. Info!Said(b, f, n + 1) = file.lines[n + 1].value
        BY <2>1, <2>3 DEF Info!LastValue, Info!Said
  <2> QED BY <2>4, <1>1 DEF K
<1>2. CASE ~K
  <2>1. Info!OfOne(b, f, n + 1) = Info!OfOne(b, f, n)
        BY <1>0, <1>2 DEF Info!OfOne, K
  <2>2. Info!Said(b, f, n + 1) = Info!Said(b, f, n)
        BY <2>1 DEF Info!Said
  <2> QED BY <2>2, <1>2 DEF K
<1> QED BY <1>1, <1>2

(* What is said of a processor by the line where it begins. *)
LEMMA SaidFirst ==
  ASSUME file \in CpuFiles, NEW n \in 0 .. Len(file.lines) - 1, NEW f
  PROVE  Info!Said(n + 1, f, n + 1) =
           IF file.lines[n + 1].key \in Info!Keys(Info!Arch.fields, f) THEN file.lines[n + 1].value
           ELSE Info!LastValue(Info!OfAll(f, n + 1))
<1>0. n + 1 \in Nat /\ (\A m : m \in n + 1 .. n + 1 <=> m = n + 1) /\ n + 1 > 0 /\ \A s : s \notin n + 1 + 1 .. n + 1
      BY FileFacts
<1> DEFINE O == Info!OfOne(n + 1, f, n + 1)
<1>1. O = IF file.lines[n + 1].key \in Info!Keys(Info!Arch.fields, f) THEN {n + 1} ELSE {}
      BY <1>0 DEF Info!OfOne
<1>2. Info!Max({n + 1}) = n + 1
  <2> DEFINE m == n + 1
             T == {m}
  <2>1. m \in T /\ T \subseteq Int /\ \A y \in T : m >= y
        BY <1>0
  <2> HIDE DEF m, T
  <2>2. Info!Max(T) = m
        BY ONLY <2>1, GreatestIs, Zenon
  <2> QED BY <2>2 DEF m, T
<1>3. Info!Said(n + 1, f, n + 1) = IF O # {} THEN Info!LastValue(O) ELSE Info!LastValue(Info!OfAll(f, n + 1))
      BY DEF Info!Said
<1> HIDE DEF O
<1> QED BY <1>1, <1>2, <1>3 DEF Info!LastValue

(* The processors in s are those that begin up to line n, with what is said  *)
(* of them up to there.                                                      *)
ShowsAt(s, n, at) ==
  /\ at \in [1 .. Len(s) -> Begun(n)]
  /\ \A b \in Begun(n) : \E i \in 1 .. Len(s) : at[i] = b
  /\ \A i, j \in 1 .. Len(s) : i < j => at[i] < at[j]
  /\ \A i \in 1 .. Len(s), f \in Told : s[i].is[f] = Info!Said(at[i], f, n)
Shows(s, n) == \E at : ShowsAt(s, n, at)

(* What was read up to line n, with the processor that is being read. *)
FinishedOf(p, ps) == IF p.id = None THEN ps ELSE Append(ps, p)
ReadUpTo(n, r, p, ps) ==
  /\ r \in [Info!FieldNames -> FileValues] /\ p \in Processors /\ ps \in Seq(Processors)
  /\ \A f \in Told : r[f] = Info!LastValue(Info!OfAll(f, n))
  /\ p.id = None <=> Begun(n) = {}
  /\ Shows(FinishedOf(p, ps), n)

(* A processor begins before what was read. *)
LEMMA BegunAre ==
  ASSUME file \in CpuFiles, NEW n \in 0 .. Len(file.lines)
  PROVE  Begun(n) \subseteq 0 .. n
<1>1. \A b \in Begun(n) : b \in 0 .. Len(file.lines) /\ b <= n
      BY WhereTheyBegin DEF Begun
<1> QED BY <1>1, FileFacts

(* A line that begins a processor leaves those before it as they are. *)
LEMMA ShowsNew ==
  ASSUME file \in CpuFiles, NEW n \in 0 .. Len(file.lines) - 1, NEW s \in Seq(Processors), NEW q \in Processors,
         Shows(s, n), Info!BeginsAt(n + 1), \A f \in Told : q.is[f] = Info!Said(n + 1, f, n + 1)
  PROVE  Shows(Append(s, q), n + 1)
<1>1. PICK at : ShowsAt(s, n, at)
      BY DEF Shows
<1> DEFINE t == Append(s, q)
           to == [i \in 1 .. Len(t) |-> IF i <= Len(s) THEN at[i] ELSE n + 1]
<1>0. n \in 0 .. Len(file.lines) /\ n \in Nat /\ n + 1 \in Nat
      BY FileFacts
<1>2. Len(s) \in Nat /\ Len(t) = Len(s) + 1 /\ t[Len(s) + 1] = q /\ \A i \in 1 .. Len(s) : t[i] = s[i]
      BY AppendProperties
<1>3. Begun(n + 1) = Begun(n) \cup {n + 1} /\ Begun(n) \subseteq 0 .. n
      BY <1>0, BegunNext, BegunAre
<1>4. \A i \in 1 .. Len(s) : at[i] \in Begun(n) /\ at[i] \in 0 .. n
      BY <1>1, <1>3 DEF ShowsAt
<1> HIDE DEF t
<1>5. (\A i \in 1 .. Len(s) : i \in 1 .. Len(t) /\ to[i] = at[i]) /\ to[Len(t)] = n + 1 /\ Len(t) \in 1 .. Len(t)
      /\ \A i \in 1 .. Len(t) : i \in 1 .. Len(s) \/ i = Len(t)
      BY <1>2
<1>6. to \in [1 .. Len(t) -> Begun(n + 1)]
  <2>1. ASSUME NEW i \in 1 .. Len(t) PROVE to[i] \in Begun(n + 1)
    <3>1. CASE i \in 1 .. Len(s)
          BY <3>1, <1>3, <1>4, <1>5
    <3>2. CASE i = Len(t)
          BY <3>2, <1>3, <1>5
    <3> QED BY <3>1, <3>2, <1>5
  <2>2. to = [i \in 1 .. Len(t) |-> to[i]]
        OBVIOUS
  <2> HIDE DEF to
  <2> QED BY <2>1, <2>2
<1>7. ASSUME NEW b \in Begun(n + 1) PROVE \E i \in 1 .. Len(t) : to[i] = b
  <2>1. CASE b = n + 1
        BY <2>1, <1>5
  <2>2. CASE b \in Begun(n)
    <3>1. PICK i \in 1 .. Len(s) : at[i] = b
          BY <2>2, <1>1 DEF ShowsAt
    <3> HIDE DEF to
    <3> QED BY <3>1, <1>5
  <2> QED BY <2>1, <2>2, <1>3
<1>8. ASSUME NEW i \in 1 .. Len(t), NEW j \in 1 .. Len(t), i < j PROVE to[i] < to[j]
  <2>1. i \in 1 .. Len(s)
        BY <1>8, <1>2
  <2>2. CASE j \in 1 .. Len(s)
    <3>1. at[i] < at[j]
          BY <2>1, <2>2, <1>8, <1>1 DEF ShowsAt
    <3> HIDE DEF to
    <3> QED BY <3>1, <2>1, <2>2, <1>5
  <2>3. CASE j = Len(t)
    <3>1. to[i] \in 0 .. n /\ to[j] = n + 1
          BY <2>1, <2>3, <1>4, <1>5
    <3> HIDE DEF to
    <3> QED BY <3>1, <1>0
  <2> QED BY <2>2, <2>3, <1>5
<1>9. ASSUME NEW i \in 1 .. Len(t), NEW f \in Told PROVE t[i].is[f] = Info!Said(to[i], f, n + 1)
  <2>1. CASE i \in 1 .. Len(s)
    <3>1. s[i].is[f] = Info!Said(at[i], f, n) /\ at[i] \in 0 .. n
          BY <2>1, <1>1, <1>4 DEF ShowsAt
    <3>2. n + 1 \in at[i] + 1 .. n + 1
          BY <3>1, <1>0
    <3>3. Info!Said(at[i], f, n + 1) = Info!Said(at[i], f, n)
          BY <3>1, <3>2, SaidNext
    <3>4. t[i] = s[i] /\ to[i] = at[i]
          BY <2>1, <1>2, <1>5
    <3> HIDE DEF to
    <3> QED BY <3>1, <3>3, <3>4
  <2>2. CASE i = Len(t)
        BY <2>2, <1>2, <1>5
  <2> QED BY <2>1, <2>2, <1>5
<1> HIDE DEF to
<1>10. ShowsAt(t, n + 1, to)
       BY <1>6, <1>7, <1>8, <1>9 DEF ShowsAt
<1> QED BY <1>10 DEF Shows, t

(* So does one that says nothing of a processor. *)
LEMMA ShowsStill ==
  ASSUME file \in CpuFiles, NEW n \in 0 .. Len(file.lines) - 1, NEW s, Shows(s, n), ~Info!BeginsAt(n + 1),
         Begun(n) = {} \/ \A f : file.lines[n + 1].key \notin Info!Keys(Info!Arch.fields, f)
  PROVE  Shows(s, n + 1)
<1>1. PICK at : ShowsAt(s, n, at)
      BY DEF Shows
<1>0. n \in 0 .. Len(file.lines)
      BY FileFacts
<1>2. Begun(n + 1) = Begun(n) /\ Begun(n) \subseteq 0 .. n
      BY <1>0, BegunNext, BegunAre
<1>3. ASSUME NEW i \in 1 .. Len(s), NEW f \in Told PROVE s[i].is[f] = Info!Said(at[i], f, n + 1)
  <2>1. s[i].is[f] = Info!Said(at[i], f, n) /\ at[i] \in Begun(n)
        BY <1>1 DEF ShowsAt
  <2>2. Info!Said(at[i], f, n + 1) = Info!Said(at[i], f, n)
        BY <2>1, <1>2, SaidNext
  <2> QED BY <2>1, <2>2
<1>4. ShowsAt(s, n + 1, at)
      BY <1>1, <1>2, <1>3 DEF ShowsAt
<1> QED BY <1>4 DEF Shows

(* One that does changes the last. *)
LEMMA ShowsMore ==
  ASSUME file \in CpuFiles, NEW n \in 0 .. Len(file.lines) - 1, NEW s \in Seq(Processors), NEW p \in Processors,
         NEW q \in Processors, Shows(Append(s, p), n), ~Info!BeginsAt(n + 1),
         \A f \in Told : q.is[f] = IF file.lines[n + 1].key \in Info!Keys(Info!Arch.fields, f)
                                   THEN file.lines[n + 1].value ELSE p.is[f]
  PROVE  Shows(Append(s, q), n + 1)
<1>1. PICK at : ShowsAt(Append(s, p), n, at)
      BY DEF Shows
<1> DEFINE t == Append(s, p)
           u == Append(s, q)
<1>0. n \in 0 .. Len(file.lines) /\ n \in Nat /\ n + 1 \in Nat
      BY FileFacts
<1>2. /\ Len(s) \in Nat /\ Len(t) = Len(s) + 1 /\ Len(u) = Len(t)
      /\ t[Len(t)] = p /\ u[Len(t)] = q /\ \A i \in 1 .. Len(s) : t[i] = s[i] /\ u[i] = s[i]
      BY AppendProperties
<1>3. Begun(n + 1) = Begun(n) /\ Begun(n) \subseteq 0 .. n
      BY <1>0, BegunNext, BegunAre
<1>4. ShowsAt(t, n, at)
      BY <1>1
<1> HIDE DEF t, u
<1>5. /\ at \in [1 .. Len(t) -> Begun(n)]
      /\ \A b \in Begun(n) : \E i \in 1 .. Len(t) : at[i] = b
      /\ \A i, j \in 1 .. Len(t) : i < j => at[i] < at[j]
      /\ \A i \in 1 .. Len(t), f \in Told : t[i].is[f] = Info!Said(at[i], f, n)
      BY <1>4 DEF ShowsAt
<1>6. \A i \in 1 .. Len(t) : at[i] \in Begun(n) /\ at[i] \in 0 .. n /\ (i \in 1 .. Len(s) \/ i = Len(t))
      BY <1>2, <1>3, <1>5
<1>7. ASSUME NEW i \in 1 .. Len(u), NEW f \in Told PROVE u[i].is[f] = Info!Said(at[i], f, n + 1)
  <2>0. t[i].is[f] = Info!Said(at[i], f, n) /\ at[i] \in 0 .. n /\ i \in 1 .. Len(t)
        BY <1>2, <1>5, <1>6
  <2>1. CASE i \in 1 .. Len(s)
    <3> DEFINE c == at[Len(t)]
    <3>1. Len(t) \in 1 .. Len(t) /\ i < Len(t)
          BY <2>1, <1>2
    <3>2. at[i] < c /\ c \in Begun(n) /\ c \in 0 .. n
          BY <3>1, <2>0, <1>5, <1>6
    <3>3. Info!Arch.begin # <<>>
      <4>1. Info!Arch.begin = <<>> => at[i] = 0 /\ c = 0
            BY <3>2, <2>0, <1>6, WhereTheyBegin DEF Begun
      <4> QED BY <4>1, <3>2
    <3>4. Info!BeginsAt(c)
          BY <3>2, <3>3, <1>0, SomeBegun
    <3> HIDE DEF c
    <3>5. c \in at[i] + 1 .. n + 1
          BY <3>2, <2>0, <1>0
    <3>6. Info!Said(at[i], f, n + 1) = Info!Said(at[i], f, n)
          BY <2>0, <3>4, <3>5, SaidNext
    <3>7. u[i] = t[i]
          BY <2>1, <1>2
    <3> QED BY <2>0, <3>6, <3>7
  <2>2. CASE i = Len(t)
    <3>1. ASSUME NEW c \in at[i] + 1 .. n + 1 PROVE ~Info!BeginsAt(c)
      <4>1. CASE c = n + 1
            BY <4>1
      <4>2. CASE c # n + 1 /\ Info!BeginsAt(c)
        <5>1. c \in 1 .. n /\ c \in 1 .. Len(file.lines) /\ at[i] < c
              BY <4>2, <2>0, <1>0, FileFacts
        <5>2. c \in Begun(n)
              BY <5>1, <4>2, WhereTheyBegin DEF Begun
        <5>3. PICK j \in 1 .. Len(t) : at[j] = c
              BY <5>2, <1>5
        <5>4. j < i \/ j = i
              BY <2>2, <1>2
        <5>5. at[j] < at[i] \/ at[j] = at[i]
              BY <5>4, <2>0, <1>5
        <5> QED BY <5>1, <5>3, <5>5, <2>0
      <4> QED BY <4>1, <4>2
    <3>2. Info!Said(at[i], f, n + 1) = IF file.lines[n + 1].key \in Info!Keys(Info!Arch.fields, f)
                                       THEN file.lines[n + 1].value ELSE Info!Said(at[i], f, n)
          BY <3>1, <2>0, SaidNext
    <3>3. t[i] = p /\ u[i] = q
          BY <2>2, <1>2
    <3> QED BY <3>2, <3>3, <2>0
  <2> QED BY <2>0, <2>1, <2>2, <1>6
<1>8. ShowsAt(u, n + 1, at)
      BY <1>2, <1>3, <1>5, <1>7 DEF ShowsAt
<1> QED BY <1>8 DEF Shows, u

(* The kinds of lines, one by one. A line for all processors is kept for    *)
(* those that begin later.                                                   *)
LEMMA ReadRep ==
  ASSUME file \in CpuFiles, NEW n \in 0 .. Len(file.lines) - 1, NEW r, NEW p, NEW ps, ReadUpTo(n, r, p, ps),
         Info!Matching(Info!Arch.rep, file.lines[n + 1].key) # {}
  PROVE  ReadUpTo(n + 1, Info!Get(Info!Arch.rep, file.lines[n + 1], r), p, ps)
<1> DEFINE l == file.lines[n + 1]
           g == Info!Get(Info!Arch.rep, file.lines[n + 1], r)
<1>0. n \in 0 .. Len(file.lines) /\ n + 1 \in 1 .. Len(file.lines) /\ l.value \in FileValues
      BY FileFacts DEF FileValues
<1>1. r \in [Info!FieldNames -> FileValues] /\ p \in Processors /\ ps \in Seq(Processors)
      BY DEF ReadUpTo
<1>2. g \in [Info!FieldNames -> FileValues]
      BY <1>0, <1>1, GetType
<1>3. WellMade(Info!Arch) /\ KeyTable(Info!Arch.rep) /\ Info!Arch.rep \in {Info!Arch.rep, Info!Arch.fields}
      BY ArchWellMade DEF WellMade
<1>4. ~Info!Begins(l) /\ ~Info!TellsOfOne(l) /\ \A f : l.key \notin Info!Keys(Info!Arch.fields, f)
      BY <1>3, RepStandsApart
<1>5. ~Info!BeginsAt(n + 1)
      BY <1>4 DEF Info!BeginsAt
<1>6. \A f \in Told : g[f] = Info!LastValue(Info!OfAll(f, n + 1))
  <2> TAKE f \in Told
  <2>1. g[f] = IF l.key \in Info!Keys(Info!Arch.rep, f) THEN l.value ELSE r[f]
        BY <1>0, <1>1, <1>3, GetIs
  <2>2. r[f] = Info!LastValue(Info!OfAll(f, n))
        BY DEF ReadUpTo
  <2> QED BY <2>1, <2>2, AllNext
<1>7. Begun(n + 1) = Begun(n)
      BY <1>5, BegunNext
<1>8. p.id = None <=> Begun(n + 1) = {}
      BY <1>7 DEF ReadUpTo
<1>9. Shows(FinishedOf(p, ps), n + 1)
  <2>1. Shows(FinishedOf(p, ps), n)
        BY DEF ReadUpTo
  <2> QED BY <2>1, <1>4, <1>5, ShowsStill
<1> HIDE DEF g
<1>10. ReadUpTo(n + 1, g, p, ps)
       BY <1>1, <1>2, <1>6, <1>8, <1>9 DEF ReadUpTo
<1> QED BY <1>10 DEF g

(* The processors read are a list. *)
LEMMA FinishedType ==
  ASSUME NEW p \in Processors, NEW ps \in Seq(Processors)
  PROVE  FinishedOf(p, ps) \in Seq(Processors)
BY AppendProperties DEF FinishedOf

(* A line with a number finishes a processor and begins another. *)
LEMMA ReadBegins ==
  ASSUME file \in CpuFiles, NEW n \in 0 .. Len(file.lines) - 1, NEW r, NEW p, NEW ps, ReadUpTo(n, r, p, ps),
         Info!Matching(Info!Arch.rep, file.lines[n + 1].key) = {}, Info!Begins(file.lines[n + 1])
  PROVE  ReadUpTo(n + 1, r, [id |-> file.lines[n + 1].value, is |-> r], FinishedOf(p, ps))
<1> DEFINE l == file.lines[n + 1]
           q == [id |-> file.lines[n + 1].value, is |-> r]
<1>0. n \in 0 .. Len(file.lines) /\ n + 1 \in 1 .. Len(file.lines) /\ l.value \in FileValues /\ l.value # None
      BY FileFacts DEF FileValues
<1>1. r \in [Info!FieldNames -> FileValues] /\ p \in Processors /\ ps \in Seq(Processors)
      BY DEF ReadUpTo
<1>2. q \in Processors /\ q.id # None /\ q.is = r
      BY <1>0, <1>1 DEF Processors
<1>3. WellMade(Info!Arch)
      BY ArchWellMade
<1>4. \A f : l.key \notin Info!Keys(Info!Arch.fields, f) /\ l.key \notin Info!Keys(Info!Arch.rep, f)
      BY <1>3, BeginningStandsApart, NotForAll
<1>5. Info!BeginsAt(n + 1)
      BY DEF Info!BeginsAt
<1>6. \A f \in Told : r[f] = Info!LastValue(Info!OfAll(f, n + 1))
  <2> TAKE f \in Told
  <2>2. r[f] = Info!LastValue(Info!OfAll(f, n))
        BY DEF ReadUpTo
  <2> QED BY <1>4, <2>2, AllNext
<1>7. n + 1 \in Begun(n + 1)
      BY <1>5, BegunNext
<1>8. \A f \in Told : r[f] = Info!Said(n + 1, f, n + 1)
      BY <1>4, <1>6, SaidFirst
<1>9. Shows(FinishedOf(p, ps), n) /\ FinishedOf(p, ps) \in Seq(Processors)
      BY <1>1, FinishedType DEF ReadUpTo
<1> HIDE DEF q
<1>10. Shows(Append(FinishedOf(p, ps), q), n + 1)
       BY <1>2, <1>5, <1>8, <1>9, ShowsNew
<1>11. FinishedOf(q, FinishedOf(p, ps)) = Append(FinishedOf(p, ps), q)
       BY <1>2 DEF FinishedOf
<1>12. ReadUpTo(n + 1, r, q, FinishedOf(p, ps))
       BY <1>1, <1>2, <1>6, <1>7, <1>9, <1>10, <1>11 DEF ReadUpTo
<1> QED BY <1>12 DEF q

(* The first line that tells of a processor without a number begins it. *)
LEMMA ReadFirst ==
  ASSUME file \in CpuFiles, NEW n \in 0 .. Len(file.lines) - 1, NEW r, NEW p, NEW ps, ReadUpTo(n, r, p, ps),
         Info!Matching(Info!Arch.rep, file.lines[n + 1].key) = {},
         p.id = None, Info!TellsOfOne(file.lines[n + 1])
  PROVE  ReadUpTo(n + 1, r, [id |-> 0, is |-> Info!Get(Info!Arch.fields, file.lines[n + 1], r)], ps)
<1> DEFINE l == file.lines[n + 1]
           g == Info!Get(Info!Arch.fields, file.lines[n + 1], r)
           q == [id |-> 0, is |-> g]
<1>0. n \in 0 .. Len(file.lines) /\ n + 1 \in 1 .. Len(file.lines) /\ l.value \in FileValues /\ 0 \in FileValues /\ 0 # None
      BY FileFacts, SizesAssumption DEF FileValues
<1>1. r \in [Info!FieldNames -> FileValues] /\ p \in Processors /\ ps \in Seq(Processors)
      BY DEF ReadUpTo
<1>2. g \in [Info!FieldNames -> FileValues]
      BY <1>0, <1>1, GetType
<1>3. WellMade(Info!Arch) /\ KeyTable(Info!Arch.fields) /\ Info!Arch.fields \in {Info!Arch.rep, Info!Arch.fields}
      BY ArchWellMade DEF WellMade
<1>4. \A f : l.key \notin Info!Keys(Info!Arch.rep, f)
      BY <1>3, NotForAll
<1>a. Begun(n) = {}
      BY DEF ReadUpTo
<1>b. \A m \in 1 .. n : ~Info!Begins(file.lines[m]) /\ ~Info!TellsOfOne(file.lines[m])
      BY <1>0, <1>a, NoneBegun
<1>5. Info!BeginsAt(n + 1)
  <2>1. \A m \in 1 .. n + 1 - 1 : ~Info!Begins(file.lines[m]) /\ ~Info!TellsOfOne(file.lines[m])
        BY <1>b, <1>0
  <2> QED BY <2>1 DEF Info!BeginsAt
<1>6. \A f \in Told : r[f] = Info!LastValue(Info!OfAll(f, n + 1))
  <2> TAKE f \in Told
  <2>2. r[f] = Info!LastValue(Info!OfAll(f, n))
        BY DEF ReadUpTo
  <2> QED BY <1>4, <2>2, AllNext
<1>7. n + 1 \in Begun(n + 1)
      BY <1>5, BegunNext
<1>8. \A f \in Told : g[f] = Info!Said(n + 1, f, n + 1)
  <2> TAKE f \in Told
  <2>1. g[f] = IF l.key \in Info!Keys(Info!Arch.fields, f) THEN l.value ELSE r[f]
        BY <1>0, <1>1, <1>3, GetIs
  <2>2. r[f] = Info!LastValue(Info!OfAll(f, n + 1))
        BY <1>6
  <2> QED BY <2>1, <2>2, SaidFirst
<1> HIDE DEF g
<1>c. q \in Processors /\ q.id # None /\ q.is = g
      BY <1>0, <1>2 DEF Processors
<1> HIDE DEF q
<1>9. Shows(ps, n)
      BY DEF ReadUpTo, FinishedOf
<1>10. Shows(Append(ps, q), n + 1)
       BY <1>1, <1>c, <1>5, <1>8, <1>9, ShowsNew
<1>11. FinishedOf(q, ps) = Append(ps, q)
       BY <1>c DEF FinishedOf
<1>12. ReadUpTo(n + 1, r, q, ps)
       BY <1>1, <1>c, <1>6, <1>7, <1>10, <1>11 DEF ReadUpTo
<1> QED BY <1>12 DEF q, g

(* What comes before any processor is read past. *)
LEMMA ReadNone ==
  ASSUME file \in CpuFiles, NEW n \in 0 .. Len(file.lines) - 1, NEW r, NEW p, NEW ps, ReadUpTo(n, r, p, ps),
         Info!Matching(Info!Arch.rep, file.lines[n + 1].key) = {}, ~Info!Begins(file.lines[n + 1]),
         p.id = None, ~Info!TellsOfOne(file.lines[n + 1])
  PROVE  ReadUpTo(n + 1, r, Info!NoProcessor, ps)
<1> DEFINE l == file.lines[n + 1]
<1>1. r \in [Info!FieldNames -> FileValues] /\ ps \in Seq(Processors)
      BY DEF ReadUpTo
<1>2. Info!NoProcessor \in Processors /\ Info!NoProcessor.id = None
      BY DEF Info!NoProcessor, Info!Nothing, Processors, FileValues
<1>3. WellMade(Info!Arch)
      BY ArchWellMade
<1>4. \A f : l.key \notin Info!Keys(Info!Arch.rep, f)
      BY <1>3, NotForAll
<1>5. ~Info!BeginsAt(n + 1)
      BY DEF Info!BeginsAt
<1>6. \A f \in Told : r[f] = Info!LastValue(Info!OfAll(f, n + 1))
  <2> TAKE f \in Told
  <2>2. r[f] = Info!LastValue(Info!OfAll(f, n))
        BY DEF ReadUpTo
  <2> QED BY <1>4, <2>2, AllNext
<1>7. Begun(n) = {} /\ Begun(n + 1) = {}
      BY <1>5, BegunNext DEF ReadUpTo
<1>8. Shows(ps, n)
      BY DEF ReadUpTo, FinishedOf
<1>9. Shows(ps, n + 1)
      BY <1>5, <1>7, <1>8, ShowsStill
<1>10. Shows(FinishedOf(Info!NoProcessor, ps), n + 1)
       BY <1>2, <1>9 DEF FinishedOf
<1> QED BY <1>1, <1>2, <1>6, <1>7, <1>10 DEF ReadUpTo

(* A line that tells of the processor that is being read. *)
LEMMA ReadOne ==
  ASSUME file \in CpuFiles, NEW n \in 0 .. Len(file.lines) - 1, NEW r, NEW p, NEW ps, ReadUpTo(n, r, p, ps),
         Info!Matching(Info!Arch.rep, file.lines[n + 1].key) = {}, ~Info!Begins(file.lines[n + 1]), p.id # None
  PROVE  ReadUpTo(n + 1, r, [p EXCEPT !.is = Info!Get(Info!Arch.fields, file.lines[n + 1], p.is)], ps)
<1> DEFINE l == file.lines[n + 1]
           g == Info!Get(Info!Arch.fields, file.lines[n + 1], p.is)
           q == [p EXCEPT !.is = g]
<1>0. n \in 0 .. Len(file.lines) /\ n \in Nat /\ n + 1 \in 1 .. Len(file.lines) /\ l.value \in FileValues
      BY FileFacts DEF FileValues
<1>1. r \in [Info!FieldNames -> FileValues] /\ p \in Processors /\ ps \in Seq(Processors)
      BY DEF ReadUpTo
<1>p. p.is \in [Info!FieldNames -> FileValues]
      BY <1>1 DEF Processors
<1>2. g \in [Info!FieldNames -> FileValues]
      BY <1>0, <1>p, GetType
<1>3. WellMade(Info!Arch) /\ KeyTable(Info!Arch.fields) /\ Info!Arch.fields \in {Info!Arch.rep, Info!Arch.fields}
      BY ArchWellMade DEF WellMade
<1>4. \A f : l.key \notin Info!Keys(Info!Arch.rep, f)
      BY <1>3, NotForAll
<1>a. PICK b : b \in Begun(n)
      BY DEF ReadUpTo
<1>5. ~Info!BeginsAt(n + 1)
  <2>1. CASE Info!Arch.begin = <<>>
        BY <2>1, WhereTheyBegin
  <2>2. CASE Info!Arch.begin # <<>>
    <3>1. b \in 1 .. n /\ (Info!Begins(file.lines[b]) \/ Info!TellsOfOne(file.lines[b]))
          BY <2>2, <1>0, <1>a, SomeBegun
    <3>2. b \in 1 .. n + 1 - 1
          BY <3>1, <1>0
    <3> QED BY <3>1, <3>2 DEF Info!BeginsAt
  <2> QED BY <2>1, <2>2
<1>6. \A f \in Told : r[f] = Info!LastValue(Info!OfAll(f, n + 1))
  <2> TAKE f \in Told
  <2>2. r[f] = Info!LastValue(Info!OfAll(f, n))
        BY DEF ReadUpTo
  <2> QED BY <1>4, <2>2, AllNext
<1>7. Begun(n + 1) # {}
      BY <1>a, <1>5, BegunNext
<1>8. \A f \in Told : g[f] = IF l.key \in Info!Keys(Info!Arch.fields, f) THEN l.value ELSE p.is[f]
      BY <1>0, <1>p, <1>3, GetIs
<1> HIDE DEF g
<1>c. q \in Processors /\ q.id # None /\ q.is = g
      BY <1>1, <1>2 DEF Processors
<1> HIDE DEF q
<1>9. Shows(Append(ps, p), n)
      BY DEF ReadUpTo, FinishedOf
<1>10. Shows(Append(ps, q), n + 1)
       BY <1>1, <1>c, <1>5, <1>8, <1>9, ShowsMore
<1>11. FinishedOf(q, ps) = Append(ps, q)
       BY <1>c DEF FinishedOf
<1>12. ReadUpTo(n + 1, r, q, ps)
       BY <1>1, <1>c, <1>6, <1>7, <1>10, <1>11 DEF ReadUpTo
<1> QED BY <1>12 DEF q, g

(* All this is of the file, which stays the same. *)
LEMMA ArchSame ==
  ASSUME file' = file
  PROVE  /\ Info!Arch' = Info!Arch /\ Info!FieldNames' = Info!FieldNames /\ Told' = Told
         /\ FileValues' = FileValues /\ Processors' = Processors
<1>1. Info!Arch' = Info!Arch
      BY DEF Info!Arch
<1>2. Info!FieldNames' = Info!FieldNames
      BY <1>1 DEF Info!FieldNames
<1>3. FileValues' = FileValues /\ Told' = Told
      BY <1>2 DEF FileValues, Told
<1> QED BY <1>1, <1>2, <1>3 DEF Processors

LEMMA PlacesSame ==
  ASSUME file' = file
  PROVE  /\ \A n : Info!BeginsAt(n)' <=> Info!BeginsAt(n)
         /\ Info!Beginnings' = Info!Beginnings
         /\ \A n : Begun(n)' = Begun(n)
<1>1. Info!Arch' = Info!Arch
      BY ArchSame
<1>2. ASSUME NEW n PROVE Info!BeginsAt(n)' <=> Info!BeginsAt(n)
      BY <1>1 DEF Info!BeginsAt, Info!Begins, Info!TellsOfOne
<1>3. Info!Beginnings' = Info!Beginnings
      BY <1>1, <1>2 DEF Info!Beginnings
<1>4. \A n : Begun(n)' = Begun(n)
      BY <1>3 DEF Begun
<1> QED BY <1>2, <1>3, <1>4

LEMMA SaidSame ==
  ASSUME file' = file
  PROVE  /\ \A f, n : Info!LastValue(Info!OfAll(f, n))' = Info!LastValue(Info!OfAll(f, n))
         /\ \A b, f, n : Info!Said(b, f, n)' = Info!Said(b, f, n)
<1>1. Info!Arch' = Info!Arch
      BY ArchSame
<1>2. ASSUME NEW f, NEW n PROVE Info!OfAll(f, n)' = Info!OfAll(f, n)
      BY <1>1 DEF Info!OfAll, Info!Keys
<1>3. ASSUME NEW b, NEW f, NEW n PROVE Info!OfOne(b, f, n)' = Info!OfOne(b, f, n)
      BY <1>1, PlacesSame DEF Info!OfOne, Info!Keys
<1>4. ASSUME NEW T PROVE Info!LastValue(T)' = Info!LastValue(T)
      BY DEF Info!LastValue
<1>5. ASSUME NEW f, NEW n PROVE Info!LastValue(Info!OfAll(f, n))' = Info!LastValue(Info!OfAll(f, n))
      BY <1>2 DEF Info!LastValue
<1>6. ASSUME NEW b, NEW f, NEW n PROVE Info!Said(b, f, n)' = Info!Said(b, f, n)
      BY <1>2, <1>3 DEF Info!LastValue, Info!Said
<1> QED BY <1>5, <1>6

LEMMA ShowsSame ==
  ASSUME file' = file, NEW s, NEW n
  PROVE  Shows(s, n)' <=> Shows(s, n)
<1>1. ASSUME NEW at PROVE ShowsAt(s, n, at)' <=> ShowsAt(s, n, at)
      BY ArchSame, PlacesSame, SaidSame DEF ShowsAt
<1> QED BY <1>1 DEF Shows

LEMMA ReadSame ==
  ASSUME file' = file, NEW n, NEW r, NEW p, NEW ps
  PROVE  ReadUpTo(n, r, p, ps)' <=> ReadUpTo(n, r, p, ps)
<1>1. Shows(FinishedOf(p, ps), n)' <=> Shows(FinishedOf(p, ps), n)
      BY ShowsSame DEF FinishedOf
<1> QED BY <1>1, ArchSame, PlacesSame, SaidSame DEF ReadUpTo

(* What the property says of a list of processors. *)
MeetAt(s, at) ==
  /\ at \in [1 .. Len(s) -> Info!Beginnings]
  /\ \A b \in Info!Beginnings : \E i \in 1 .. Len(s) : at[i] = b
  /\ \A i, j \in 1 .. Len(s) : i < j => at[i] < at[j]
  /\ \A i \in 1 .. Len(s), f \in Told : s[i].is[f] = Info!Meant(at[i], f)
AsMeant(s) == \E at : MeetAt(s, at)

(* This is the property. *)
LEMMA AsMeantIs ==
  ASSUME pc = "done" => AsMeant(procs)
  PROVE  Info!LinesGoWhereTheyBelong
<1> SUFFICES ASSUME pc = "done"
    PROVE \E at \in [1 .. Len(procs) -> Info!Beginnings] :
      /\ \A b \in Info!Beginnings : \E i \in 1 .. Len(procs) : at[i] = b
      /\ \A i, j \in 1 .. Len(procs) : i < j => at[i] < at[j]
      /\ \A i \in 1 .. Len(procs), f \in Info!FieldNames :
           <<file.arch, f>> \in Info!Misread \/ procs[i].is[f] = Info!Meant(at[i], f)
    BY Zenon DEF Info!LinesGoWhereTheyBelong
<1>1. PICK at : MeetAt(procs, at)
      BY DEF AsMeant
<1>2. \A i \in 1 .. Len(procs), f \in Info!FieldNames :
        <<file.arch, f>> \in Info!Misread \/ procs[i].is[f] = Info!Meant(at[i], f)
      BY <1>1 DEF MeetAt, Told
<1> QED BY <1>1, <1>2, Zenon DEF MeetAt

LEMMA AsMeantSame ==
  ASSUME file' = file, NEW s
  PROVE  AsMeant(s)' <=> AsMeant(s)
<1>1. \A b, f : Info!Own(b, f)' = Info!Own(b, f)
      BY SaidSame DEF Info!Own
<1>2. Info!Tells' = Info!Tells /\ Info!Redup' = Info!Redup
      BY DEF Info!Tells, Info!Redup
<1>3. ASSUME NEW b PROVE Info!Full(b)' = Info!Full(b)
      BY <1>1, <1>2, PlacesSame DEF Info!Full
<1>4. ASSUME NEW b, NEW f PROVE Info!LeftOut(b, f)' <=> Info!LeftOut(b, f)
      BY <1>1, <1>2, <1>3 DEF Info!LeftOut
<1>5. ASSUME NEW b, NEW f PROVE Info!Meant(b, f)' = Info!Meant(b, f)
      BY <1>1, <1>3, <1>4 DEF Info!Meant
<1>6. ASSUME NEW at PROVE MeetAt(s, at)' <=> MeetAt(s, at)
      BY <1>5, ArchSame, PlacesSame DEF MeetAt
<1> QED BY <1>6 DEF AsMeant

(* At the end all processors of the file have begun. *)
LEMMA AllBegun ==
  ASSUME file \in CpuFiles
  PROVE  Begun(Len(file.lines)) = Info!Beginnings
<1>1. \A b \in Info!Beginnings : b <= Len(file.lines)
      BY FileFacts, WhereTheyBegin
<1> QED BY <1>1 DEF Begun

(* At the end of the file each processor has what is said of it. *)
LEMMA DoneAsMeant ==
  ASSUME file \in CpuFiles, NEW s, Shows(s, Len(file.lines)), file.arch \notin {"arm", "ppc"}
  PROVE  AsMeant(s)
<1>1. PICK at : ShowsAt(s, Len(file.lines), at)
      BY DEF Shows
<1>2. ASSUME NEW b, NEW f PROVE Info!Meant(b, f) = Info!Said(b, f, Len(file.lines))
      BY DEF Info!Meant, Info!LeftOut, Info!Own
<1>3. MeetAt(s, at)
      BY <1>1, <1>2, AllBegun DEF MeetAt, ShowsAt
<1> QED BY <1>3 DEF AsMeant

(* Nothing of the two that are filled in is misread. *)
LEMMA TellingField ==
  ASSUME file.arch \in {"arm", "ppc"}
  PROVE  Told = Info!FieldNames /\ Info!Tells \in Told
<1>1. Told = Info!FieldNames
      BY DEF Told, Info!Misread
<1>2. CASE file.arch = "arm"
  <2>1. Info!Arch = Info!Arm /\ Info!Tells = "flags"
        BY <1>2 DEF Info!Arch, Info!Scans, Info!Tells
  <2>2. 2 \in DOMAIN Info!Arm.fields /\ Info!Arm.fields[2][2] = "flags"
        BY DEF Info!Arm, Info!Scan
  <2>3. Info!Arm.fields[2] \in Info!ToSet(Info!Arm.fields)
        BY <2>2 DEF Info!ToSet
  <2> QED BY <1>1, <2>1, <2>2, <2>3 DEF Info!FieldNames
<1>3. CASE file.arch = "ppc"
  <2>1. Info!Arch = Info!Ppc /\ Info!Tells = "model_name"
        BY <1>3 DEF Info!Arch, Info!Scans, Info!Tells
  <2>2. 1 \in DOMAIN Info!Ppc.fields /\ Info!Ppc.fields[1][2] = "model_name"
        BY DEF Info!Ppc, Info!Scan
  <2>3. Info!Ppc.fields[1] \in Info!ToSet(Info!Ppc.fields)
        BY <2>2 DEF Info!ToSet
  <2> QED BY <1>1, <2>1, <2>2, <2>3 DEF Info!FieldNames
<1> QED BY <1>1, <1>2, <1>3

(* The processors after the reduplication. *)
Refilled ==
  [i \in 1 .. Len(procs) |->
     IF Info!Later(i) = {} \/ i \in Info!Later(i) THEN procs[i]
     ELSE [procs[i] EXCEPT !.is = Info!Filled(procs[i], procs[Info!Min(Info!Later(i))])]]

(* The later processors that have what tells are those of the file. *)
LEMMA LaterAre ==
  ASSUME file \in CpuFiles, file.arch \in {"arm", "ppc"}, procs \in Seq(Processors),
         NEW at, ShowsAt(procs, Len(file.lines), at), NEW i \in 1 .. Len(procs)
  PROVE  /\ Info!Later(i) \subseteq 1 .. Len(procs)
         /\ \A j \in 1 .. Len(procs) : j \in Info!Later(i) <=> at[j] \in Info!Full(at[i])
         /\ \A b \in Info!Full(at[i]) : \E j \in Info!Later(i) : at[j] = b
         /\ Info!Later(i) # {} => /\ Info!Min(Info!Later(i)) \in Info!Later(i)
                                  /\ Info!Min(Info!Full(at[i])) = at[Info!Min(Info!Later(i))]
<1> DEFINE N == Len(file.lines)
<1>1. /\ at \in [1 .. Len(procs) -> Info!Beginnings]
      /\ \A b \in Info!Beginnings : \E j \in 1 .. Len(procs) : at[j] = b
      /\ \A j, k \in 1 .. Len(procs) : j < k => at[j] < at[k]
      /\ \A j \in 1 .. Len(procs), f \in Told : procs[j].is[f] = Info!Own(at[j], f)
      BY AllBegun DEF ShowsAt, Info!Own
<1>2. Len(procs) \in Nat /\ Info!Beginnings \subseteq Int
      BY WhereTheyBegin
<1>3. \A j \in 1 .. Len(procs) : at[j] \in Info!Beginnings /\ at[j] \in Int
      BY <1>1, <1>2
<1>4. Info!Later(i) \subseteq 1 .. Len(procs) /\ Info!Later(i) \subseteq Nat
      BY <1>2 DEF Info!Later
<1>5. ASSUME NEW j \in 1 .. Len(procs) PROVE i <= j <=> at[i] <= at[j]
  <2>1. i < j \/ i = j \/ j < i
        BY <1>2
  <2>2. i < j => at[i] < at[j]
        BY <1>1
  <2>3. j < i => at[j] < at[i]
        BY <1>1
  <2>4. at[i] \in Int /\ at[j] \in Int /\ i \in Int /\ j \in Int
        BY <1>3
  <2> QED BY <2>1, <2>2, <2>3, <2>4
<1>6. ASSUME NEW j \in 1 .. Len(procs) PROVE j \in Info!Later(i) <=> at[j] \in Info!Full(at[i])
  <2>1. procs[j].is[Info!Tells] = Info!Own(at[j], Info!Tells)
        BY <1>1, TellingField
  <2>2. j \in Info!Later(i) <=> i <= j /\ procs[j].is[Info!Tells] # None
        BY <1>2 DEF Info!Later
  <2>3. at[j] \in Info!Full(at[i]) <=> at[i] <= at[j] /\ Info!Own(at[j], Info!Tells) # None
        BY <1>3 DEF Info!Full
  <2> QED BY <1>5, <2>1, <2>2, <2>3
<1>7. ASSUME NEW b \in Info!Full(at[i]) PROVE \E j \in Info!Later(i) : at[j] = b
  <2>1. PICK j \in 1 .. Len(procs) : at[j] = b
        BY <1>1 DEF Info!Full
  <2> QED BY <2>1, <1>6
<1>8. ASSUME Info!Later(i) # {}
      PROVE  /\ Info!Min(Info!Later(i)) \in Info!Later(i)
             /\ Info!Min(Info!Full(at[i])) = at[Info!Min(Info!Later(i))]
  <2> DEFINE m == Info!Min(Info!Later(i))
  <2>1. m \in Info!Later(i) /\ \A j \in Info!Later(i) : m <= j
    <3>1. \E x \in Info!Later(i) : \A y \in Info!Later(i) : x <= y
          BY <1>4, <1>8, Least
    <3> QED BY <3>1, Zenon DEF Info!Min
  <2> HIDE DEF m
  <2>2. m \in 1 .. Len(procs) /\ at[m] \in Info!Full(at[i])
        BY <2>1, <1>4, <1>6
  <2>3. ASSUME NEW b \in Info!Full(at[i]) PROVE at[m] <= b
    <3>1. PICK j \in Info!Later(i) : at[j] = b
          BY <1>7
    <3>2. m <= j /\ j \in 1 .. Len(procs)
          BY <2>1, <1>4
    <3>3. m < j \/ m = j
          BY <3>2, <2>2, <1>2
    <3>4. at[m] < at[j] \/ at[m] = at[j]
          BY <3>2, <3>3, <2>2, <1>1
    <3> QED BY <3>1, <3>2, <3>4, <2>2, <1>3
  <2>4. Info!Full(at[i]) \subseteq Int
        BY <1>2 DEF Info!Full
  <2>5. Info!Min(Info!Full(at[i])) = at[m]
        BY <2>2, <2>3, <2>4, LeastIs
  <2> QED BY <2>1, <2>5 DEF m
<1> QED BY <1>4, <1>6, <1>7, <1>8

(* They are as many as before. *)
LEMMA RefilledType ==
  ASSUME procs \in Seq(Processors)
  PROVE  Refilled \in Seq(Processors) /\ Len(Refilled) = Len(procs) /\ Len(procs) \in Nat
<1>1. Len(procs) \in Nat /\ \A i \in 1 .. Len(procs) : procs[i] \in Processors
      OBVIOUS
<1>2. ASSUME NEW i \in 1 .. Len(procs) PROVE Refilled[i] \in Processors
  <2>1. CASE Info!Later(i) = {} \/ i \in Info!Later(i)
        BY <2>1, <1>1 DEF Refilled
  <2>2. CASE ~(Info!Later(i) = {} \/ i \in Info!Later(i))
    <3> DEFINE m == Info!Min(Info!Later(i))
               d == Info!Filled(procs[i], procs[m])
    <3>1. Info!Later(i) \subseteq 1 .. Len(procs) /\ Info!Later(i) \subseteq Nat
          BY <1>1 DEF Info!Later
    <3>2. \E x \in Info!Later(i) : \A y \in Info!Later(i) : x <= y
          BY <3>1, <2>2, Least
    <3>3. m \in Info!Later(i)
          BY <3>2, Zenon DEF Info!Min
    <3> HIDE DEF m
    <3>4. procs[m] \in Processors /\ procs[i] \in Processors
          BY <3>1, <3>3, <1>1
    <3>5. d \in [Info!FieldNames -> FileValues]
          BY <3>4 DEF Info!Filled, Processors
    <3>6. Refilled[i] = [procs[i] EXCEPT !.is = d]
          BY <2>2 DEF Refilled, m
    <3> HIDE DEF d
    <3> QED BY <3>4, <3>5, <3>6 DEF Processors
  <2> QED BY <2>1, <2>2
<1>3. Refilled = [i \in 1 .. Len(procs) |-> Refilled[i]]
      BY DEF Refilled
<1>4. Refilled \in Seq(Processors) /\ Len(Refilled) = Len(procs)
  <2> DEFINE R(i) == Refilled[i]
  <2>1. \A i \in 1 .. Len(procs) : R(i) \in Processors
        BY <1>2
  <2>2. Refilled = [i \in 1 .. Len(procs) |-> R(i)]
        BY <1>3
  <2> HIDE DEF R
  <2> QED BY <2>1, <2>2, <1>1
<1> QED BY <1>1, <1>4

(* A processor has what it has itself, or what the next that tells has. *)
LEMMA RefilledAsMeant ==
  ASSUME file \in CpuFiles, file.arch \in {"arm", "ppc"}, procs \in Seq(Processors), Shows(procs, Len(file.lines))
  PROVE  AsMeant(Refilled)
<1>1. PICK at : ShowsAt(procs, Len(file.lines), at)
      BY DEF Shows
<1>2. /\ at \in [1 .. Len(procs) -> Info!Beginnings]
      /\ \A b \in Info!Beginnings : \E j \in 1 .. Len(procs) : at[j] = b
      /\ \A j, k \in 1 .. Len(procs) : j < k => at[j] < at[k]
      /\ \A j \in 1 .. Len(procs), f \in Told : procs[j].is[f] = Info!Own(at[j], f)
      BY <1>1, AllBegun DEF ShowsAt, Info!Own
<1>3. Len(Refilled) = Len(procs) /\ Len(procs) \in Nat /\ \A i \in 1 .. Len(procs) : procs[i] \in Processors
      BY RefilledType
<1>4. ASSUME NEW i \in 1 .. Len(procs), NEW f \in Told PROVE Refilled[i].is[f] = Info!Meant(at[i], f)
  <2> DEFINE own == procs[i].is[f]
             m == Info!Min(Info!Later(i))
  <2>0. own = Info!Own(at[i], f) /\ f \in Info!FieldNames
        BY <1>2, TellingField
  <2>1. /\ Info!Later(i) \subseteq 1 .. Len(procs)
        /\ i \in Info!Later(i) <=> at[i] \in Info!Full(at[i])
        /\ Info!Later(i) = {} <=> Info!Full(at[i]) = {}
        /\ Info!Later(i) # {} => m \in Info!Later(i) /\ Info!Min(Info!Full(at[i])) = at[m]
    <3>1. /\ Info!Later(i) \subseteq 1 .. Len(procs)
          /\ \A j \in 1 .. Len(procs) : j \in Info!Later(i) <=> at[j] \in Info!Full(at[i])
          /\ \A b \in Info!Full(at[i]) : \E j \in Info!Later(i) : at[j] = b
          /\ Info!Later(i) # {} => m \in Info!Later(i) /\ Info!Min(Info!Full(at[i])) = at[m]
          BY <1>1, LaterAre
    <3> HIDE DEF m
    <3> QED BY <3>1
  <2>2. Info!Meant(at[i], f) = IF /\ f \in Info!Redup /\ own = None
                                  /\ at[i] \notin Info!Full(at[i]) /\ Info!Full(at[i]) # {}
                               THEN Info!Own(Info!Min(Info!Full(at[i])), f) ELSE own
        BY <2>0 DEF Info!Meant, Info!LeftOut
  <2>3. CASE Info!Later(i) = {} \/ i \in Info!Later(i)
    <3>1. Refilled[i] = procs[i]
          BY <2>3 DEF Refilled
    <3>2. Info!Meant(at[i], f) = own
          BY <2>1, <2>2, <2>3
    <3> QED BY <3>1, <3>2
  <2>4. CASE ~(Info!Later(i) = {} \/ i \in Info!Later(i))
    <3>1. m \in 1 .. Len(procs) /\ Info!Min(Info!Full(at[i])) = at[m]
          /\ at[i] \notin Info!Full(at[i]) /\ Info!Full(at[i]) # {}
          BY <2>1, <2>4
    <3>2. procs[m].is[f] = Info!Own(at[m], f)
          BY <3>1, <1>2
    <3> DEFINE d == Info!Filled(procs[i], procs[m])
    <3>3. d[f] = IF f \in Info!Redup /\ own = None THEN procs[m].is[f] ELSE own
          BY <2>0 DEF Info!Filled
    <3>4. Refilled[i] = [procs[i] EXCEPT !.is = d]
          BY <2>4 DEF Refilled
    <3> HIDE DEF d, m
    <3>5. Refilled[i].is = d
          BY <3>4, <1>3 DEF Processors
    <3> HIDE DEF own
    <3> QED BY <3>1, <3>2, <3>3, <3>5, <2>2
  <2> QED BY <2>3, <2>4
<1>5. MeetAt(Refilled, at)
      BY <1>2, <1>3, <1>4 DEF MeetAt
<1> QED BY <1>5 DEF AsMeant

(* The inductive invariant: what was read is what the lines up to there say. *)
CpuInv ==
  /\ file \in CpuFiles /\ line \in 0 .. Len(file.lines) /\ procs \in Seq(Processors)
  /\ pc \in {"read", "redup", "done", "crash"}
  /\ pc = "read" => ReadUpTo(line, rep, processor, procs)
  /\ pc = "redup" => file.arch \in {"arm", "ppc"} /\ Shows(procs, Len(file.lines))
  /\ pc = "done" => AsMeant(procs)

(* Before the first line it holds, *)
LEMMA CpuInit ==
  ASSUME Info!Init
  PROVE  CpuInv
<1>1. /\ file \in CpuFiles /\ line = 0 /\ procs = <<>> /\ pc = "read" /\ rep = Info!Nothing
      /\ processor = IF Info!Arch.begin = <<>> THEN [id |-> 0, is |-> Info!Nothing] ELSE Info!NoProcessor
      BY DEF Info!Init
<1>2. line \in 0 .. Len(file.lines) /\ procs \in Seq(Processors)
      BY <1>1, FileFacts
<1>3. /\ Info!Nothing \in [Info!FieldNames -> FileValues]
      /\ [id |-> 0, is |-> Info!Nothing] \in Processors /\ Info!NoProcessor \in Processors
      /\ Info!NoProcessor.id = None /\ 0 # None
      BY SizesAssumption DEF Info!Nothing, Info!NoProcessor, Processors, FileValues
<1>4. \A f : Info!OfAll(f, 0) = {} /\ Info!LastValue({}) = None
      BY DEF Info!OfAll, Info!LastValue
<1>5. \A f \in Told : Info!Nothing[f] = None
      BY DEF Info!Nothing, Told
<1>6. processor.id = None <=> Begun(0) = {}
      BY <1>1, <1>3, WhereTheyBegin DEF Begun
<1>7. Shows(FinishedOf(processor, procs), 0)
  <2>1. CASE Info!Arch.begin = <<>>
    <3> DEFINE p == [id |-> 0, is |-> Info!Nothing]
    <3>1. FinishedOf(processor, procs) = <<p>>
          BY <2>1, <1>1, <1>3 DEF FinishedOf
    <3>2. Begun(0) = {0}
          BY <2>1, <1>1, WhereTheyBegin DEF Begun
    <3>3. ASSUME NEW f \in Told PROVE Info!Said(0, f, 0) = None
      <4>1. Info!OfOne(0, f, 0) = {}
            BY DEF Info!OfOne
      <4> QED BY <4>1, <1>4 DEF Info!Said
    <3>4. Len(<<p>>) = 1 /\ <<p>>[1] = p /\ p.is = Info!Nothing
          OBVIOUS
    <3> HIDE DEF p
    <3>5. ShowsAt(<<p>>, 0, [i \in 1 .. 1 |-> 0])
          BY <3>2, <3>3, <3>4, <1>5 DEF ShowsAt
    <3> QED BY <3>1, <3>5 DEF Shows
  <2>2. CASE Info!Arch.begin # <<>>
    <3>1. FinishedOf(processor, procs) = <<>> /\ Begun(0) = {}
          BY <2>2, <1>1, <1>3, <1>6 DEF FinishedOf
    <3>2. ShowsAt(<<>>, 0, [i \in 1 .. 0 |-> 0])
          BY <3>1 DEF ShowsAt
    <3> QED BY <3>1, <3>2 DEF Shows
  <2> QED BY <2>1, <2>2
<1>8. processor \in Processors
      BY <1>1, <1>3
<1>9. ReadUpTo(0, rep, processor, procs)
      BY <1>1, <1>2, <1>3, <1>4, <1>5, <1>6, <1>7, <1>8 DEF ReadUpTo
<1> QED BY <1>1, <1>2, <1>9 DEF CpuInv

(* a line keeps it, *)
LEMMA CpuRead ==
  ASSUME CpuInv, Info!ReadLine
  PROVE  CpuInv'
<1> DEFINE l == file.lines[line + 1]
           M == Info!Matching(Info!Arch.rep, l.key)
           known == IF processor.id = None /\ Info!TellsOfOne(l) THEN Info!New(0) ELSE processor
<1>0. pc = "read" /\ line < Len(file.lines) /\ line' = line + 1 /\ file' = file /\ pc' = pc
      BY DEF Info!ReadLine
<1>1. file \in CpuFiles /\ line \in 0 .. Len(file.lines) - 1 /\ line + 1 \in 0 .. Len(file.lines)
      BY <1>0, FileFacts DEF CpuInv
<1>2. ReadUpTo(line, rep, processor, procs)
      BY <1>0 DEF CpuInv
<1>3. Info!Finished = FinishedOf(processor, procs)
      BY DEF Info!Finished, FinishedOf
<1>4. \/ M # {} /\ rep' = Info!Get(Info!Arch.rep, l, rep) /\ processor' = processor /\ procs' = procs
      \/ M = {} /\ Info!Begins(l) /\ procs' = Info!Finished /\ processor' = Info!New(l.value) /\ rep' = rep
      \/ /\ M = {} /\ ~Info!Begins(l) /\ rep' = rep /\ procs' = procs
         /\ processor' = IF known.id = None THEN Info!NoProcessor
                         ELSE [known EXCEPT !.is = Info!Get(Info!Arch.fields, l, @)]
      BY DEF Info!ReadLine
<1> HIDE DEF M
<1>5. ReadUpTo(line + 1, rep', processor', procs')
  <2>1. CASE M # {} /\ rep' = Info!Get(Info!Arch.rep, l, rep) /\ processor' = processor /\ procs' = procs
        BY <2>1, <1>1, <1>2, ReadRep DEF M
  <2>2. CASE M = {} /\ Info!Begins(l) /\ procs' = Info!Finished /\ processor' = Info!New(l.value) /\ rep' = rep
        BY <2>2, <1>1, <1>2, <1>3, ReadBegins DEF M, Info!New
  <2>3. CASE /\ M = {} /\ ~Info!Begins(l) /\ rep' = rep /\ procs' = procs
             /\ processor' = IF known.id = None THEN Info!NoProcessor
                             ELSE [known EXCEPT !.is = Info!Get(Info!Arch.fields, l, @)]
    <3>1. CASE processor.id = None /\ Info!TellsOfOne(l)
      <4>1. known = [id |-> 0, is |-> rep] /\ known.id # None
            BY <3>1, SizesAssumption DEF Info!New
      <4>2. processor' = [id |-> 0, is |-> Info!Get(Info!Arch.fields, l, rep)]
            BY <2>3, <4>1
      <4>3. ReadUpTo(line + 1, rep, [id |-> 0, is |-> Info!Get(Info!Arch.fields, l, rep)], procs)
            BY <2>3, <3>1, <1>1, <1>2, ReadFirst DEF M
      <4> QED BY <4>2, <4>3, <2>3
    <3>2. CASE processor.id = None /\ ~Info!TellsOfOne(l)
      <4>1. processor' = Info!NoProcessor
            BY <2>3, <3>2
      <4>2. ReadUpTo(line + 1, rep, Info!NoProcessor, procs)
            BY <2>3, <3>2, <1>1, <1>2, ReadNone DEF M
      <4> QED BY <4>1, <4>2, <2>3
    <3>3. CASE processor.id # None
      <4>1. processor' = [processor EXCEPT !.is = Info!Get(Info!Arch.fields, l, processor.is)]
            BY <2>3, <3>3
      <4>2. ReadUpTo(line + 1, rep, [processor EXCEPT !.is = Info!Get(Info!Arch.fields, l, processor.is)], procs)
            BY <2>3, <3>3, <1>1, <1>2, ReadOne DEF M
      <4> QED BY <4>1, <4>2, <2>3
    <3> QED BY <3>1, <3>2, <3>3
  <2> QED BY <1>4, <2>1, <2>2, <2>3
<1>6. ReadUpTo(line, rep, processor, procs)'
      BY <1>0, <1>5, ReadSame
<1>7. procs' \in Seq(Processors)
      BY <1>5 DEF ReadUpTo
<1>8. /\ file' \in CpuFiles /\ line' \in 0 .. Len(file'.lines) /\ procs' \in Seq(Processors')
      /\ pc' = "read"
      BY <1>0, <1>1, <1>7, ArchSame
<1> QED BY <1>6, <1>8 DEF CpuInv

(* the end of the file turns it into the property or what is filled in from, *)
LEMMA CpuEnd ==
  ASSUME CpuInv, Info!EndOfFile
  PROVE  CpuInv'
<1>0. pc = "read" /\ line = Len(file.lines) /\ line' = line /\ file' = file /\ procs' = Info!Finished
      /\ pc' = IF file.arch \in {"arm", "ppc"} THEN "redup" ELSE "done"
      BY DEF Info!EndOfFile
<1>1. file \in CpuFiles /\ line \in 0 .. Len(file.lines) /\ ReadUpTo(line, rep, processor, procs)
      BY <1>0 DEF CpuInv
<1>2. Info!Finished = FinishedOf(processor, procs)
      BY DEF Info!Finished, FinishedOf
<1>3. procs' \in Seq(Processors) /\ Shows(procs', Len(file.lines))
      BY <1>0, <1>1, <1>2, FinishedType DEF ReadUpTo
<1>4. /\ file' \in CpuFiles /\ line' \in 0 .. Len(file'.lines) /\ procs' \in Seq(Processors')
      BY <1>0, <1>1, <1>3, ArchSame
<1>5. CASE file.arch \in {"arm", "ppc"}
  <2>1. Shows(procs, Len(file.lines))'
        BY <1>0, <1>3, ShowsSame
  <2> QED BY <1>0, <1>4, <1>5, <2>1 DEF CpuInv
<1>6. CASE file.arch \notin {"arm", "ppc"}
  <2>1. AsMeant(procs')
        BY <1>1, <1>3, <1>6, DoneAsMeant
  <2>2. AsMeant(procs)'
        BY <1>0, <2>1, AsMeantSame
  <2> QED BY <1>0, <1>4, <1>6, <2>2 DEF CpuInv
<1> QED BY <1>5, <1>6

(* filling in turns that into the property, *)
LEMMA CpuRedup ==
  ASSUME CpuInv, Info!Reduplicate
  PROVE  CpuInv'
<1>0. pc = "redup" /\ line' = line /\ file' = file /\ procs' = Refilled /\ pc' \in {"done", "crash"}
      BY DEF Info!Reduplicate, Refilled
<1>1. /\ file \in CpuFiles /\ line \in 0 .. Len(file.lines) /\ procs \in Seq(Processors)
      /\ file.arch \in {"arm", "ppc"} /\ Shows(procs, Len(file.lines))
      BY <1>0 DEF CpuInv
<1>2. Refilled \in Seq(Processors) /\ AsMeant(Refilled)
      BY <1>1, RefilledType, RefilledAsMeant
<1>3. /\ file' \in CpuFiles /\ line' \in 0 .. Len(file'.lines) /\ procs' \in Seq(Processors')
      BY <1>0, <1>1, <1>2, ArchSame
<1>4. AsMeant(procs')
      BY <1>0, <1>2
<1>5. AsMeant(procs)'
      BY <1>0, <1>4, AsMeantSame
<1> QED BY <1>0, <1>3, <1>5 DEF CpuInv

(* and nothing else touches it. *)
LEMMA CpuStutter ==
  ASSUME CpuInv, UNCHANGED Info!vars
  PROVE  CpuInv'
<1>0. file' = file /\ line' = line /\ rep' = rep /\ processor' = processor /\ procs' = procs /\ pc' = pc
      BY DEF Info!vars
<1>1. /\ ReadUpTo(line, rep, processor, procs)' <=> ReadUpTo(line, rep, processor, procs)
      /\ Shows(procs, Len(file.lines))' <=> Shows(procs, Len(file.lines))
      /\ AsMeant(procs)' <=> AsMeant(procs)
      BY <1>0, ReadSame, ShowsSame, AsMeantSame
<1>2. Processors' = Processors
      BY <1>0, ArchSame
<1> QED BY <1>0, <1>1, <1>2 DEF CpuInv

(* Each processor of /proc/cpuinfo is there once, in the order of the file,  *)
(* and shows what the lines with exactly a field's key say of it, or what    *)
(* the processor says that it shares its values with: on any architecture,   *)
(* for any file with the keys of a kernel and as many processors as it has.  *)
THEOREM CpusForAll == ProgramSpec => []CpusAreRight
<1> DEFINE I == live = "cpuinfo" => CpuInv
<1>1. ProgramInit => I
      BY CpuInit DEF ProgramInit, Own
<1>2. I /\ [ProgramNext]_its => I'
  <2>1. ASSUME I, ProgramNext, live = "cpuinfo" PROVE CpuInv'
    <3>1. CpuInv /\ Info!Next
          BY <2>1 DEF ProgramNext, Own
    <3> QED BY <3>1, CpuRead, CpuEnd, CpuRedup DEF Info!Next
  <2>2. ASSUME CpuInv, UNCHANGED its PROVE CpuInv'
    <3>1. UNCHANGED Info!vars
          BY <2>2 DEF its
    <3> QED BY <2>2, <3>1, CpuStutter
  <2> QED BY <2>1, <2>2, LiveStays DEF its
<1>3. I => CpusAreRight
  <2>1. CpuInv => Info!LinesGoWhereTheyBelong
        BY AsMeantIs DEF CpuInv
  <2> QED BY <2>1 DEF CpusAreRight
<1> HIDE DEF I
<1> QED BY <1>1, <1>2, <1>3, PTL DEF ProgramSpec
=============================================================================
