----------------------------- MODULE LogProofs ------------------------------
(***************************************************************************)
(* Proofs about xv6's log and buffer cache, for any number of processes,   *)
(* buffers and blocks, any operations and any size of the log, crashes     *)
(* included: the cache is sound, begin_op loses no wakeup, and no panic    *)
(* but those of a full log and of a full cache is reached.                 *)
(*                                                                         *)
(* The inductive invariant LInv says of each process where in its program  *)
(* it is (Programs), and from this which blocks it holds: Cache relates    *)
(* what a process has still to release to the buffers it has locked, the   *)
(* references it has taken and the requests it has put in the disk's       *)
(* queue.  Counted relates the programs to outstanding and committing, and *)
(* Cleared says when the log must be empty, which is what makes a sleeper  *)
(* of begin_op always wait for somebody.                                   *)
(*                                                                         *)
(* First come the programs, as sequences of instructions: which            *)
(* instructions there are, what of a program tells the blocks a process    *)
(* holds (Open, Balanced), and where an instruction can stand in a program *)
(* (Ordered).  The lemmas show that both survive every way in which a step *)
(* of Log changes a program, and that the programs Log starts with have    *)
(* them.                                                                   *)
(***************************************************************************)
EXTENDS Log, SequenceTheorems, FiniteSetTheorems, TLAPS

-----------------------------------------------------------------------------
(* Instructions *)

Instrs ==
  {<<"begin">>, <<"end">>, <<"write_head">>, <<"read_head">>, <<"clear">>, <<"up">>, <<"done">>}
  \cup ({"bread", "brelse"} \X Blocks)
  \cup ({"lock", "iderw", "wait", "unref"} \X Bufs)
  \cup ({"body"} \X Seq(Homes) \X Values)
  \cup ({"log_write"} \X Homes \X Values)
  \cup ({"write_log", "install_trans"} \X (Nat \ {0}))
  \cup ({"copy"} \X (Blocks \ {Header}) \X (Blocks \ {Header}))

-----------------------------------------------------------------------------
(* Programs.  What a process holds can be told from what it still has to do: *)
(* block b is open where its next bread or brelse is a brelse.               *)

OpIs(x, o, b) == x[1] = o /\ x[2] = b

Open(c, k, b) == \E n \in k .. Len(c) : /\ OpIs(c[n], "brelse", b)
                                        /\ \A j \in k .. n : ~OpIs(c[j], "bread", b)

\* After instruction x block b is held.
Needs(x, b) == \/ x[1] \in {"bread", "log_write", "copy"} /\ x[2] = b
               \/ x[1] = "copy" /\ x[3] = b
               \/ x[1] \in {"write_head", "read_head"} /\ b = Header

\* The instructions after which nothing is held.
Bare == {"begin", "body", "end", "write_log", "install_trans", "clear", "up", "done"}

Balanced(c) == \A k \in 1 .. Len(c), b \in Blocks :
  /\ Needs(c[k], b) => Open(c, k + 1, b)
  /\ OpIs(c[k], "brelse", b) \/ c[k][1] \in Bare => ~Open(c, k + 1, b)

\* The instructions of bread, bwrite and brelse.
Low == {"lock", "iderw", "wait", "unref"}

LastOp(c) == IF c = << >> THEN "none" ELSE c[Len(c)][1]

HasOp(c, o) == \E k \in 1 .. Len(c) : c[k][1] = o

\* Where instruction k may stand, counted from the end of the program.
OrderedAt(c, k) ==
  /\ c[k][1] \in Low \cup {"begin"} => k = 1
  /\ c[k][1] \in {"end", "done", "up"} => k = Len(c)
  /\ c[k][1] \in {"begin", "body", "log_write"} => LastOp(c) = "end"
  /\ c[k][1] = "clear" =>
       k = Len(c) - 4 /\ c[k + 2][1] = "write_head" /\ LastOp(c) \in {"done", "up"}
  /\ c[k][1] = "install_trans" => k = Len(c) - 5 /\ c[k + 1][1] = "clear"
  /\ c[k][1] = "write_head" =>
       \/ k = Len(c) - 2 /\ LastOp(c) \in {"done", "up"}
       \/ k = Len(c) - 7 /\ c[k + 2] = <<"install_trans", 1>> /\ LastOp(c) = "done"
  /\ c[k][1] = "read_head" =>
       k = Len(c) - 7 /\ c[k + 2] = <<"install_trans", 1>> /\ LastOp(c) = "up"
  /\ c[k][1] = "write_log" => k = Len(c) - 9 /\ c[k + 2][1] = "write_head"
  /\ c[k][1] = "copy" => k + 3 <= Len(c) /\ c[k + 3][1] \in {"write_log", "install_trans"}

Ordered(c) == \A k \in 1 .. Len(c) : OrderedAt(c, k)

\* A copy is between a block that h lists and its place in the log.
CopyMatches(c, k, h) == c[k][1] = "copy" => \E t \in 1 .. Len(h) :
  \/ c[k + 3] = <<"write_log", t + 1>> /\ c[k] = <<"copy", LogBlocks[t], h[t]>>
  \/ c[k + 3] = <<"install_trans", t + 1>> /\ c[k] = <<"copy", h[t], LogBlocks[t]>>

Matches(c, h) == \A k \in 1 .. Len(c) : CopyMatches(c, k, h)

-----------------------------------------------------------------------------
(* Sequences of instructions *)

\* What comes after the first instruction of c, behind s.
LEMMA Prepend ==
  ASSUME NEW c \in Seq(Instrs), c # << >>, NEW s \in Seq(Instrs)
  PROVE  /\ s \o Tail(c) \in Seq(Instrs)
         /\ Len(c) \in Nat \ {0} /\ Len(s) \in Nat
         /\ Len(s \o Tail(c)) = Len(s) + Len(c) - 1
         /\ \A k \in 1 .. Len(s) : (s \o Tail(c))[k] = s[k]
         /\ \A k \in 2 .. Len(c) : (s \o Tail(c))[k + Len(s) - 1] = c[k]
<1>1. Len(c) \in Nat \ {0} /\ Len(s) \in Nat
  BY LenProperties, EmptySeq
<1>2. Tail(c) \in Seq(Instrs) /\ Len(Tail(c)) = Len(c) - 1
      /\ \A k \in 1 .. Len(Tail(c)) : Tail(c)[k] = c[k + 1]
  BY HeadTailProperties
<1>3. /\ s \o Tail(c) \in Seq(Instrs) /\ Len(s \o Tail(c)) = Len(s) + Len(Tail(c))
      /\ \A k \in 1 .. Len(s) + Len(Tail(c)) :
           (s \o Tail(c))[k] = IF k <= Len(s) THEN s[k] ELSE Tail(c)[k - Len(s)]
  BY <1>2, ConcatProperties
<1>4. ASSUME NEW k \in 2 .. Len(c) PROVE (s \o Tail(c))[k + Len(s) - 1] = c[k]
  <2>1. k + Len(s) - 1 \in 1 .. Len(s) + Len(Tail(c)) /\ ~(k + Len(s) - 1 <= Len(s))
        /\ k + Len(s) - 1 - Len(s) = k - 1 /\ k - 1 \in 1 .. Len(Tail(c))
    BY <1>1, <1>2
  <2>2. (s \o Tail(c))[k + Len(s) - 1] = Tail(c)[k - 1]
    BY <1>3, <2>1
  <2> QED
    BY <1>2, <2>1, <2>2
<1>5. \A k \in 1 .. Len(s) : (s \o Tail(c))[k] = s[k]
  BY <1>1, <1>2, <1>3
<1> QED
  BY <1>1, <1>2, <1>3, <1>4, <1>5

\* Behind s, what is open in c is open in the same places.
LEMMA OpenShift ==
  ASSUME NEW c \in Seq(Instrs), NEW d \in Seq(Instrs), NEW n \in Int, Len(d) = Len(c) + n,
         NEW m \in Nat \ {0}, m + n \in Nat \ {0}, \A k \in m .. Len(c) : d[k + n] = c[k],
         NEW k \in m .. Len(c) + 1, NEW b
  PROVE  Open(d, k + n, b) <=> Open(c, k, b)
<1>1. Len(c) \in Nat /\ Len(d) \in Nat /\ k \in Nat /\ m \in Nat
  BY LenProperties
<1>2. ASSUME Open(c, k, b) PROVE Open(d, k + n, b)
  <2> PICK x \in k .. Len(c) : OpIs(c[x], "brelse", b) /\ \A j \in k .. x : ~OpIs(c[j], "bread", b)
    BY <1>2 DEF Open
  <2>1. x + n \in k + n .. Len(d) /\ d[x + n] = c[x]
    BY <1>1
  <2>2. ASSUME NEW j \in k + n .. x + n PROVE ~OpIs(d[j], "bread", b)
    <3>1. j - n \in k .. x /\ j - n \in m .. Len(c) /\ (j - n) + n = j
      BY <1>1, <2>1
    <3>2. d[j] = c[j - n]
      BY <3>1
    <3> QED
      BY <3>1, <3>2
  <2> QED
    BY <2>1, <2>2 DEF Open
<1>3. ASSUME Open(d, k + n, b) PROVE Open(c, k, b)
  <2> PICK x \in k + n .. Len(d) : /\ OpIs(d[x], "brelse", b)
                                   /\ \A j \in k + n .. x : ~OpIs(d[j], "bread", b)
    BY <1>3 DEF Open
  <2>1. x - n \in k .. Len(c) /\ x - n \in m .. Len(c) /\ (x - n) + n = x
    BY <1>1
  <2>2. d[x] = c[x - n]
    BY <2>1
  <2>3. ASSUME NEW j \in k .. x - n PROVE ~OpIs(c[j], "bread", b)
    <3>1. j + n \in k + n .. x /\ j \in m .. Len(c)
      BY <1>1, <2>1
    <3>2. d[j + n] = c[j]
      BY <3>1
    <3> QED
      BY <3>1, <3>2
  <2> QED
    BY <2>1, <2>2, <2>3 DEF Open
<1> QED
  BY <1>2, <1>3

\* The first instruction opens or closes a block, or leaves it.
LEMMA OpenHead ==
  ASSUME NEW c \in Seq(Instrs), NEW k \in 1 .. Len(c), NEW b
  PROVE  Open(c, k, b) <=> \/ OpIs(c[k], "brelse", b)
                           \/ ~OpIs(c[k], "bread", b) /\ Open(c, k + 1, b)
<1>1. Len(c) \in Nat
  BY LenProperties
<1>2. ASSUME OpIs(c[k], "brelse", b) PROVE Open(c, k, b)
  <2>1. ~OpIs(c[k], "bread", b)
    BY <1>2 DEF OpIs
  <2>2. k \in k .. Len(c) /\ \A j \in k .. k : j = k
    BY <1>1
  <2> QED
    BY <1>2, <2>1, <2>2 DEF Open
<1>3. ASSUME ~OpIs(c[k], "bread", b), Open(c, k + 1, b) PROVE Open(c, k, b)
  <2> PICK x \in k + 1 .. Len(c) : /\ OpIs(c[x], "brelse", b)
                                   /\ \A j \in k + 1 .. x : ~OpIs(c[j], "bread", b)
    BY <1>3 DEF Open
  <2>1. x \in k .. Len(c) /\ \A j \in k .. x : j = k \/ j \in k + 1 .. x
    BY <1>1
  <2> QED
    BY <1>3, <2>1 DEF Open
<1>4. ASSUME Open(c, k, b), ~OpIs(c[k], "brelse", b)
      PROVE  ~OpIs(c[k], "bread", b) /\ Open(c, k + 1, b)
  <2> PICK x \in k .. Len(c) : OpIs(c[x], "brelse", b) /\ \A j \in k .. x : ~OpIs(c[j], "bread", b)
    BY <1>4 DEF Open
  <2>1. x # k
    BY <1>4
  <2>2. k \in k .. x /\ x \in k + 1 .. Len(c) /\ \A j \in k + 1 .. x : j \in k .. x
    BY <1>1, <2>1
  <2> QED
    BY <2>2 DEF Open
<1> QED
  BY <1>2, <1>3, <1>4

\* What is behind the first instruction keeps the last one.
LEMMA LastBehind ==
  ASSUME NEW c \in Seq(Instrs), c # << >>, NEW s \in Seq(Instrs)
  PROVE  /\ Len(c) # 1 => LastOp(s \o Tail(c)) = LastOp(c)
         /\ Len(c) = 1 => s \o Tail(c) = s
<1> DEFINE d == s \o Tail(c)
<1>1. /\ d \in Seq(Instrs) /\ Len(c) \in Nat \ {0} /\ Len(s) \in Nat
      /\ Len(d) = Len(s) + Len(c) - 1
      /\ \A k \in 1 .. Len(s) : d[k] = s[k]
      /\ \A k \in 2 .. Len(c) : d[k + Len(s) - 1] = c[k]
  BY Prepend
<1>2. ASSUME Len(c) # 1 PROVE LastOp(d) = LastOp(c)
  <2>1. d[Len(d)] = c[Len(c)] /\ Len(d) > 0
    <3>1. PICK m \in Nat \ {0}, n \in Nat : m = Len(c) /\ n = Len(s)
      BY <1>1
    <3>2. m \in 2 .. m /\ m + n - 1 > 0 /\ Len(d) = m + n - 1
      <4> HIDE DEF d
      <4>1. Len(d) = m + n - 1
        BY <1>1, <3>1
      <4> QED
        BY <1>2, <3>1, <4>1
    <3> HIDE DEF d
    <3>3. d[m + n - 1] = c[m]
      BY <1>1, <3>1, <3>2
    <3> QED
      BY <3>1, <3>2, <3>3
  <2> HIDE DEF d
  <2>2. d # << >>
    BY <2>1
  <2> QED
    BY <2>1, <2>2 DEF LastOp
<1>3. ASSUME Len(c) = 1 PROVE d = s
  <2>1. Len(Tail(c)) = 0 /\ Tail(c) \in Seq(Instrs)
    BY <1>3, HeadTailProperties
  <2>2. Tail(c) = << >>
    BY <2>1, EmptySeq
  <2> QED
    BY <2>2, ConcatEmptySeq
<1> QED
  BY <1>2, <1>3

\* Behind s the order of c stands.
LEMMA OrderedBehind ==
  ASSUME NEW c \in Seq(Instrs), c # << >>, NEW s \in Seq(Instrs), Ordered(c),
         \A k \in 1 .. Len(s) : OrderedAt(s \o Tail(c), k)
  PROVE  Ordered(s \o Tail(c))
<1> DEFINE d == s \o Tail(c)
           n == Len(s) - 1
<1>1. /\ d \in Seq(Instrs) /\ Len(c) \in Nat \ {0} /\ Len(s) \in Nat
      /\ Len(d) = Len(s) + Len(c) - 1
      /\ \A k \in 2 .. Len(c) : d[k + Len(s) - 1] = c[k]
  BY Prepend
<1>2. n \in Int /\ Len(d) = Len(c) + n /\ \A k \in 2 .. Len(c) : d[k + n] = c[k]
  <2>1. ASSUME NEW k \in 2 .. Len(c) PROVE k + n = k + Len(s) - 1
    BY <1>1
  <2> QED
    BY <1>1, <2>1
<1>3. \A k \in 1 .. Len(s) : OrderedAt(d, k)
  OBVIOUS
<1> HIDE DEF d, n
<1>4. ASSUME NEW k \in 2 .. Len(c) PROVE OrderedAt(d, k + n)
  <2>1. LastOp(d) = LastOp(c)
    <3>1. Len(c) # 1
      BY <1>1
    <3> QED
      BY <1>1, <3>1, LastBehind DEF d
  <2>2. k \in 1 .. Len(c) /\ OrderedAt(c, k) /\ k # 1 /\ k \in Int
    BY <1>1 DEF Ordered
  <2>3. d[k + n] = c[k]
    BY <1>2
  <2>4. \A j \in 1 .. 3 : k + j <= Len(c) => d[k + n + j] = c[k + j]
    <3> TAKE j \in 1 .. 3
    <3>1. k + j <= Len(c) => k + j \in 2 .. Len(c) /\ k + n + j = (k + j) + n
      BY <1>1, <1>2
    <3> QED
      BY <1>2, <3>1
  <2>5. \A j \in Int : k = Len(c) - j => k + n = Len(d) - j
    <3>1. Len(c) \in Int /\ n \in Int /\ Len(d) = Len(c) + n
      BY <1>2, LenProperties
    <3> QED
      BY <3>1
  <2>6. k = Len(c) => k + n = Len(d)
    BY <1>2
  <2>7. ASSUME c[k][1] = "install_trans" PROVE d[k + n + 1] = c[k + 1]
    BY <2>2, <2>4, <2>7, <1>1 DEF OrderedAt
  <2>8. ASSUME c[k][1] \in {"write_head", "read_head", "write_log", "clear"}, k # Len(c) - 2
        PROVE  d[k + n + 2] = c[k + 2]
    BY <2>2, <2>4, <2>8, <1>1 DEF OrderedAt
  <2>9. ASSUME c[k][1] = "copy"
        PROVE  d[k + n + 3] = c[k + 3] /\ k + n + 3 <= Len(d)
    BY <2>2, <2>4, <2>9, <1>1, <1>2 DEF OrderedAt
  <2>10. c[k][1] \in Low \cup {"begin"} => FALSE
    BY <2>2 DEF OrderedAt
  <2>11. /\ d[k + n][1] \in Low \cup {"begin"} => k + n = 1
         /\ d[k + n][1] \in {"end", "done", "up"} => k + n = Len(d)
         /\ d[k + n][1] \in {"begin", "body", "log_write"} => LastOp(d) = "end"
    BY <2>1, <2>2, <2>3, <2>6, <2>10 DEF OrderedAt
  <2>12. d[k + n][1] = "clear" =>
           k + n = Len(d) - 4 /\ d[k + n + 2][1] = "write_head" /\ LastOp(d) \in {"done", "up"}
    <3> HAVE d[k + n][1] = "clear"
    <3>1. k = Len(c) - 4 /\ c[k + 2][1] = "write_head" /\ LastOp(c) \in {"done", "up"}
      BY <2>2, <2>3 DEF OrderedAt
    <3>2. k # Len(c) - 2
      BY <3>1, <1>1
    <3>3. d[k + n + 2] = c[k + 2]
      BY <3>2, <2>3, <2>8
    <3> QED
      BY <3>1, <3>3, <2>1, <2>5
  <2>13. d[k + n][1] = "install_trans" => k + n = Len(d) - 5 /\ d[k + n + 1][1] = "clear"
    BY SMTT(60), <2>2, <2>3, <2>5, <2>7 DEF OrderedAt
  <2>14. d[k + n][1] = "write_head" =>
           \/ k + n = Len(d) - 2 /\ LastOp(d) \in {"done", "up"}
           \/ k + n = Len(d) - 7 /\ d[k + n + 2] = <<"install_trans", 1>> /\ LastOp(d) = "done"
    <3> HAVE d[k + n][1] = "write_head"
    <3>1. \/ k = Len(c) - 2 /\ LastOp(c) \in {"done", "up"}
          \/ k = Len(c) - 7 /\ c[k + 2] = <<"install_trans", 1>> /\ LastOp(c) = "done"
      BY <2>2, <2>3 DEF OrderedAt
    <3>2. CASE k = Len(c) - 2
      BY <3>1, <3>2, <1>1, <2>1, <2>5
    <3>3. CASE k # Len(c) - 2
      <4>1. d[k + n + 2] = c[k + 2]
        BY <3>3, <2>3, <2>8
      <4> QED
        BY <3>1, <3>3, <2>1, <2>5, <4>1
    <3> QED
      BY <3>2, <3>3
  <2>15. d[k + n][1] = "read_head" =>
           k + n = Len(d) - 7 /\ d[k + n + 2] = <<"install_trans", 1>> /\ LastOp(d) = "up"
    <3> HAVE d[k + n][1] = "read_head"
    <3>1. k = Len(c) - 7 /\ c[k + 2] = <<"install_trans", 1>> /\ LastOp(c) = "up"
      BY <2>2, <2>3 DEF OrderedAt
    <3>2. k # Len(c) - 2
      BY <3>1, <1>1
    <3>3. d[k + n + 2] = c[k + 2]
      BY <3>2, <2>3, <2>8
    <3> QED
      BY <3>1, <3>3, <2>1, <2>5
  <2>16. d[k + n][1] = "write_log" => k + n = Len(d) - 9 /\ d[k + n + 2][1] = "write_head"
    <3> HAVE d[k + n][1] = "write_log"
    <3>1. k = Len(c) - 9 /\ c[k + 2][1] = "write_head"
      BY <2>2, <2>3 DEF OrderedAt
    <3>2. k # Len(c) - 2
      BY <3>1, <1>1
    <3>3. d[k + n + 2] = c[k + 2]
      BY <3>2, <2>3, <2>8
    <3> QED
      BY <3>1, <3>3, <2>5
  <2>17. d[k + n][1] = "copy" =>
           k + n + 3 <= Len(d) /\ d[k + n + 3][1] \in {"write_log", "install_trans"}
    BY <2>2, <2>3, <2>9 DEF OrderedAt
  <2> QED
    BY <2>11, <2>12, <2>13, <2>14, <2>15, <2>16, <2>17 DEF OrderedAt
<1>5. ASSUME NEW k \in 1 .. Len(d) PROVE OrderedAt(d, k)
  <2>1. CASE k <= Len(s)
    BY <1>1, <1>3, <2>1
  <2>2. CASE k > Len(s)
    <3>1. k - n \in 2 .. Len(c) /\ (k - n) + n = k
      BY <1>1, <1>2, <2>2 DEF n
    <3>2. OrderedAt(d, (k - n) + n)
      BY <3>1, <1>4
    <3> QED
      BY <3>1, <3>2
  <2> QED
    BY <2>1, <2>2, <1>1
<1> QED
  BY <1>5 DEF Ordered, d

\* Behind s the same blocks are open as behind the first instruction of c.
LEMMA OpenBehind ==
  ASSUME NEW c \in Seq(Instrs), c # << >>, NEW s \in Seq(Instrs), NEW b
  PROVE  Open(s \o Tail(c), Len(s) + 1, b) <=> Open(c, 2, b)
<1> DEFINE d == s \o Tail(c)
           n == Len(s) - 1
<1>1. /\ d \in Seq(Instrs) /\ Len(c) \in Nat \ {0} /\ Len(s) \in Nat
      /\ Len(d) = Len(s) + Len(c) - 1
      /\ \A k \in 2 .. Len(c) : d[k + Len(s) - 1] = c[k]
  BY Prepend
<1>2. \A k \in 2 .. Len(c) : d[k + n] = c[k]
  <2>1. ASSUME NEW k \in 2 .. Len(c) PROVE k + n = k + Len(s) - 1
    BY <1>1
  <2> QED
    BY <1>1, <2>1
<1>3. d \in Seq(Instrs) /\ n \in Int /\ Len(d) = Len(c) + n
  BY <1>1
<1>5. 2 \in Nat \ {0} /\ 2 + n \in Nat \ {0} /\ 2 \in 2 .. Len(c) + 1 /\ 2 + n = Len(s) + 1
  BY <1>1
<1> HIDE DEF d, n
<1>4. \A m \in Nat \ {0} : m + n \in Nat \ {0} /\ (\A j \in m .. Len(c) : d[j + n] = c[j]) =>
        \A j \in m .. Len(c) + 1 : Open(d, j + n, b) <=> Open(c, j, b)
  BY <1>3, OpenShift
<1>6. Open(d, 2 + n, b) <=> Open(c, 2, b)
  BY <1>2, <1>4, <1>5
<1> QED
  BY <1>5, <1>6 DEF d

\* Behind s the balance of c stands.
LEMMA BalancedBehind ==
  ASSUME NEW c \in Seq(Instrs), c # << >>, NEW s \in Seq(Instrs), Balanced(c),
         \A k \in 1 .. Len(s), b \in Blocks :
           /\ Needs(s[k], b) => Open(s \o Tail(c), k + 1, b)
           /\ OpIs(s[k], "brelse", b) \/ s[k][1] \in Bare => ~Open(s \o Tail(c), k + 1, b)
  PROVE  /\ Balanced(s \o Tail(c))
         /\ \A b : Open(s \o Tail(c), Len(s) + 1, b) <=> Open(c, 2, b)
<1> DEFINE d == s \o Tail(c)
           n == Len(s) - 1
<1>1. /\ d \in Seq(Instrs) /\ Len(c) \in Nat \ {0} /\ Len(s) \in Nat
      /\ Len(d) = Len(s) + Len(c) - 1
      /\ \A k \in 1 .. Len(s) : d[k] = s[k]
      /\ \A k \in 2 .. Len(c) : d[k + Len(s) - 1] = c[k]
  BY Prepend
<1>2. n \in Int /\ Len(d) = Len(c) + n /\ \A k \in 2 .. Len(c) : d[k + n] = c[k]
  <2>1. ASSUME NEW k \in 2 .. Len(c) PROVE k + n = k + Len(s) - 1
    BY <1>1
  <2> QED
    BY <1>1, <2>1
<1>3. n = Len(s) - 1
  OBVIOUS
<1>0. \A k \in 1 .. Len(s), b \in Blocks :
           /\ Needs(s[k], b) => Open(d, k + 1, b)
           /\ OpIs(s[k], "brelse", b) \/ s[k][1] \in Bare => ~Open(d, k + 1, b)
  OBVIOUS
<1> HIDE DEF d, n
<1>4. ASSUME NEW k \in 2 .. Len(c) + 1, NEW b PROVE Open(d, k + n, b) <=> Open(c, k, b)
  <2>1. 2 \in Nat \ {0} /\ 2 + n \in Nat \ {0}
    BY <1>1, <1>3
  <2> QED
    <3>1. \A j \in 2 .. Len(c) : d[j + n] = c[j]
      BY <1>2
    <3>2. d \in Seq(Instrs) /\ n \in Int /\ Len(d) = Len(c) + n
      BY <1>1, <1>2
    <3>3. \A m \in Nat \ {0} : m + n \in Nat \ {0} /\ (\A j \in m .. Len(c) : d[j + n] = c[j]) =>
            \A j \in m .. Len(c) + 1 : Open(d, j + n, b) <=> Open(c, j, b)
      BY <3>2, OpenShift
    <3> QED
      BY <2>1, <3>1, <3>3
<1>5. ASSUME NEW k \in 1 .. Len(d), NEW b \in Blocks
      PROVE  /\ Needs(d[k], b) => Open(d, k + 1, b)
             /\ OpIs(d[k], "brelse", b) \/ d[k][1] \in Bare => ~Open(d, k + 1, b)
  <2>1. CASE k <= Len(s)
    BY <1>0, <1>1, <2>1
  <2>2. CASE k > Len(s)
    <3>1. k - n \in 2 .. Len(c) /\ (k - n) + n = k /\ (k - n) + 1 \in 2 .. Len(c) + 1
          /\ ((k - n) + 1) + n = k + 1
      BY <1>1, <1>2, <1>3, <2>2
    <3>2. d[k] = c[k - n] /\ (Open(d, k + 1, b) <=> Open(c, (k - n) + 1, b))
      BY <3>1, <1>2, <1>4
    <3>3. k - n \in 1 .. Len(c)
      BY <3>1
    <3> QED
      BY <3>2, <3>3 DEF Balanced
  <2> QED
    BY <2>1, <2>2, <1>1
<1>6. ASSUME NEW b PROVE Open(d, Len(s) + 1, b) <=> Open(c, 2, b)
  <2>1. 2 \in 2 .. Len(c) + 1 /\ 2 + n = Len(s) + 1
    BY <1>1, <1>3
  <2> QED
    BY <2>1, <1>4
<1> QED
  BY <1>5, <1>6 DEF Balanced, d

\* Behind s the copies of c are the same.
LEMMA MatchesBehind ==
  ASSUME NEW c \in Seq(Instrs), c # << >>, NEW s \in Seq(Instrs), Ordered(c), NEW h,
         Matches(c, h), \A k \in 1 .. Len(s) : CopyMatches(s \o Tail(c), k, h)
  PROVE  Matches(s \o Tail(c), h)
<1> DEFINE d == s \o Tail(c)
           n == Len(s) - 1
<1>1. /\ d \in Seq(Instrs) /\ Len(c) \in Nat \ {0} /\ Len(s) \in Nat
      /\ Len(d) = Len(s) + Len(c) - 1
      /\ \A k \in 2 .. Len(c) : d[k + Len(s) - 1] = c[k]
  BY Prepend
<1>2. n \in Int /\ Len(d) = Len(c) + n /\ \A k \in 2 .. Len(c) : d[k + n] = c[k]
  <2>1. ASSUME NEW k \in 2 .. Len(c) PROVE k + n = k + Len(s) - 1
    BY <1>1
  <2> QED
    BY <1>1, <2>1
<1>3. \A k \in 1 .. Len(s) : CopyMatches(d, k, h)
  OBVIOUS
<1> HIDE DEF d, n
<1>4. ASSUME NEW k \in 2 .. Len(c), c[k][1] = "copy" PROVE CopyMatches(d, k + n, h)
  <2>1. k \in 1 .. Len(c) /\ OrderedAt(c, k) /\ k \in Int
    BY <1>1 DEF Ordered
  <2>2. k + 3 \in 2 .. Len(c) /\ (k + 3) + n = (k + n) + 3
    BY <1>1, <1>2, <1>4, <2>1 DEF OrderedAt
  <2>3. d[k + n] = c[k] /\ d[(k + n) + 3] = c[k + 3]
    BY <1>2, <2>2
  <2>4. CopyMatches(c, k, h)
    BY <2>1 DEF Matches
  <2> QED
    BY <2>3, <2>4 DEF CopyMatches
<1>5. ASSUME NEW k \in 1 .. Len(d) PROVE CopyMatches(d, k, h)
  <2>1. CASE k <= Len(s)
    BY <1>1, <1>3, <2>1
  <2>2. CASE k > Len(s)
    <3>1. k - n \in 2 .. Len(c) /\ (k - n) + n = k
      BY <1>1, <1>2, <2>2 DEF n
    <3>2. d[k] = c[k - n]
      BY <3>1, <1>2
    <3>3. CASE c[k - n][1] = "copy"
      <4>1. CopyMatches(d, (k - n) + n, h)
        BY <3>1, <3>3, <1>4
      <4> QED
        BY <3>1, <4>1
    <3>4. CASE c[k - n][1] # "copy"
      BY <3>2, <3>4 DEF CopyMatches
    <3> QED
      BY <3>3, <3>4
  <2> QED
    BY <2>1, <2>2, <1>1
<1> QED
  BY <1>5 DEF Matches, d

\* No copy is left once the installation is over, or before it begins.
LEMMA NoCopies ==
  ASSUME NEW c \in Seq(Instrs), Ordered(c), NEW h,
         \/ LastOp(c) \notin {"done", "up"}
         \/ c # << >> /\ c[1][1] \in {"clear", "read_head"}
  PROVE  Matches(c, h)
<1>1. PICK m \in Nat : m = Len(c)
  BY LenProperties
<1>2. ASSUME NEW k \in 1 .. Len(c), c[k][1] = "copy" PROVE FALSE
  <2>1. OrderedAt(c, k) /\ k \in Int
    BY <1>1 DEF Ordered
  <2>2. k + 3 \in 1 .. Len(c) /\ c[k + 3][1] \in {"write_log", "install_trans"}
    BY <1>1, <1>2, <2>1 DEF OrderedAt
  <2>3. OrderedAt(c, k + 3)
    BY <2>2 DEF Ordered
  <2>4. CASE c[k + 3][1] = "install_trans"
    <3>1. k + 3 = Len(c) - 5 /\ c[(k + 3) + 1][1] = "clear"
      BY <2>3, <2>4 DEF OrderedAt
    <3>2. (k + 3) + 1 \in 1 .. Len(c) /\ m >= 9
      BY <1>1, <2>1, <3>1
    <3>3. OrderedAt(c, (k + 3) + 1)
      BY <3>2 DEF Ordered
    <3>4. LastOp(c) \in {"done", "up"}
      BY <3>1, <3>3 DEF OrderedAt
    <3>5. 1 \in 1 .. Len(c)
      BY <3>2, <1>1
    <3>6. OrderedAt(c, 1)
      BY <3>5 DEF Ordered
    <3>7. CASE c[1][1] = "clear"
      <4>1. 1 = m - 4
        BY <1>1, <3>6, <3>7 DEF OrderedAt
      <4> QED
        BY <4>1, <3>2
    <3>8. CASE c[1][1] = "read_head"
      <4>1. 1 = m - 7
        BY <1>1, <3>6, <3>8 DEF OrderedAt
      <4> QED
        BY <4>1, <3>2
    <3> QED
      BY <3>4, <3>7, <3>8
  <2>5. CASE c[k + 3][1] = "write_log"
    <3>1. k + 3 = Len(c) - 9 /\ c[(k + 3) + 2][1] = "write_head"
      BY <2>3, <2>5 DEF OrderedAt
    <3>2. (k + 3) + 2 \in 1 .. Len(c) /\ m >= 13
      BY <1>1, <2>1, <3>1
    <3>3. OrderedAt(c, (k + 3) + 2)
      BY <3>2 DEF Ordered
    <3>4. LastOp(c) \in {"done", "up"}
      BY <3>1, <3>3 DEF OrderedAt
    <3>5. 1 \in 1 .. Len(c)
      BY <3>2, <1>1
    <3>6. OrderedAt(c, 1)
      BY <3>5 DEF Ordered
    <3>7. CASE c[1][1] = "clear"
      <4>1. 1 = m - 4
        BY <1>1, <3>6, <3>7 DEF OrderedAt
      <4> QED
        BY <4>1, <3>2
    <3>8. CASE c[1][1] = "read_head"
      <4>1. 1 = m - 7
        BY <1>1, <3>6, <3>8 DEF OrderedAt
      <4> QED
        BY <4>1, <3>2
    <3> QED
      BY <3>4, <3>7, <3>8
  <2> QED
    BY <2>2, <2>4, <2>5
<1> QED
  BY <1>2 DEF Matches, CopyMatches

\* Behind s are the instructions behind the first one of c.
LEMMA HasBehind ==
  ASSUME NEW c \in Seq(Instrs), c # << >>, NEW s \in Seq(Instrs), NEW o
  PROVE  /\ HasOp(s \o Tail(c), o) <=> HasOp(s, o) \/ \E k \in 2 .. Len(c) : c[k][1] = o
         /\ HasOp(c, o) <=> c[1][1] = o \/ \E k \in 2 .. Len(c) : c[k][1] = o
<1>1. PICK d, n : d = s \o Tail(c) /\ n = Len(s)
  OBVIOUS
<1>2. PICK m \in Nat \ {0} : m = Len(c)
  BY Prepend
<1>3. /\ n \in Nat /\ Len(d) = n + m - 1
      /\ \A k \in 1 .. n : d[k] = s[k]
      /\ \A k \in 2 .. m : d[k + n - 1] = c[k]
  BY <1>1, <1>2, Prepend
<1>4. \A k \in 1 .. m : k = 1 \/ k \in 2 .. m
  BY <1>2
<1>5. HasOp(c, o) <=> c[1][1] = o \/ \E k \in 2 .. m : c[k][1] = o
  <2>1. 1 \in 1 .. m /\ \A k \in 2 .. m : k \in 1 .. m
    BY <1>2
  <2> QED
    BY <1>2, <1>4, <2>1 DEF HasOp
<1>6. ASSUME HasOp(d, o) PROVE HasOp(s, o) \/ \E k \in 2 .. m : c[k][1] = o
  <2>1. PICK k \in 1 .. n + m - 1 : d[k][1] = o
    BY <1>3, <1>6 DEF HasOp
  <2>2. CASE k <= n
    <3>1. k \in 1 .. n
      BY <1>3, <2>2
    <3> QED
      BY <1>1, <1>3, <2>1, <3>1 DEF HasOp
  <2>3. CASE k > n
    <3>1. k - n + 1 \in 2 .. m /\ (k - n + 1) + n - 1 = k
      BY <1>2, <1>3, <2>3
    <3>2. d[k] = c[k - n + 1]
      BY <1>3, <3>1
    <3> QED
      BY <2>1, <3>1, <3>2
  <2> QED
    BY <1>3, <2>2, <2>3
<1>7. ASSUME HasOp(s, o) PROVE HasOp(d, o)
  <2>1. PICK k \in 1 .. n : s[k][1] = o
    BY <1>1, <1>7 DEF HasOp
  <2>2. k \in 1 .. n + m - 1 /\ d[k] = s[k]
    BY <1>2, <1>3
  <2> QED
    BY <1>3, <2>1, <2>2 DEF HasOp
<1>8. ASSUME NEW k \in 2 .. m, c[k][1] = o PROVE HasOp(d, o)
  <2>1. k + n - 1 \in 1 .. n + m - 1 /\ d[k + n - 1] = c[k]
    BY <1>2, <1>3
  <2> QED
    BY <1>3, <1>8, <2>1 DEF HasOp
<1>9. HasOp(d, o) <=> HasOp(s, o) \/ \E k \in 2 .. m : c[k][1] = o
  BY <1>6, <1>7, <1>8
<1> QED
  BY <1>1, <1>2, <1>5, <1>9

\* Nothing is open at the end.
LEMMA OpenEnd ==
  ASSUME NEW c \in Seq(Instrs), NEW b
  PROVE  ~Open(c, Len(c) + 1, b)
BY LenProperties DEF Open

\* The instructions that appear in programs.
LEMMA IsInstr ==
  /\ \A o \in {"begin", "end", "write_head", "read_head", "clear", "up", "done"} : <<o>> \in Instrs
  /\ \A o \in {"bread", "brelse"}, b \in Blocks : <<o, b>> \in Instrs
  /\ \A o \in Low, i \in Bufs : <<o, i>> \in Instrs
  /\ \A w \in Seq(Homes), v \in Values : <<"body", w, v>> \in Instrs
  /\ \A b \in Homes, v \in Values : <<"log_write", b, v>> \in Instrs
  /\ \A o \in {"write_log", "install_trans"}, t \in Nat \ {0} : <<o, t>> \in Instrs
  /\ \A a, b \in Blocks \ {Header} : <<"copy", a, b>> \in Instrs
BY DEF Instrs, Low

\* What a program becomes when its first instruction is done, or replaced by one of
\* the buffer cache.
LEMMA PlainBehind ==
  ASSUME NEW c \in Seq(Instrs), c # << >>, Balanced(c), Ordered(c), NEW s,
         s = << >> \/ \E o \in Low, i \in Bufs : s = <<<<o, i>>>>
  PROVE  /\ s \in Seq(Instrs) /\ s \o Tail(c) \in Seq(Instrs)
         /\ Balanced(s \o Tail(c)) /\ Ordered(s \o Tail(c))
         /\ \A b : Open(s \o Tail(c), 1, b) <=> Open(c, 2, b)
<1>1. CASE s = << >>
  <2>1. s \in Seq(Instrs) /\ Len(s) = 0 /\ s \o Tail(c) \in Seq(Instrs)
    BY <1>1, Prepend
  <2>2. /\ \A k \in 1 .. Len(s) : OrderedAt(s \o Tail(c), k)
        /\ \A k \in 1 .. Len(s), b \in Blocks :
             /\ Needs(s[k], b) => Open(s \o Tail(c), k + 1, b)
             /\ OpIs(s[k], "brelse", b) \/ s[k][1] \in Bare => ~Open(s \o Tail(c), k + 1, b)
    BY <2>1
  <2>3. s \in Seq(Instrs)
    BY <2>1
  <2>4. Balanced(s \o Tail(c)) /\ \A b : Open(s \o Tail(c), Len(s) + 1, b) <=> Open(c, 2, b)
    BY <2>2, <2>3, BalancedBehind
  <2>5. Ordered(s \o Tail(c))
    BY <2>2, <2>3, OrderedBehind
  <2> QED
    BY <2>1, <2>4, <2>5
<1>2. ASSUME NEW o \in Low, NEW i \in Bufs, s = <<<<o, i>>>>
      PROVE  /\ s \in Seq(Instrs) /\ s \o Tail(c) \in Seq(Instrs)
             /\ Balanced(s \o Tail(c)) /\ Ordered(s \o Tail(c))
             /\ \A b : Open(s \o Tail(c), 1, b) <=> Open(c, 2, b)
  <2>1. s \in Seq(Instrs) /\ Len(s) = 1 /\ s[1] = <<o, i>> /\ \A k \in 1 .. Len(s) : k = 1
    BY <1>2, IsInstr
  <2>2. s \o Tail(c) \in Seq(Instrs) /\ (s \o Tail(c))[1] = <<o, i>>
        /\ Len(s \o Tail(c)) \in Nat \ {0}
    <3>1. Len(c) \in Nat \ {0} /\ Len(s \o Tail(c)) = Len(s) + Len(c) - 1
          /\ s \o Tail(c) \in Seq(Instrs) /\ \A k \in 1 .. Len(s) : (s \o Tail(c))[k] = s[k]
      BY <2>1, Prepend
    <3> QED
      BY <2>1, <3>1
  <2>3. \A k \in 1 .. Len(s), b \in Blocks :
          ~Needs(s[k], b) /\ ~OpIs(s[k], "brelse", b) /\ s[k][1] \notin Bare
    BY <2>1 DEF Needs, OpIs, Bare, Low
  <2>4. Balanced(s \o Tail(c)) /\ \A b : Open(s \o Tail(c), Len(s) + 1, b) <=> Open(c, 2, b)
    BY <2>1, <2>3, BalancedBehind
  <2>5. OrderedAt(s \o Tail(c), 1)
    BY <2>2 DEF OrderedAt, Low
  <2>6. Ordered(s \o Tail(c))
    BY <2>1, <2>5, OrderedBehind
  <2>7. ASSUME NEW b PROVE Open(s \o Tail(c), 1, b) <=> Open(s \o Tail(c), 2, b)
    <3>1. ~OpIs(<<o, i>>, "bread", b) /\ ~OpIs(<<o, i>>, "brelse", b)
      BY DEF OpIs, Low
    <3>2. PICK d : d = s \o Tail(c)
      OBVIOUS
    <3>3. d \in Seq(Instrs) /\ 1 \in 1 .. Len(d) /\ 1 + 1 = 2 /\ d[1] = <<o, i>>
      BY <2>2, <3>2
    <3>4. Open(d, 1, b) <=> \/ OpIs(d[1], "brelse", b)
                            \/ ~OpIs(d[1], "bread", b) /\ Open(d, 1 + 1, b)
      BY <3>3, OpenHead
    <3> QED
      BY <3>1, <3>2, <3>3, <3>4
  <2> QED
    BY <2>1, <2>2, <2>4, <2>6, <2>7
<1> QED
  BY <1>1, <1>2

\* An operation's loop writes one more block.
LEMMA BodyBehind ==
  ASSUME NEW c \in Seq(Instrs), c # << >>, Balanced(c), Ordered(c), c[1][1] = "body",
         NEW x \in Homes, x \in Blocks,
         NEW s \in Seq(Instrs), Len(s) = 4, s[1][1] = "bread" /\ s[1][2] = x,
         s[2][1] = "log_write" /\ s[2][2] = x, s[3][1] = "brelse" /\ s[3][2] = x, s[4][1] = "body"
  PROVE  /\ s \o Tail(c) \in Seq(Instrs)
         /\ Balanced(s \o Tail(c)) /\ Ordered(s \o Tail(c))
         /\ \A b \in Blocks : ~Open(s \o Tail(c), 1, b)
         /\ LastOp(s \o Tail(c)) = LastOp(c)
<1>1. Len(s) = 4
  OBVIOUS
<1>2. /\ s[1][1] = "bread" /\ s[1][2] = x /\ s[2][1] = "log_write" /\ s[2][2] = x
      /\ s[3][1] = "brelse" /\ s[3][2] = x /\ s[4][1] = "body"
  OBVIOUS
<1>10. PICK d : d = s \o Tail(c)
  OBVIOUS
<1>3. /\ d \in Seq(Instrs) /\ Len(c) \in Nat \ {0} /\ Len(d) = Len(c) + 3
      /\ \A k \in 1 .. 4 : d[k] = s[k]
      /\ \A k \in 2 .. Len(c) : d[k + 3] = c[k]
  <2>1. /\ d \in Seq(Instrs) /\ Len(c) \in Nat \ {0} /\ Len(d) = Len(s) + Len(c) - 1
        /\ \A k \in 1 .. Len(s) : d[k] = s[k]
        /\ \A k \in 2 .. Len(c) : d[k + Len(s) - 1] = c[k]
    BY <1>1, <1>10, Prepend
  <2>2. \A k \in Int : k + Len(s) - 1 = k + 3
    BY <1>1
  <2> QED
    BY <1>1, <2>1, <2>2
<1>4. /\ d[1][1] = "bread" /\ d[1][2] = x /\ d[2][1] = "log_write" /\ d[2][2] = x
      /\ d[3][1] = "brelse" /\ d[3][2] = x /\ d[4][1] = "body"
  BY <1>2, <1>3
<1>5. ASSUME NEW b \in Blocks
      PROVE  ~Open(d, 5, b) /\ ~Open(d, 4, b) /\ (Open(d, 3, b) <=> b = x)
             /\ (Open(d, 2, b) <=> b = x) /\ ~Open(d, 1, b)
  <2>1. ~Open(c, 2, b)
    <3>1. 1 \in 1 .. Len(c) /\ 1 + 1 = 2 /\ c[1][1] \in Bare
      BY <1>3 DEF Bare
    <3> QED
      BY <3>1 DEF Balanced
  <2>2. Open(d, 5, b) <=> Open(c, 2, b)
    <3>1. Len(s) + 1 = 5
      BY <1>1
    <3> QED
      BY <3>1, <1>10, OpenBehind
  <2>3. \A k \in 1 .. 4 : Open(d, k, b) <=> \/ OpIs(d[k], "brelse", b)
                                            \/ ~OpIs(d[k], "bread", b) /\ Open(d, k + 1, b)
    <3>1. \A k \in 1 .. 4 : k \in 1 .. Len(d)
      BY <1>3
    <3>2. d \in Seq(Instrs)
      BY <1>3
    <3> QED
      BY <3>1, <3>2, OpenHead
  <2>0. /\ 1 \in 1 .. 4 /\ 2 \in 1 .. 4 /\ 3 \in 1 .. 4 /\ 4 \in 1 .. 4
        /\ 1 + 1 = 2 /\ 2 + 1 = 3 /\ 3 + 1 = 4 /\ 4 + 1 = 5
    OBVIOUS
  <2>4. /\ Open(d, 4, b) <=> OpIs(d[4], "brelse", b) \/ (~OpIs(d[4], "bread", b) /\ Open(d, 5, b))
        /\ Open(d, 3, b) <=> OpIs(d[3], "brelse", b) \/ (~OpIs(d[3], "bread", b) /\ Open(d, 4, b))
        /\ Open(d, 2, b) <=> OpIs(d[2], "brelse", b) \/ (~OpIs(d[2], "bread", b) /\ Open(d, 3, b))
        /\ Open(d, 1, b) <=> OpIs(d[1], "brelse", b) \/ (~OpIs(d[1], "bread", b) /\ Open(d, 2, b))
    BY <2>0, <2>3
  <2> QED
    BY <1>4, <2>1, <2>2, <2>4 DEF OpIs
<1>6. ASSUME NEW k \in 1 .. Len(s), NEW b \in Blocks
      PROVE  /\ Needs(s[k], b) => Open(d, k + 1, b)
             /\ OpIs(s[k], "brelse", b) \/ s[k][1] \in Bare => ~Open(d, k + 1, b)
  <2>1. k = 1 \/ k = 2 \/ k = 3 \/ k = 4
    BY <1>1
  <2>2. CASE k = 1
    BY <1>2, <1>5, <2>2 DEF Needs, OpIs, Bare
  <2>3. CASE k = 2
    BY <1>2, <1>5, <2>3 DEF Needs, OpIs, Bare
  <2>4. CASE k = 3
    BY <1>2, <1>5, <2>4 DEF Needs, OpIs, Bare
  <2>5. CASE k = 4
    BY <1>2, <1>5, <2>5 DEF Needs, OpIs, Bare
  <2> QED
    BY <2>1, <2>2, <2>3, <2>4, <2>5
<1>7. Balanced(d)
  <2>1. s \in Seq(Instrs)
    BY <1>1
  <2> QED
    BY <1>6, <2>1, <1>10, BalancedBehind
<1>8. LastOp(d) = "end" /\ LastOp(c) = "end"
  <2>1. 1 \in 1 .. Len(c) /\ c \in Seq(Instrs)
    BY <1>3
  <2>2. LastOp(c) = "end"
    BY <2>1 DEF Ordered, OrderedAt
  <2>3. Len(c) # 1
    BY <2>2 DEF LastOp
  <2> QED
    BY <2>2, <2>3, <1>10, LastBehind
<1>9. Ordered(d)
  <2>1. ASSUME NEW k \in 1 .. Len(s) PROVE OrderedAt(d, k)
    <3>1. k = 1 \/ k = 2 \/ k = 3 \/ k = 4
      BY <1>1
    <3>2. d[k][1] \in {"bread", "log_write", "brelse", "body"}
      BY <1>4, <3>1
    <3> QED
      BY <1>8, <3>2 DEF OrderedAt, Low
  <2>2. s \in Seq(Instrs)
    BY <1>1
  <2> QED
    BY <2>1, <2>2, <1>10, OrderedBehind
<1> QED
  BY <1>3, <1>5, <1>7, <1>8, <1>9, <1>10

\* The loop of write_log or of install_trans copies one more block.
LEMMA CopyBehind ==
  ASSUME NEW c \in Seq(Instrs), c # << >>, Balanced(c), Ordered(c),
         c[1][1] \in {"write_log", "install_trans"}, NEW s \in Seq(Instrs), Len(s) = 6,
         s[1][1] = "bread" /\ s[1][2] \in Blocks \ {Header},
         s[2][1] = "bread" /\ s[2][2] \in Blocks \ {Header}, s[1][2] # s[2][2],
         s[3][1] = "copy",
         \/ s[3][2] = s[1][2] /\ s[3][3] = s[2][2]
         \/ s[3][2] = s[2][2] /\ s[3][3] = s[1][2],
         s[4][1] = "brelse" /\ s[4][2] = s[3][3], s[5][1] = "brelse" /\ s[5][2] = s[3][2],
         s[6][1] = c[1][1]
  PROVE  /\ s \o Tail(c) \in Seq(Instrs)
         /\ Balanced(s \o Tail(c)) /\ Ordered(s \o Tail(c))
         /\ \A b \in Blocks : ~Open(s \o Tail(c), 1, b)
         /\ LastOp(s \o Tail(c)) = LastOp(c)
<1> PICK o : o = c[1][1]
  OBVIOUS
<1> PICK l, h, to, from : l = s[1][2] /\ h = s[2][2] /\ to = s[3][2] /\ from = s[3][3]
  OBVIOUS
<1>0. to \in Blocks \ {Header} /\ from \in Blocks \ {Header} /\ to # from
  OBVIOUS
<1>1. Len(s) = 6
  OBVIOUS
<1>2. /\ s[1][1] = "bread" /\ s[1][2] = l /\ s[2][1] = "bread" /\ s[2][2] = h
      /\ s[3][1] = "copy" /\ s[3][2] = to /\ s[3][3] = from
      /\ s[4][1] = "brelse" /\ s[4][2] = from /\ s[5][1] = "brelse" /\ s[5][2] = to /\ s[6][1] = o
  OBVIOUS
<1>10. PICK d : d = s \o Tail(c)
  OBVIOUS
<1>3. /\ d \in Seq(Instrs) /\ Len(c) \in Nat \ {0} /\ Len(d) = Len(c) + 5
      /\ \A k \in 1 .. 6 : d[k] = s[k]
      /\ \A k \in 2 .. Len(c) : d[k + 5] = c[k]
  <2>1. /\ d \in Seq(Instrs) /\ Len(c) \in Nat \ {0} /\ Len(d) = Len(s) + Len(c) - 1
        /\ \A k \in 1 .. Len(s) : d[k] = s[k]
        /\ \A k \in 2 .. Len(c) : d[k + Len(s) - 1] = c[k]
    BY <1>1, <1>10, Prepend
  <2>2. \A k \in Int : k + Len(s) - 1 = k + 5
    BY <1>1
  <2> QED
    BY <1>1, <2>1, <2>2
<1>4. /\ d[1][1] = "bread" /\ d[1][2] = l /\ d[2][1] = "bread" /\ d[2][2] = h
      /\ d[3][1] = "copy" /\ d[3][2] = to /\ d[3][3] = from
      /\ d[4][1] = "brelse" /\ d[4][2] = from /\ d[5][1] = "brelse" /\ d[5][2] = to /\ d[6][1] = o
  BY <1>2, <1>3
<1>5. ASSUME NEW b \in Blocks
      PROVE  /\ ~Open(d, 7, b) /\ ~Open(d, 6, b) /\ (Open(d, 5, b) <=> b = to)
             /\ Open(d, 4, b) <=> b \in {to, from}
             /\ Open(d, 3, b) <=> b \in {to, from}
             /\ Open(d, 2, b) <=> b = l
             /\ ~Open(d, 1, b)
  <2>1. ~Open(c, 2, b)
    <3>1. 1 \in 1 .. Len(c) /\ 1 + 1 = 2 /\ c[1][1] \in Bare
      BY <1>3 DEF Bare
    <3> QED
      BY <3>1 DEF Balanced
  <2>2. Open(d, 7, b) <=> Open(c, 2, b)
    <3>1. Len(s) + 1 = 7
      BY <1>1
    <3> QED
      BY <3>1, <1>10, OpenBehind
  <2>3. \A k \in 1 .. 6 : Open(d, k, b) <=> \/ OpIs(d[k], "brelse", b)
                                            \/ ~OpIs(d[k], "bread", b) /\ Open(d, k + 1, b)
    <3>1. \A k \in 1 .. 6 : k \in 1 .. Len(d)
      BY <1>3
    <3>2. d \in Seq(Instrs)
      BY <1>3
    <3> QED
      BY <3>1, <3>2, OpenHead
  <2>0. /\ 1 \in 1 .. 6 /\ 2 \in 1 .. 6 /\ 3 \in 1 .. 6 /\ 4 \in 1 .. 6
        /\ 5 \in 1 .. 6 /\ 6 \in 1 .. 6
        /\ 1 + 1 = 2 /\ 2 + 1 = 3 /\ 3 + 1 = 4 /\ 4 + 1 = 5 /\ 5 + 1 = 6 /\ 6 + 1 = 7
    OBVIOUS
  <2>4. /\ Open(d, 6, b) <=> OpIs(d[6], "brelse", b) \/ (~OpIs(d[6], "bread", b) /\ Open(d, 7, b))
        /\ Open(d, 5, b) <=> OpIs(d[5], "brelse", b) \/ (~OpIs(d[5], "bread", b) /\ Open(d, 6, b))
        /\ Open(d, 4, b) <=> OpIs(d[4], "brelse", b) \/ (~OpIs(d[4], "bread", b) /\ Open(d, 5, b))
        /\ Open(d, 3, b) <=> OpIs(d[3], "brelse", b) \/ (~OpIs(d[3], "bread", b) /\ Open(d, 4, b))
        /\ Open(d, 2, b) <=> OpIs(d[2], "brelse", b) \/ (~OpIs(d[2], "bread", b) /\ Open(d, 3, b))
        /\ Open(d, 1, b) <=> OpIs(d[1], "brelse", b) \/ (~OpIs(d[1], "bread", b) /\ Open(d, 2, b))
    BY <2>0, <2>3
  <2>5. ~Open(d, 6, b) /\ (Open(d, 5, b) <=> b = to) /\ (Open(d, 4, b) <=> b \in {to, from})
        /\ (Open(d, 3, b) <=> b \in {to, from})
    BY <1>4, <2>1, <2>2, <2>4 DEF OpIs
  <2>6. Open(d, 2, b) <=> b = l
    BY <1>4, <2>4, <2>5 DEF OpIs
  <2>7. ~Open(d, 1, b)
    BY <1>4, <2>4, <2>6 DEF OpIs
  <2> QED
    BY <2>1, <2>2, <2>5, <2>6, <2>7
<1>6. ASSUME NEW k \in 1 .. Len(s), NEW b \in Blocks
      PROVE  /\ Needs(s[k], b) => Open(d, k + 1, b)
             /\ OpIs(s[k], "brelse", b) \/ s[k][1] \in Bare => ~Open(d, k + 1, b)
  <2>1. k = 1 \/ k = 2 \/ k = 3 \/ k = 4 \/ k = 5 \/ k = 6
    BY <1>1
  <2>2. CASE k = 1
    BY <1>2, <1>5, <2>2 DEF Needs, OpIs, Bare
  <2>3. CASE k = 2
    BY <1>2, <1>5, <2>3 DEF Needs, OpIs, Bare
  <2>4. CASE k = 3
    BY <1>2, <1>5, <2>4 DEF Needs, OpIs, Bare
  <2>5. CASE k = 4
    BY <1>0, <1>2, <1>5, <2>5 DEF Needs, OpIs, Bare
  <2>6. CASE k = 5
    BY <1>2, <1>5, <2>6 DEF Needs, OpIs, Bare
  <2>7. CASE k = 6
    BY <1>2, <1>5, <2>7 DEF Needs, OpIs, Bare
  <2> QED
    BY <2>1, <2>2, <2>3, <2>4, <2>5, <2>6, <2>7
<1>7. Balanced(d)
  <2>1. s \in Seq(Instrs)
    BY <1>1
  <2> QED
    BY <1>6, <2>1, <1>10, BalancedBehind
<1>8. /\ LastOp(d) = LastOp(c)
      /\ o = "write_log" => Len(c) = 10 /\ c[3][1] = "write_head"
      /\ o = "install_trans" => Len(c) = 6 /\ c[2][1] = "clear"
  <2>1. 1 \in 1 .. Len(c) /\ c \in Seq(Instrs)
    BY <1>3
  <2>2. OrderedAt(c, 1)
    BY <2>1 DEF Ordered
  <2>3. /\ o = "write_log" => 1 = Len(c) - 9 /\ c[1 + 2][1] = "write_head"
        /\ o = "install_trans" => 1 = Len(c) - 5 /\ c[1 + 1][1] = "clear"
    BY <2>2 DEF OrderedAt
  <2>4. /\ o = "write_log" => Len(c) = 10 /\ c[3][1] = "write_head"
        /\ o = "install_trans" => Len(c) = 6 /\ c[2][1] = "clear"
    BY <2>3, <1>3
  <2>5. Len(c) # 1
    BY <2>4
  <2> QED
    BY <1>1, <2>4, <2>5, <1>10, LastBehind
<1>9. Ordered(d)
  <2>1. ASSUME NEW k \in 1 .. Len(s) PROVE OrderedAt(d, k)
    <3>1. k = 1 \/ k = 2 \/ k = 3 \/ k = 4 \/ k = 5 \/ k = 6
      BY <1>1
    <3>2. CASE k \in {1, 2, 4, 5}
      <4>1. d[k][1] \in {"bread", "brelse"}
        BY <1>4, <3>2
      <4> QED
        BY <4>1 DEF OrderedAt, Low
    <3>3. CASE k = 3
      <4>1. d[3][1] = "copy" /\ 3 + 3 <= Len(d) /\ d[3 + 3][1] \in {"write_log", "install_trans"}
        BY <1>3, <1>4
      <4> QED
        BY <4>1, <3>3 DEF OrderedAt, Low
    <3>4. CASE k = 6 /\ o = "write_log"
      <4>0. Len(c) = 10 /\ 3 \in 2 .. 10
        BY <1>8, <3>4
      <4>1. d[6][1] = "write_log" /\ 6 = Len(d) - 9 /\ d[3 + 5] = c[3]
        BY <1>3, <1>4, <3>4, <4>0
      <4>2. d[6 + 2][1] = "write_head"
        BY <4>1, <1>8, <3>4
      <4> QED
        BY <4>1, <4>2, <3>4 DEF OrderedAt, Low
    <3>5. CASE k = 6 /\ o = "install_trans"
      <4>0. Len(c) = 6 /\ 2 \in 2 .. 6
        BY <1>8, <3>5
      <4>1. d[6][1] = "install_trans" /\ 6 = Len(d) - 5 /\ d[2 + 5] = c[2]
        BY <1>3, <1>4, <3>5, <4>0
      <4>2. d[6 + 1][1] = "clear"
        BY <4>1, <1>8, <3>5
      <4> QED
        BY <4>1, <4>2, <3>5 DEF OrderedAt, Low
    <3> QED
      BY <3>1, <3>2, <3>3, <3>4, <3>5
  <2>2. s \in Seq(Instrs)
    BY <1>1
  <2> QED
    BY <2>1, <2>2, <1>10, OrderedBehind
<1> QED
  BY <1>3, <1>5, <1>7, <1>8, <1>9, <1>10

\* What end_op gives the last operation to do.
LEMMA CommitProgram ==
  ASSUME NEW c \in Seq(Instrs), Len(c) = 10,
         c[1][1] = "write_log",
         c[2][1] = "bread" /\ c[2][2] = Header,
         c[3][1] = "write_head",
         c[4][1] = "brelse" /\ c[4][2] = Header,
         c[5] = <<"install_trans", 1>>,
         c[6][1] = "clear",
         c[7][1] = "bread" /\ c[7][2] = Header,
         c[8][1] = "write_head",
         c[9][1] = "brelse" /\ c[9][2] = Header,
         c[10][1] = "done"
  PROVE  Balanced(c) /\ Ordered(c) /\ \A b \in Blocks : ~Open(c, 1, b)
<1>1. /\ c[1][1] = "write_log"
      /\ c[2][1] = "bread" /\ c[2][2] = Header
      /\ c[3][1] = "write_head"
      /\ c[4][1] = "brelse" /\ c[4][2] = Header
      /\ c[5][1] = "install_trans" /\ c[5] = <<"install_trans", 1>>
      /\ c[6][1] = "clear"
      /\ c[7][1] = "bread" /\ c[7][2] = Header
      /\ c[8][1] = "write_head"
      /\ c[9][1] = "brelse" /\ c[9][2] = Header
      /\ c[10][1] = "done"
  OBVIOUS
<1>2. Len(c) = 10 /\ \A k \in 1 .. Len(c) : k = 1 \/ k = 2 \/ k = 3 \/ k = 4 \/ k = 5 \/ k = 6
                                             \/ k = 7 \/ k = 8 \/ k = 9 \/ k = 10
  OBVIOUS
<1>3. ASSUME NEW b \in Blocks
      PROVE  /\ ~Open(c, 11, b)
             /\ ~Open(c, 10, b)
             /\ Open(c, 9, b) <=> b = Header
             /\ Open(c, 8, b) <=> b = Header
             /\ ~Open(c, 7, b)
             /\ ~Open(c, 6, b)
             /\ ~Open(c, 5, b)
             /\ Open(c, 4, b) <=> b = Header
             /\ Open(c, 3, b) <=> b = Header
             /\ ~Open(c, 2, b)
             /\ ~Open(c, 1, b)
  <2>1. ~Open(c, 11, b)
    <3>1. ~Open(c, Len(c) + 1, b)
      BY OpenEnd
    <3>2. Len(c) + 1 = 11
      BY <1>2
    <3> QED
      BY <3>1, <3>2
  <2>2. ASSUME NEW k \in 1 .. 10
        PROVE  Open(c, k, b) <=> \/ OpIs(c[k], "brelse", b)
                                 \/ ~OpIs(c[k], "bread", b) /\ Open(c, k + 1, b)
    BY <1>2, OpenHead
  <2>3. /\ Open(c, 10, b) <=> OpIs(c[10], "brelse", b) \/ (~OpIs(c[10], "bread", b) /\ Open(c, 11, b))
        /\ Open(c, 9, b) <=> OpIs(c[9], "brelse", b) \/ (~OpIs(c[9], "bread", b) /\ Open(c, 10, b))
        /\ Open(c, 8, b) <=> OpIs(c[8], "brelse", b) \/ (~OpIs(c[8], "bread", b) /\ Open(c, 9, b))
        /\ Open(c, 7, b) <=> OpIs(c[7], "brelse", b) \/ (~OpIs(c[7], "bread", b) /\ Open(c, 8, b))
        /\ Open(c, 6, b) <=> OpIs(c[6], "brelse", b) \/ (~OpIs(c[6], "bread", b) /\ Open(c, 7, b))
        /\ Open(c, 5, b) <=> OpIs(c[5], "brelse", b) \/ (~OpIs(c[5], "bread", b) /\ Open(c, 6, b))
        /\ Open(c, 4, b) <=> OpIs(c[4], "brelse", b) \/ (~OpIs(c[4], "bread", b) /\ Open(c, 5, b))
        /\ Open(c, 3, b) <=> OpIs(c[3], "brelse", b) \/ (~OpIs(c[3], "bread", b) /\ Open(c, 4, b))
        /\ Open(c, 2, b) <=> OpIs(c[2], "brelse", b) \/ (~OpIs(c[2], "bread", b) /\ Open(c, 3, b))
        /\ Open(c, 1, b) <=> OpIs(c[1], "brelse", b) \/ (~OpIs(c[1], "bread", b) /\ Open(c, 2, b))
    <3>1. /\ 1 \in 1 .. 10 /\ 1 + 1 = 2
          /\ 2 \in 1 .. 10 /\ 2 + 1 = 3
          /\ 3 \in 1 .. 10 /\ 3 + 1 = 4
          /\ 4 \in 1 .. 10 /\ 4 + 1 = 5
          /\ 5 \in 1 .. 10 /\ 5 + 1 = 6
          /\ 6 \in 1 .. 10 /\ 6 + 1 = 7
          /\ 7 \in 1 .. 10 /\ 7 + 1 = 8
          /\ 8 \in 1 .. 10 /\ 8 + 1 = 9
          /\ 9 \in 1 .. 10 /\ 9 + 1 = 10
          /\ 10 \in 1 .. 10 /\ 10 + 1 = 11
      OBVIOUS
    <3> QED
      BY <2>2, <3>1
  <2>4. ~Open(c, 10, b)
    BY <1>1, <2>3, <2>1 DEF OpIs
  <2>5. Open(c, 9, b) <=> b = Header
    BY <1>1, <2>3, <2>4 DEF OpIs
  <2>6. Open(c, 8, b) <=> b = Header
    BY <1>1, <2>3, <2>5 DEF OpIs
  <2>7. ~Open(c, 7, b)
    BY <1>1, <2>3, <2>6 DEF OpIs
  <2>8. ~Open(c, 6, b)
    BY <1>1, <2>3, <2>7 DEF OpIs
  <2>9. ~Open(c, 5, b)
    BY <1>1, <2>3, <2>8 DEF OpIs
  <2>10. Open(c, 4, b) <=> b = Header
    BY <1>1, <2>3, <2>9 DEF OpIs
  <2>11. Open(c, 3, b) <=> b = Header
    BY <1>1, <2>3, <2>10 DEF OpIs
  <2>12. ~Open(c, 2, b)
    BY <1>1, <2>3, <2>11 DEF OpIs
  <2>13. ~Open(c, 1, b)
    BY <1>1, <2>3, <2>12 DEF OpIs
  <2> QED
    BY <2>1, <2>4, <2>5, <2>6, <2>7, <2>8, <2>9, <2>10, <2>11, <2>12, <2>13
<1>4. Balanced(c)
  <2>1. ASSUME NEW k \in 1 .. Len(c), NEW b \in Blocks
        PROVE  /\ Needs(c[k], b) => Open(c, k + 1, b)
               /\ OpIs(c[k], "brelse", b) \/ c[k][1] \in Bare => ~Open(c, k + 1, b)
    <3>1. CASE k = 1
      BY <1>1, <1>3, <3>1 DEF Needs, OpIs, Bare
    <3>2. CASE k = 2
      BY <1>1, <1>3, <3>2 DEF Needs, OpIs, Bare
    <3>3. CASE k = 3
      BY <1>1, <1>3, <3>3 DEF Needs, OpIs, Bare
    <3>4. CASE k = 4
      BY <1>1, <1>3, <3>4 DEF Needs, OpIs, Bare
    <3>5. CASE k = 5
      BY <1>1, <1>3, <3>5 DEF Needs, OpIs, Bare
    <3>6. CASE k = 6
      BY <1>1, <1>3, <3>6 DEF Needs, OpIs, Bare
    <3>7. CASE k = 7
      BY <1>1, <1>3, <3>7 DEF Needs, OpIs, Bare
    <3>8. CASE k = 8
      BY <1>1, <1>3, <3>8 DEF Needs, OpIs, Bare
    <3>9. CASE k = 9
      BY <1>1, <1>3, <3>9 DEF Needs, OpIs, Bare
    <3>10. CASE k = 10
      BY <1>1, <1>3, <3>10 DEF Needs, OpIs, Bare
    <3> QED
      BY <1>2, <3>1, <3>2, <3>3, <3>4, <3>5, <3>6, <3>7, <3>8, <3>9, <3>10
  <2> QED
    BY <2>1 DEF Balanced
<1>5. LastOp(c) = "done"
  <2>1. Len(c) # 0
    BY <1>2
  <2>2. c # << >>
    BY <2>1, EmptySeq
  <2>3. c[Len(c)][1] = "done"
    BY <1>1, <1>2
  <2> QED
    BY <2>2, <2>3 DEF LastOp
<1>6. Ordered(c)
  <2>1. ASSUME NEW k \in 1 .. Len(c) PROVE OrderedAt(c, k)
    <3>1. CASE k = 1
      BY <1>1, <1>2, <1>5, <3>1 DEF OrderedAt, Low
    <3>2. CASE k = 2
      BY <1>1, <1>2, <1>5, <3>2 DEF OrderedAt, Low
    <3>3. CASE k = 3
      BY <1>1, <1>2, <1>5, <3>3 DEF OrderedAt, Low
    <3>4. CASE k = 4
      BY <1>1, <1>2, <1>5, <3>4 DEF OrderedAt, Low
    <3>5. CASE k = 5
      BY <1>1, <1>2, <1>5, <3>5 DEF OrderedAt, Low
    <3>6. CASE k = 6
      BY <1>1, <1>2, <1>5, <3>6 DEF OrderedAt, Low
    <3>7. CASE k = 7
      BY <1>1, <1>2, <1>5, <3>7 DEF OrderedAt, Low
    <3>8. CASE k = 8
      BY <1>1, <1>2, <1>5, <3>8 DEF OrderedAt, Low
    <3>9. CASE k = 9
      BY <1>1, <1>2, <1>5, <3>9 DEF OrderedAt, Low
    <3>10. CASE k = 10
      BY <1>1, <1>2, <1>5, <3>10 DEF OrderedAt, Low
    <3> QED
      BY <1>2, <3>1, <3>2, <3>3, <3>4, <3>5, <3>6, <3>7, <3>8, <3>9, <3>10
  <2> QED
    BY <2>1 DEF Ordered
<1> QED
  BY <1>3, <1>4, <1>6

\* What a process that starts the machine has to do.
LEMMA RecoveryProgram ==
  ASSUME NEW c \in Seq(Instrs), Len(c) = 9,
         c[1][1] = "bread" /\ c[1][2] = Header,
         c[2][1] = "read_head",
         c[3][1] = "brelse" /\ c[3][2] = Header,
         c[4] = <<"install_trans", 1>>,
         c[5][1] = "clear",
         c[6][1] = "bread" /\ c[6][2] = Header,
         c[7][1] = "write_head",
         c[8][1] = "brelse" /\ c[8][2] = Header,
         c[9][1] = "up"
  PROVE  Balanced(c) /\ Ordered(c) /\ \A b \in Blocks : ~Open(c, 1, b)
<1>1. /\ c[1][1] = "bread" /\ c[1][2] = Header
      /\ c[2][1] = "read_head"
      /\ c[3][1] = "brelse" /\ c[3][2] = Header
      /\ c[4][1] = "install_trans" /\ c[4] = <<"install_trans", 1>>
      /\ c[5][1] = "clear"
      /\ c[6][1] = "bread" /\ c[6][2] = Header
      /\ c[7][1] = "write_head"
      /\ c[8][1] = "brelse" /\ c[8][2] = Header
      /\ c[9][1] = "up"
  OBVIOUS
<1>2. Len(c) = 9 /\ \A k \in 1 .. Len(c) : k = 1 \/ k = 2 \/ k = 3 \/ k = 4 \/ k = 5 \/ k = 6
                                             \/ k = 7 \/ k = 8 \/ k = 9
  OBVIOUS
<1>3. ASSUME NEW b \in Blocks
      PROVE  /\ ~Open(c, 10, b)
             /\ ~Open(c, 9, b)
             /\ Open(c, 8, b) <=> b = Header
             /\ Open(c, 7, b) <=> b = Header
             /\ ~Open(c, 6, b)
             /\ ~Open(c, 5, b)
             /\ ~Open(c, 4, b)
             /\ Open(c, 3, b) <=> b = Header
             /\ Open(c, 2, b) <=> b = Header
             /\ ~Open(c, 1, b)
  <2>1. ~Open(c, 10, b)
    <3>1. ~Open(c, Len(c) + 1, b)
      BY OpenEnd
    <3>2. Len(c) + 1 = 10
      BY <1>2
    <3> QED
      BY <3>1, <3>2
  <2>2. ASSUME NEW k \in 1 .. 9
        PROVE  Open(c, k, b) <=> \/ OpIs(c[k], "brelse", b)
                                 \/ ~OpIs(c[k], "bread", b) /\ Open(c, k + 1, b)
    BY <1>2, OpenHead
  <2>3. /\ Open(c, 9, b) <=> OpIs(c[9], "brelse", b) \/ (~OpIs(c[9], "bread", b) /\ Open(c, 10, b))
        /\ Open(c, 8, b) <=> OpIs(c[8], "brelse", b) \/ (~OpIs(c[8], "bread", b) /\ Open(c, 9, b))
        /\ Open(c, 7, b) <=> OpIs(c[7], "brelse", b) \/ (~OpIs(c[7], "bread", b) /\ Open(c, 8, b))
        /\ Open(c, 6, b) <=> OpIs(c[6], "brelse", b) \/ (~OpIs(c[6], "bread", b) /\ Open(c, 7, b))
        /\ Open(c, 5, b) <=> OpIs(c[5], "brelse", b) \/ (~OpIs(c[5], "bread", b) /\ Open(c, 6, b))
        /\ Open(c, 4, b) <=> OpIs(c[4], "brelse", b) \/ (~OpIs(c[4], "bread", b) /\ Open(c, 5, b))
        /\ Open(c, 3, b) <=> OpIs(c[3], "brelse", b) \/ (~OpIs(c[3], "bread", b) /\ Open(c, 4, b))
        /\ Open(c, 2, b) <=> OpIs(c[2], "brelse", b) \/ (~OpIs(c[2], "bread", b) /\ Open(c, 3, b))
        /\ Open(c, 1, b) <=> OpIs(c[1], "brelse", b) \/ (~OpIs(c[1], "bread", b) /\ Open(c, 2, b))
    <3>1. /\ 1 \in 1 .. 9 /\ 1 + 1 = 2
          /\ 2 \in 1 .. 9 /\ 2 + 1 = 3
          /\ 3 \in 1 .. 9 /\ 3 + 1 = 4
          /\ 4 \in 1 .. 9 /\ 4 + 1 = 5
          /\ 5 \in 1 .. 9 /\ 5 + 1 = 6
          /\ 6 \in 1 .. 9 /\ 6 + 1 = 7
          /\ 7 \in 1 .. 9 /\ 7 + 1 = 8
          /\ 8 \in 1 .. 9 /\ 8 + 1 = 9
          /\ 9 \in 1 .. 9 /\ 9 + 1 = 10
      OBVIOUS
    <3> QED
      BY <2>2, <3>1
  <2>4. ~Open(c, 9, b)
    BY <1>1, <2>3, <2>1 DEF OpIs
  <2>5. Open(c, 8, b) <=> b = Header
    BY <1>1, <2>3, <2>4 DEF OpIs
  <2>6. Open(c, 7, b) <=> b = Header
    BY <1>1, <2>3, <2>5 DEF OpIs
  <2>7. ~Open(c, 6, b)
    BY <1>1, <2>3, <2>6 DEF OpIs
  <2>8. ~Open(c, 5, b)
    BY <1>1, <2>3, <2>7 DEF OpIs
  <2>9. ~Open(c, 4, b)
    BY <1>1, <2>3, <2>8 DEF OpIs
  <2>10. Open(c, 3, b) <=> b = Header
    BY <1>1, <2>3, <2>9 DEF OpIs
  <2>11. Open(c, 2, b) <=> b = Header
    BY <1>1, <2>3, <2>10 DEF OpIs
  <2>12. ~Open(c, 1, b)
    BY <1>1, <2>3, <2>11 DEF OpIs
  <2> QED
    BY <2>1, <2>4, <2>5, <2>6, <2>7, <2>8, <2>9, <2>10, <2>11, <2>12
<1>4. Balanced(c)
  <2>1. ASSUME NEW k \in 1 .. Len(c), NEW b \in Blocks
        PROVE  /\ Needs(c[k], b) => Open(c, k + 1, b)
               /\ OpIs(c[k], "brelse", b) \/ c[k][1] \in Bare => ~Open(c, k + 1, b)
    <3>1. CASE k = 1
      BY <1>1, <1>3, <3>1 DEF Needs, OpIs, Bare
    <3>2. CASE k = 2
      BY <1>1, <1>3, <3>2 DEF Needs, OpIs, Bare
    <3>3. CASE k = 3
      BY <1>1, <1>3, <3>3 DEF Needs, OpIs, Bare
    <3>4. CASE k = 4
      BY <1>1, <1>3, <3>4 DEF Needs, OpIs, Bare
    <3>5. CASE k = 5
      BY <1>1, <1>3, <3>5 DEF Needs, OpIs, Bare
    <3>6. CASE k = 6
      BY <1>1, <1>3, <3>6 DEF Needs, OpIs, Bare
    <3>7. CASE k = 7
      BY <1>1, <1>3, <3>7 DEF Needs, OpIs, Bare
    <3>8. CASE k = 8
      BY <1>1, <1>3, <3>8 DEF Needs, OpIs, Bare
    <3>9. CASE k = 9
      BY <1>1, <1>3, <3>9 DEF Needs, OpIs, Bare
    <3> QED
      BY <1>2, <3>1, <3>2, <3>3, <3>4, <3>5, <3>6, <3>7, <3>8, <3>9
  <2> QED
    BY <2>1 DEF Balanced
<1>5. LastOp(c) = "up"
  <2>1. Len(c) # 0
    BY <1>2
  <2>2. c # << >>
    BY <2>1, EmptySeq
  <2>3. c[Len(c)][1] = "up"
    BY <1>1, <1>2
  <2> QED
    BY <2>2, <2>3 DEF LastOp
<1>6. Ordered(c)
  <2>1. ASSUME NEW k \in 1 .. Len(c) PROVE OrderedAt(c, k)
    <3>1. CASE k = 1
      BY <1>1, <1>2, <1>5, <3>1 DEF OrderedAt, Low
    <3>2. CASE k = 2
      BY <1>1, <1>2, <1>5, <3>2 DEF OrderedAt, Low
    <3>3. CASE k = 3
      BY <1>1, <1>2, <1>5, <3>3 DEF OrderedAt, Low
    <3>4. CASE k = 4
      BY <1>1, <1>2, <1>5, <3>4 DEF OrderedAt, Low
    <3>5. CASE k = 5
      BY <1>1, <1>2, <1>5, <3>5 DEF OrderedAt, Low
    <3>6. CASE k = 6
      BY <1>1, <1>2, <1>5, <3>6 DEF OrderedAt, Low
    <3>7. CASE k = 7
      BY <1>1, <1>2, <1>5, <3>7 DEF OrderedAt, Low
    <3>8. CASE k = 8
      BY <1>1, <1>2, <1>5, <3>8 DEF OrderedAt, Low
    <3>9. CASE k = 9
      BY <1>1, <1>2, <1>5, <3>9 DEF OrderedAt, Low
    <3> QED
      BY <1>2, <3>1, <3>2, <3>3, <3>4, <3>5, <3>6, <3>7, <3>8, <3>9
  <2> QED
    BY <2>1 DEF Ordered
<1> QED
  BY <1>3, <1>4, <1>6

\* What an operation has to do.
LEMMA OperationProgram ==
  ASSUME NEW c \in Seq(Instrs), Len(c) = 3,
         c[1][1] = "begin",
         c[2][1] = "body",
         c[3][1] = "end"
  PROVE  Balanced(c) /\ Ordered(c) /\ \A b \in Blocks : ~Open(c, 1, b)
<1>1. /\ c[1][1] = "begin"
      /\ c[2][1] = "body"
      /\ c[3][1] = "end"
  OBVIOUS
<1>2. Len(c) = 3 /\ \A k \in 1 .. Len(c) : k = 1 \/ k = 2 \/ k = 3
  OBVIOUS
<1>3. ASSUME NEW b \in Blocks
      PROVE  /\ ~Open(c, 4, b)
             /\ ~Open(c, 3, b)
             /\ ~Open(c, 2, b)
             /\ ~Open(c, 1, b)
  <2>1. ~Open(c, 4, b)
    <3>1. ~Open(c, Len(c) + 1, b)
      BY OpenEnd
    <3>2. Len(c) + 1 = 4
      BY <1>2
    <3> QED
      BY <3>1, <3>2
  <2>2. ASSUME NEW k \in 1 .. 3
        PROVE  Open(c, k, b) <=> \/ OpIs(c[k], "brelse", b)
                                 \/ ~OpIs(c[k], "bread", b) /\ Open(c, k + 1, b)
    BY <1>2, OpenHead
  <2>3. /\ Open(c, 3, b) <=> OpIs(c[3], "brelse", b) \/ (~OpIs(c[3], "bread", b) /\ Open(c, 4, b))
        /\ Open(c, 2, b) <=> OpIs(c[2], "brelse", b) \/ (~OpIs(c[2], "bread", b) /\ Open(c, 3, b))
        /\ Open(c, 1, b) <=> OpIs(c[1], "brelse", b) \/ (~OpIs(c[1], "bread", b) /\ Open(c, 2, b))
    <3>1. /\ 1 \in 1 .. 3 /\ 1 + 1 = 2
          /\ 2 \in 1 .. 3 /\ 2 + 1 = 3
          /\ 3 \in 1 .. 3 /\ 3 + 1 = 4
      OBVIOUS
    <3> QED
      BY <2>2, <3>1
  <2>4. ~Open(c, 3, b)
    BY <1>1, <2>3, <2>1 DEF OpIs
  <2>5. ~Open(c, 2, b)
    BY <1>1, <2>3, <2>4 DEF OpIs
  <2>6. ~Open(c, 1, b)
    BY <1>1, <2>3, <2>5 DEF OpIs
  <2> QED
    BY <2>1, <2>4, <2>5, <2>6
<1>4. Balanced(c)
  <2>1. ASSUME NEW k \in 1 .. Len(c), NEW b \in Blocks
        PROVE  /\ Needs(c[k], b) => Open(c, k + 1, b)
               /\ OpIs(c[k], "brelse", b) \/ c[k][1] \in Bare => ~Open(c, k + 1, b)
    <3>1. CASE k = 1
      BY <1>1, <1>3, <3>1 DEF Needs, OpIs, Bare
    <3>2. CASE k = 2
      BY <1>1, <1>3, <3>2 DEF Needs, OpIs, Bare
    <3>3. CASE k = 3
      BY <1>1, <1>3, <3>3 DEF Needs, OpIs, Bare
    <3> QED
      BY <1>2, <3>1, <3>2, <3>3
  <2> QED
    BY <2>1 DEF Balanced
<1>5. LastOp(c) = "end"
  <2>1. Len(c) # 0
    BY <1>2
  <2>2. c # << >>
    BY <2>1, EmptySeq
  <2>3. c[Len(c)][1] = "end"
    BY <1>1, <1>2
  <2> QED
    BY <2>2, <2>3 DEF LastOp
<1>6. Ordered(c)
  <2>1. ASSUME NEW k \in 1 .. Len(c) PROVE OrderedAt(c, k)
    <3>1. CASE k = 1
      BY <1>1, <1>2, <1>5, <3>1 DEF OrderedAt, Low
    <3>2. CASE k = 2
      BY <1>1, <1>2, <1>5, <3>2 DEF OrderedAt, Low
    <3>3. CASE k = 3
      BY <1>1, <1>2, <1>5, <3>3 DEF OrderedAt, Low
    <3> QED
      BY <1>2, <3>1, <3>2, <3>3
  <2> QED
    BY <2>1 DEF Ordered
<1> QED
  BY <1>3, <1>4, <1>6

\* What a process that only reads a block has to do.
LEMMA ReaderProgram ==
  ASSUME NEW c \in Seq(Instrs), Len(c) = 2, NEW x,
         c[1][1] = "bread" /\ c[1][2] = x,
         c[2][1] = "brelse" /\ c[2][2] = x
  PROVE  Balanced(c) /\ Ordered(c) /\ \A b \in Blocks : ~Open(c, 1, b)
<1>1. /\ c[1][1] = "bread" /\ c[1][2] = x
      /\ c[2][1] = "brelse" /\ c[2][2] = x
  OBVIOUS
<1>2. Len(c) = 2 /\ \A k \in 1 .. Len(c) : k = 1 \/ k = 2
  OBVIOUS
<1>3. ASSUME NEW b \in Blocks
      PROVE  /\ ~Open(c, 3, b)
             /\ Open(c, 2, b) <=> b = x
             /\ ~Open(c, 1, b)
  <2>1. ~Open(c, 3, b)
    <3>1. ~Open(c, Len(c) + 1, b)
      BY OpenEnd
    <3>2. Len(c) + 1 = 3
      BY <1>2
    <3> QED
      BY <3>1, <3>2
  <2>2. ASSUME NEW k \in 1 .. 2
        PROVE  Open(c, k, b) <=> \/ OpIs(c[k], "brelse", b)
                                 \/ ~OpIs(c[k], "bread", b) /\ Open(c, k + 1, b)
    BY <1>2, OpenHead
  <2>3. /\ Open(c, 2, b) <=> OpIs(c[2], "brelse", b) \/ (~OpIs(c[2], "bread", b) /\ Open(c, 3, b))
        /\ Open(c, 1, b) <=> OpIs(c[1], "brelse", b) \/ (~OpIs(c[1], "bread", b) /\ Open(c, 2, b))
    <3>1. /\ 1 \in 1 .. 2 /\ 1 + 1 = 2
          /\ 2 \in 1 .. 2 /\ 2 + 1 = 3
      OBVIOUS
    <3> QED
      BY <2>2, <3>1
  <2>4. Open(c, 2, b) <=> b = x
    BY <1>1, <2>3, <2>1 DEF OpIs
  <2>5. ~Open(c, 1, b)
    BY <1>1, <2>3, <2>4 DEF OpIs
  <2> QED
    BY <2>1, <2>4, <2>5
<1>4. Balanced(c)
  <2>1. ASSUME NEW k \in 1 .. Len(c), NEW b \in Blocks
        PROVE  /\ Needs(c[k], b) => Open(c, k + 1, b)
               /\ OpIs(c[k], "brelse", b) \/ c[k][1] \in Bare => ~Open(c, k + 1, b)
    <3>1. CASE k = 1
      BY <1>1, <1>3, <3>1 DEF Needs, OpIs, Bare
    <3>2. CASE k = 2
      BY <1>1, <1>3, <3>2 DEF Needs, OpIs, Bare
    <3> QED
      BY <1>2, <3>1, <3>2
  <2> QED
    BY <2>1 DEF Balanced
<1>5. LastOp(c) = "brelse"
  <2>1. Len(c) # 0
    BY <1>2
  <2>2. c # << >>
    BY <2>1, EmptySeq
  <2>3. c[Len(c)][1] = "brelse"
    BY <1>1, <1>2
  <2> QED
    BY <2>2, <2>3 DEF LastOp
<1>6. Ordered(c)
  <2>1. ASSUME NEW k \in 1 .. Len(c) PROVE OrderedAt(c, k)
    <3>1. CASE k = 1
      BY <1>1, <1>2, <1>5, <3>1 DEF OrderedAt, Low
    <3>2. CASE k = 2
      BY <1>1, <1>2, <1>5, <3>2 DEF OrderedAt, Low
    <3> QED
      BY <1>2, <3>1, <3>2
  <2> QED
    BY <2>1 DEF Ordered
<1> QED
  BY <1>3, <1>4, <1>6

\* What the first instruction of a program says of the rest.
LEMMA FirstTells ==
  ASSUME NEW c \in Seq(Instrs), c # << >>, Ordered(c)
  PROVE  /\ c[1][1] \in {"begin", "body", "log_write"} => LastOp(c) = "end" /\ Len(c) # 1
         /\ c[1][1] \in {"end", "done", "up"} =>
              /\ Len(c) = 1 /\ LastOp(c) = c[1][1]
              /\ \A o : HasOp(c, o) <=> o = c[1][1]
         /\ c[1][1] = "clear" => LastOp(c) \in {"done", "up"} /\ Len(c) # 1
         /\ c[1][1] = "read_head" =>
              /\ LastOp(c) = "up" /\ Len(c) # 1
              /\ \E k \in 2 .. Len(c) : c[k][1] = "clear"
              /\ \A k \in 2 .. Len(c) : c[k][1] # "read_head"
         /\ HasOp(c, "read_head") => LastOp(c) = "up"
<1>1. PICK m \in Nat \ {0} : m = Len(c)
  BY LenProperties, EmptySeq
<1>2. LastOp(c) = c[m][1]
  BY <1>1 DEF LastOp
<1>3. \A k \in 1 .. m : OrderedAt(c, k)
  BY <1>1 DEF Ordered
<1>4. 1 \in 1 .. m /\ OrderedAt(c, 1)
  BY <1>3
<1>5. c[1][1] \in {"begin", "body", "log_write"} => LastOp(c) = "end" /\ m # 1
  BY <1>2, <1>4 DEF OrderedAt
<1>6. c[1][1] \in {"end", "done", "up"} => m = 1 /\ LastOp(c) = c[1][1]
  BY <1>1, <1>2, <1>4 DEF OrderedAt
<1>7. m = 1 => \A o : HasOp(c, o) <=> o = c[1][1]
  BY <1>1 DEF HasOp
<1>8. c[1][1] = "clear" => LastOp(c) \in {"done", "up"} /\ m # 1
  <2>1. c[1][1] = "clear" => 1 = Len(c) - 4 /\ LastOp(c) \in {"done", "up"}
    BY <1>4 DEF OrderedAt
  <2>2. 1 = m - 4 => m # 1
    OBVIOUS
  <2> QED
    BY <1>1, <2>1, <2>2
<1>9. ASSUME c[1][1] = "read_head"
      PROVE  /\ LastOp(c) = "up" /\ m # 1
             /\ \E k \in 2 .. m : c[k][1] = "clear"
             /\ \A k \in 2 .. m : c[k][1] # "read_head"
  <2>1. 1 = m - 7 /\ c[1 + 2] = <<"install_trans", 1>> /\ LastOp(c) = "up"
    BY <1>1, <1>4, <1>9 DEF OrderedAt
  <2>2. m = 8 /\ 3 \in 1 .. m /\ 4 \in 2 .. m
    BY <2>1
  <2>3. c[3][1] = "install_trans" /\ OrderedAt(c, 3)
    BY <1>3, <2>1, <2>2
  <2>4. c[3 + 1][1] = "clear"
    BY <2>3 DEF OrderedAt
  <2>5. c[4][1] = "clear"
    BY <2>4
  <2>6. ASSUME NEW k \in 2 .. m PROVE c[k][1] # "read_head"
    <3>1. k \in 1 .. m /\ k # m - 7
      BY <2>2
    <3> QED
      BY <1>1, <1>3, <3>1 DEF OrderedAt
  <2> QED
    BY <2>1, <2>2, <2>5, <2>6
<1>10. HasOp(c, "read_head") => LastOp(c) = "up"
  BY <1>1, <1>3 DEF HasOp, OrderedAt
<1> QED
  BY <1>1, <1>5, <1>6, <1>7, <1>8, <1>9, <1>10

\* Programs put together from parts.
LEMMA JoinedTen ==
  ASSUME NEW a \in Instrs, NEW b \in Instrs, NEW c \in Instrs, NEW d \in Instrs,
         NEW e \in Instrs, NEW f \in Instrs, NEW g \in Instrs, NEW s,
         s = ((<<a>> \o <<b, c, d>>) \o (<<e, f>> \o <<b, c, d>>)) \o <<g>>
  PROVE  /\ s \in Seq(Instrs) /\ Len(s) = 10 /\ s[1] = a /\ s[2] = b /\ s[3] = c /\ s[4] = d
         /\ s[5] = e /\ s[6] = f /\ s[7] = b /\ s[8] = c /\ s[9] = d /\ s[10] = g
  OBVIOUS

\* The same for recovery.
LEMMA JoinedNine ==
  ASSUME NEW a \in Instrs, NEW b \in Instrs, NEW c \in Instrs, NEW d \in Instrs,
         NEW e \in Instrs, NEW f \in Instrs, NEW g \in Instrs, NEW s,
         s = (<<b, a, d>> \o (<<e, f>> \o <<b, c, d>>)) \o <<g>>
  PROVE  /\ s \in Seq(Instrs) /\ Len(s) = 9 /\ s[1] = b /\ s[2] = a /\ s[3] = d /\ s[4] = e
         /\ s[5] = f /\ s[6] = b /\ s[7] = c /\ s[8] = d /\ s[9] = g
  OBVIOUS

\* What end_op gives the last operation to do: a commit, if anything was logged.
LastProgram == commit \o <<<<"done">>>>

\* It is a sound program of the log.
LEMMA CommitCode ==
  ASSUME NEW s, s = LastProgram
  PROVE  /\ s \in Seq(Instrs) /\ s # << >> /\ Head(s) = s[1]
         /\ s[1][1] \in {"write_log", "done"} /\ LastOp(s) = "done"
         /\ Balanced(s) /\ Ordered(s) /\ \A b \in Blocks : ~Open(s, 1, b)
         /\ lh # << >> => HasOp(s, "clear")
         /\ ~HasOp(s, "read_head") /\ \A h : Matches(s, h)
         /\ lh = << >> => s[1][1] = "done"
         /\ lh # << >> => Len(s) = 10 /\ s[1] = <<"write_log", 1>> /\ s[3][1] = "write_head"
<1>0. PICK a, b, c, d, e, f, g \in Instrs :
        /\ a = <<"write_log", 1>> /\ b = <<"bread", Header>> /\ c = <<"write_head">>
        /\ d = <<"brelse", Header>> /\ e = <<"install_trans", 1>> /\ f = <<"clear">>
        /\ g = <<"done">>
  <2>1. /\ <<"write_log", 1>> \in Instrs /\ <<"bread", Header>> \in Instrs
        /\ <<"write_head">> \in Instrs /\ <<"brelse", Header>> \in Instrs
        /\ <<"install_trans", 1>> \in Instrs /\ <<"clear">> \in Instrs /\ <<"done">> \in Instrs
    BY IsInstr, LogAssumption
  <2> QED
    BY <2>1
<1>3. s = ((<<a>> \o <<b, c, d>>) \o (<<e, f>> \o <<b, c, d>>)) \o <<g>> =>
        /\ s \in Seq(Instrs) /\ Len(s) = 10 /\ s[1] = a /\ s[2] = b /\ s[3] = c /\ s[4] = d
        /\ s[5] = e /\ s[6] = f /\ s[7] = b /\ s[8] = c /\ s[9] = d /\ s[10] = g
  BY JoinedTen
<1>1. CASE lh = << >>
  <2>1. PICK x \in Instrs : x = <<"done">>
    BY IsInstr
  <2>2. s = <<x>>
    <3>1. << >> \o <<x>> = <<x>>
      OBVIOUS
    <3> QED
      BY <1>1, <2>1, <3>1 DEF LastProgram, commit
  <2>3. s \in Seq(Instrs) /\ s # << >> /\ Head(s) = s[1] /\ Len(s) = 1 /\ s[1] = x
    <3>1. s \in Seq(Instrs) /\ Len(s) = 1 /\ s[1] = x
      BY <2>2
    <3>2. s # << >>
      <4>1. Len(s) # 0
        BY <3>1
      <4> QED
        BY <3>1, <4>1, EmptySeq
    <3> QED
      BY <3>1, <3>2, HeadTailProperties
  <2>4. s[1][1] = "done"
    BY <2>1, <2>3
  <2>5. \A k \in 1 .. Len(s) : k = 1
    BY <2>3
  <2>6. LastOp(s) = "done"
    BY <2>3, <2>4 DEF LastOp
  <2>7. ~HasOp(s, "read_head") /\ \A h : Matches(s, h)
    BY <2>4, <2>5 DEF HasOp, Matches, CopyMatches
  <2>8. Ordered(s)
    BY <2>3, <2>4, <2>5 DEF Ordered, OrderedAt, Low
  <2>9. \A y : ~Open(s, 1 + 1, y)
    BY <2>3, OpenEnd
  <2>10. Balanced(s)
    <3>1. \A y : ~Needs(s[1], y) /\ ~OpIs(s[1], "bread", y) /\ ~OpIs(s[1], "brelse", y)
      BY <2>4 DEF Needs, OpIs
    <3> QED
      BY <2>5, <2>9, <3>1 DEF Balanced
  <2>11. \A y \in Blocks : ~Open(s, 1, y)
    BY <2>4, <2>5 DEF Open, OpIs
  <2> QED
    BY <1>1, <2>3, <2>4, <2>6, <2>7, <2>8, <2>10, <2>11
<1>2. CASE lh # << >>
  <2>2. s = ((<<a>> \o <<b, c, d>>) \o (<<e, f>> \o <<b, c, d>>)) \o <<g>>
    BY <1>0, <1>2 DEF LastProgram, commit, write_head, InstallAndErase
  <2>3. /\ s \in Seq(Instrs) /\ Len(s) = 10 /\ s[1] = a /\ s[2] = b /\ s[3] = c /\ s[4] = d
        /\ s[5] = e /\ s[6] = f /\ s[7] = b /\ s[8] = c /\ s[9] = d /\ s[10] = g
    BY <1>3, <2>2, Zenon
  <2>4. /\ s[1][1] = "write_log" /\ s[2][1] = "bread" /\ s[2][2] = Header
        /\ s[3][1] = "write_head" /\ s[4][1] = "brelse" /\ s[4][2] = Header
        /\ s[5] = <<"install_trans", 1>> /\ s[5][1] = "install_trans" /\ s[6][1] = "clear"
        /\ s[7][1] = "bread" /\ s[7][2] = Header /\ s[8][1] = "write_head"
        /\ s[9][1] = "brelse" /\ s[9][2] = Header /\ s[10][1] = "done"
    BY <1>0, <2>3
  <2>5. Balanced(s) /\ Ordered(s) /\ \A x \in Blocks : ~Open(s, 1, x)
    BY <2>3, <2>4, CommitProgram
  <2>6. s # << >> /\ Len(s) = 10
    BY <2>3
  <2>7. Head(s) = s[1]
    BY <2>3, <2>6, HeadTailProperties
  <2>8. LastOp(s) = "done"
    BY <2>4, <2>6 DEF LastOp
  <2>9. 6 \in 1 .. Len(s)
    BY <2>6
  <2>10. HasOp(s, "clear")
    BY <2>4, <2>9 DEF HasOp
  <2>11. \A k \in 1 .. Len(s) : k = 1 \/ k = 2 \/ k = 3 \/ k = 4 \/ k = 5 \/ k = 6 \/ k = 7
                                \/ k = 8 \/ k = 9 \/ k = 10
    BY <2>6
  <2>12. \A k \in 1 .. Len(s) : s[k][1] \notin {"copy", "read_head"}
    BY <2>4, <2>11
  <2>13. ~HasOp(s, "read_head") /\ \A h : Matches(s, h)
    BY <2>12 DEF HasOp, Matches, CopyMatches
  <2>14. s[1] = <<"write_log", 1>>
    BY <1>0, <2>3
  <2> QED
    BY <1>2, <2>3, <2>4, <2>5, <2>6, <2>7, <2>8, <2>10, <2>13, <2>14
<1> QED
  BY <1>1, <1>2

\* What the process that starts the machine is given to do.
LEMMA RecoveryCode ==
  ASSUME NEW s, s = recover_from_log
  PROVE  /\ s \in Seq(Instrs) /\ s # << >> /\ Head(s) = s[1]
         /\ s[1][1] = "bread" /\ LastOp(s) = "up"
         /\ Balanced(s) /\ Ordered(s) /\ \A b \in Blocks : ~Open(s, 1, b)
         /\ HasOp(s, "read_head") /\ \A h : Matches(s, h)
<1>1. PICK b, c, d, e, f, g, h \in Instrs :
        /\ b = <<"bread", Header>> /\ c = <<"write_head">>
        /\ d = <<"brelse", Header>> /\ e = <<"install_trans", 1>> /\ f = <<"clear">>
        /\ g = <<"up">> /\ h = <<"read_head">>
  <2>1. /\ <<"read_head">> \in Instrs /\ <<"bread", Header>> \in Instrs
        /\ <<"write_head">> \in Instrs /\ <<"brelse", Header>> \in Instrs
        /\ <<"install_trans", 1>> \in Instrs /\ <<"clear">> \in Instrs /\ <<"up">> \in Instrs
    BY IsInstr, LogAssumption
  <2> QED
    BY <2>1
<1>2. s = (<<b, h, d>> \o (<<e, f>> \o <<b, c, d>>)) \o <<g>>
  BY <1>1 DEF recover_from_log, write_head, InstallAndErase
<1>3. /\ s \in Seq(Instrs) /\ Len(s) = 9 /\ s[1] = b /\ s[2] = h /\ s[3] = d /\ s[4] = e
      /\ s[5] = f /\ s[6] = b /\ s[7] = c /\ s[8] = d /\ s[9] = g
  BY <1>2, JoinedNine
<1>4. /\ s[1][1] = "bread" /\ s[1][2] = Header /\ s[2][1] = "read_head"
      /\ s[3][1] = "brelse" /\ s[3][2] = Header
      /\ s[4] = <<"install_trans", 1>> /\ s[4][1] = "install_trans" /\ s[5][1] = "clear"
      /\ s[6][1] = "bread" /\ s[6][2] = Header /\ s[7][1] = "write_head"
      /\ s[8][1] = "brelse" /\ s[8][2] = Header /\ s[9][1] = "up"
  BY <1>1, <1>3
<1>5. Balanced(s) /\ Ordered(s) /\ \A x \in Blocks : ~Open(s, 1, x)
  BY <1>3, <1>4, RecoveryProgram
<1>6. s # << >> /\ Len(s) = 9
  <2>1. Len(s) = 9 /\ Len(s) # 0
    BY <1>3
  <2> QED
    BY <1>3, <2>1, EmptySeq
<1>7. Head(s) = s[1]
  BY <1>3, <1>6, HeadTailProperties
<1>8. LastOp(s) = "up"
  BY <1>4, <1>6 DEF LastOp
<1>9. \A k \in 1 .. Len(s) : k = 1 \/ k = 2 \/ k = 3 \/ k = 4 \/ k = 5 \/ k = 6 \/ k = 7
                             \/ k = 8 \/ k = 9
  BY <1>6
<1>10. \A k \in 1 .. Len(s) : s[k][1] # "copy"
  BY <1>4, <1>9
<1>11. \A x : Matches(s, x)
  BY <1>10 DEF Matches, CopyMatches
<1>12. 2 \in 1 .. Len(s)
  BY <1>6
<1>13. HasOp(s, "read_head")
  BY <1>4, <1>12 DEF HasOp
<1> QED
  BY <1>3, <1>4, <1>5, <1>6, <1>7, <1>8, <1>11, <1>13

\* What an idle process is given to do: an operation, or to read a block.
LEMMA StartCode ==
  ASSUME NEW s, \/ \E w \in Writes, v \in Values : s = Operation(w, v)
                \/ \E b \in Homes : s = <<<<"bread", b>>, <<"brelse", b>>>>
  PROVE  /\ s \in Seq(Instrs) /\ s # << >> /\ Head(s) = s[1]
         /\ s[1][1] \in {"begin", "bread"} /\ LastOp(s) \notin {"done", "up"}
         /\ s[1][1] = "begin" \/ LastOp(s) # "end"
         /\ Balanced(s) /\ Ordered(s) /\ \A b \in Blocks : ~Open(s, 1, b)
         /\ ~HasOp(s, "read_head") /\ \A h : Matches(s, h)
<1>1. CASE \E w \in Writes, v \in Values : s = Operation(w, v)
  <2>1. PICK w \in Seq(Homes), v \in Values : s = Operation(w, v)
    BY <1>1, LogAssumption
  <2>2. PICK a, b, c \in Instrs : a = <<"begin">> /\ b = <<"body", w, v>> /\ c = <<"end">>
    BY IsInstr
  <2>3. s = <<a, b, c>>
    BY <2>1, <2>2 DEF Operation
  <2>4. /\ s \in Seq(Instrs) /\ Len(s) = 3 /\ s # << >> /\ Head(s) = s[1]
        /\ s[1] = a /\ s[2] = b /\ s[3] = c
    BY <2>3
  <2>5. s[1][1] = "begin" /\ s[2][1] = "body" /\ s[3][1] = "end" /\ Len(s) = 3 /\ s # << >>
    BY <2>2, <2>4
  <2>6. Balanced(s) /\ Ordered(s) /\ \A x \in Blocks : ~Open(s, 1, x)
    BY <2>4, <2>5, OperationProgram
  <2>7. LastOp(s) = "end"
    BY <2>5 DEF LastOp
  <2>8. \A k \in 1 .. Len(s) : k = 1 \/ k = 2 \/ k = 3
    BY <2>5
  <2>9. ~HasOp(s, "read_head") /\ \A h : Matches(s, h)
    BY <2>5, <2>8 DEF HasOp, Matches, CopyMatches
  <2> QED
    BY <2>4, <2>5, <2>6, <2>7, <2>9
<1>2. CASE \E b \in Homes : s = <<<<"bread", b>>, <<"brelse", b>>>>
  <2>1. PICK x \in Homes : s = <<<<"bread", x>>, <<"brelse", x>>>>
    BY <1>2
  <2>2. PICK a, c \in Instrs : a = <<"bread", x>> /\ c = <<"brelse", x>>
    BY IsInstr, LogAssumption
  <2>3. s = <<a, c>>
    BY <2>1, <2>2
  <2>4. s \in Seq(Instrs) /\ Len(s) = 2 /\ s # << >> /\ Head(s) = s[1] /\ s[1] = a /\ s[2] = c
    BY <2>3
  <2>5. /\ s[1][1] = "bread" /\ s[1][2] = x /\ s[2][1] = "brelse" /\ s[2][2] = x
        /\ Len(s) = 2 /\ s # << >>
    BY <2>2, <2>4
  <2>6. Balanced(s) /\ Ordered(s) /\ \A y \in Blocks : ~Open(s, 1, y)
    BY <2>4, <2>5, ReaderProgram
  <2>7. LastOp(s) = "brelse"
    BY <2>5 DEF LastOp
  <2>8. \A k \in 1 .. Len(s) : k = 1 \/ k = 2
    BY <2>5
  <2>9. ~HasOp(s, "read_head") /\ \A h : Matches(s, h)
    BY <2>5, <2>8 DEF HasOp, Matches, CopyMatches
  <2> QED
    BY <2>4, <2>5, <2>6, <2>7, <2>9
<1> QED
  BY <1>1, <1>2

-----------------------------------------------------------------------------
(* State *)

\* What the log's header, in memory or on disk, can list.
Headers == {s \in Seq(Homes) : /\ Len(s) <= Len(LogBlocks)
                               /\ \A k, n \in 1 .. Len(s) : s[k] = s[n] => k = n}

Contents == Values \cup Headers \cup {None}

BufRecords == [blockno : Blocks \cup {None}, refcnt : Int, valid : BOOLEAN,
               dirty : BOOLEAN, data : Contents, lock : Procs \cup {None}]

Typed ==
  /\ buf \in [Bufs -> BufRecords]
  /\ lru \in [Bufs -> Bufs]
  /\ idequeue \in Seq(Bufs)
  /\ disk \in [Blocks -> Contents] /\ disk[Header] \in Headers
  /\ code \in [Procs -> Seq(Instrs)]
  /\ outstanding \in Int /\ committing \in BOOLEAN /\ lh \in Headers
  /\ asleep \subseteq Procs /\ up \in BOOLEAN
  /\ \A i \in Bufs : buf[i].blockno = Header /\ buf[i].valid => buf[i].data \in Headers

\* Every program is one the log gives out, or the rest of one.
Programs == \A p \in Procs : Balanced(code[p]) /\ Ordered(code[p])

\* A copy under way is between a logged block and its place in the log.
CopiesMatch == \A p \in Procs : Matches(code[p], lh)

-----------------------------------------------------------------------------
(* Buffers *)

\* p has still to release block b.
Owes(p, b) == Open(code[p], 1, b)

\* p asks for the lock of buffer i, or waits for the disk with it.
Asks(p, i)   == At(p, "lock") /\ Arg(p) = i
Drops(p, i)  == At(p, "unref") /\ Arg(p) = i
Queues(p, i) == At(p, "iderw") /\ Arg(p) = i
Awaits(p, i) == At(p, "wait") /\ Arg(p) = i

Ready(i) == buf[i].valid /\ ~buf[i].dirty

\* No block is in two buffers.
UniqueBlocks == \A i, j \in Bufs :
  buf[i].blockno = buf[j].blockno /\ buf[i].blockno # None => i = j

Referenced == \A i \in Bufs : buf[i].refcnt = Cardinality({p \in Procs : Uses(p, i)})

\* What a process holds is what it has still to release.
OwedHeld == \A p \in Procs, b \in Blocks : Owes(p, b) =>
  \E i \in Bufs : buf[i].blockno = b /\ (buf[i].lock = p \/ Asks(p, i))
HeldOwed == \A p \in Procs, i \in Bufs : buf[i].lock = p \/ Asks(p, i) =>
  \E b \in Blocks : buf[i].blockno = b /\ Owes(p, b)

\* Who has a buffer's lock, and what about the buffer's data it may rely on.
Locked == \A p \in Procs, i \in Bufs :
  /\ Asks(p, i) \/ Drops(p, i) => buf[i].lock # p
  /\ Queues(p, i) => buf[i].lock = p /\ ~Ready(i)
  /\ Awaits(p, i) => buf[i].lock = p
  /\ buf[i].lock = p => buf[i].valid \/ Queues(p, i) \/ Awaits(p, i)
DirtyValid == \A i \in Bufs : buf[i].dirty => buf[i].valid /\ buf[i].blockno \in Blocks

\* The disk's queue holds exactly the requests somebody waits for, once each.
Queued ==
  /\ \A k, n \in 1 .. Len(idequeue) : idequeue[k] = idequeue[n] => k = n
  /\ \A k \in 1 .. Len(idequeue) : ~Ready(idequeue[k]) /\ \E p \in Procs : Awaits(p, idequeue[k])
  /\ \A p \in Procs, i \in Bufs : Awaits(p, i) /\ ~Ready(i) =>
       \E k \in 1 .. Len(idequeue) : idequeue[k] = i

Cache == UniqueBlocks /\ Referenced /\ OwedHeld /\ HeldOwed /\ Locked /\ DirtyValid /\ Queued

-----------------------------------------------------------------------------
(* Operations *)

\* p is between begin_op and end_op; p commits or recovers.
InOp(p) == LastOp(code[p]) = "end" /\ ~At(p, "begin")
Finishing(p) == LastOp(code[p]) \in {"done", "up"}
Has(p, o) == HasOp(code[p], o)

\* log.outstanding and log.committing count the programs; one process commits or recovers.
Counted ==
  /\ outstanding = Cardinality({p \in Procs : InOp(p)})
  /\ committing <=> \E p \in Procs : LastOp(code[p]) = "done"
  /\ committing => outstanding = 0
  /\ \A p, q \in Procs : Finishing(p) /\ Finishing(q) => p = q
  /\ up => \A p \in Procs : LastOp(code[p]) # "up"
  /\ ~up => /\ asleep = {} /\ outstanding = 0 /\ ~committing
            /\ \A p \in Procs : code[p] # << >> => LastOp(code[p]) = "up"

\* When the log is empty in memory: nobody has anything in it, or its blocks are installed.
Cleared ==
  /\ up /\ ~committing /\ outstanding = 0 => lh = << >>
  /\ \A p \in Procs : Finishing(p) /\ ~Has(p, "clear") => lh = << >>
  /\ \A p \in Procs : Has(p, "read_head") => lh = << >>

LInv == Typed /\ Programs /\ CopiesMatch /\ Cache /\ Counted /\ Cleared /\ SleepersJustified

-----------------------------------------------------------------------------
(* Steps of one process *)

\* A process whose program is left alone is where it was.
LEMMA Elsewhere ==
  ASSUME NEW q, code'[q] = code[q]
  PROVE  /\ \A o : At(q, o)' <=> At(q, o)
         /\ Arg(q)' = Arg(q)
         /\ \A b : Owes(q, b)' <=> Owes(q, b)
         /\ \A i : /\ Asks(q, i)' <=> Asks(q, i)
                   /\ Drops(q, i)' <=> Drops(q, i)
                   /\ Queues(q, i)' <=> Queues(q, i)
                   /\ Awaits(q, i)' <=> Awaits(q, i)
         /\ InOp(q)' <=> InOp(q)
         /\ Finishing(q)' <=> Finishing(q)
         /\ LastOp(code[q])' = LastOp(code[q])
         /\ \A o : Has(q, o)' <=> Has(q, o)
<1>1. (\A o : At(q, o)' <=> At(q, o)) /\ Arg(q)' = Arg(q)
  BY DEF At, Arg
<1>2. \A b : Owes(q, b)' <=> Owes(q, b)
  BY DEF Owes
<1>3. LastOp(code[q])' = LastOp(code[q])
  BY DEF LastOp
<1>4. (InOp(q)' <=> InOp(q)) /\ (Finishing(q)' <=> Finishing(q))
  BY <1>1, <1>3 DEF InOp, Finishing
<1>5. \A o : Has(q, o)' <=> Has(q, o)
  BY DEF Has
<1>6. \A i : /\ Asks(q, i)' <=> Asks(q, i)
             /\ Drops(q, i)' <=> Drops(q, i)
             /\ Queues(q, i)' <=> Queues(q, i)
             /\ Awaits(q, i)' <=> Awaits(q, i)
  BY <1>1 DEF Asks, Drops, Queues, Awaits
<1> QED
  BY <1>1, <1>2, <1>3, <1>4, <1>5, <1>6

\* The first instruction of a program.
LEMMA First ==
  ASSUME Typed, NEW p \in Procs
  PROVE  /\ code[p] \in Seq(Instrs) /\ Len(code[p]) \in Nat
         /\ code[p] # << >> => /\ Head(code[p]) = code[p][1] /\ 1 \in 1 .. Len(code[p])
                               /\ code[p][1] \in Instrs
<1>1. code[p] \in Seq(Instrs)
  BY DEF Typed
<1>2. Len(code[p]) \in Nat
  BY <1>1, LenProperties
<1>3. ASSUME code[p] # << >>
      PROVE  Head(code[p]) = code[p][1] /\ 1 \in 1 .. Len(code[p]) /\ code[p][1] \in Instrs
  <2>1. Len(code[p]) # 0
    BY <1>1, <1>3, EmptySeq
  <2>2. 1 \in 1 .. Len(code[p])
    BY <1>2, <2>1
  <2>3. Head(code[p]) = code[p][1]
    BY <1>1, <1>3, HeadTailProperties
  <2>4. code[p][1] \in Instrs
    BY <1>1, <2>2, ElementOfSeq
  <2> QED
    BY <2>2, <2>3, <2>4
<1> QED
  BY <1>1, <1>2, <1>3

\* Only p's program changes, and it becomes what Then says.
LEMMA Stepped ==
  ASSUME Typed, NEW p \in Procs, code[p] # << >>, NEW s \in Seq(Instrs), Then(p, s)
  PROVE  /\ code' \in [Procs -> Seq(Instrs)]
         /\ code'[p] = s \o Tail(code[p])
         /\ \A q \in Procs : q # p => code'[q] = code[q]
<1>1. code \in [Procs -> Seq(Instrs)] /\ code[p] \in Seq(Instrs)
  BY DEF Typed
<1>2. s \o Tail(code[p]) \in Seq(Instrs)
  BY <1>1, Prepend
<1>3. PICK d : d = s \o Tail(code[p])
  OBVIOUS
<1>4. code' = [code EXCEPT ![p] = d]
  BY <1>1, <1>3 DEF Then
<1> QED
  BY <1>1, <1>2, <1>3, <1>4

\* What a process owes, and what it will owe after its first instruction.
LEMMA OwesNext ==
  ASSUME Typed, Programs, NEW p \in Procs, code[p] # << >>, NEW b \in Blocks
  PROVE  /\ At(p, "bread") =>
              /\ ~Owes(p, Arg(p)) /\ (Arg(p) = b => Open(code[p], 2, b))
              /\ Arg(p) # b => (Open(code[p], 2, b) <=> Owes(p, b))
         /\ At(p, "brelse") =>
              /\ Owes(p, Arg(p)) /\ (Arg(p) = b => ~Open(code[p], 2, b))
              /\ Arg(p) # b => (Open(code[p], 2, b) <=> Owes(p, b))
         /\ ~At(p, "bread") /\ ~At(p, "brelse") => (Open(code[p], 2, b) <=> Owes(p, b))
         /\ code[p][1][1] \in Bare => ~Owes(p, b)
         /\ At(p, "log_write") /\ Arg(p) = b => Owes(p, b)
         /\ At(p, "copy") /\ (Arg(p) = b \/ code[p][1][3] = b) => Owes(p, b)
         /\ (At(p, "write_head") \/ At(p, "read_head")) /\ b = Header => Owes(p, b)
<1> DEFINE c == code[p]
<1>1. c \in Seq(Instrs) /\ 1 \in 1 .. Len(c) /\ Head(c) = c[1]
  BY First
<1>2. \A o : At(p, o) <=> c[1][1] = o
  BY <1>1 DEF At
<1>3. Arg(p) = c[1][2]
  BY <1>1 DEF Arg
<1>4. \A x : Owes(p, x) <=> Open(c, 1, x)
  BY DEF Owes
<1>5. Balanced(c)
  BY DEF Programs
<1> HIDE DEF c
<1>6. \A x : Open(c, 1, x) <=> \/ OpIs(c[1], "brelse", x)
                               \/ ~OpIs(c[1], "bread", x) /\ Open(c, 2, x)
  <2> TAKE x
  <2>1. Open(c, 1, x) <=> \/ OpIs(c[1], "brelse", x)
                          \/ ~OpIs(c[1], "bread", x) /\ Open(c, 1 + 1, x)
    BY <1>1, OpenHead
  <2> QED
    BY <2>1
<1>7. /\ Needs(c[1], b) => Open(c, 2, b)
      /\ OpIs(c[1], "brelse", b) \/ c[1][1] \in Bare => ~Open(c, 2, b)
  <2>1. /\ Needs(c[1], b) => Open(c, 1 + 1, b)
        /\ OpIs(c[1], "brelse", b) \/ c[1][1] \in Bare => ~Open(c, 1 + 1, b)
    BY <1>1, <1>5 DEF Balanced
  <2> QED
    BY <2>1
<1>8. ASSUME c[1][1] = "bread"
      PROVE  /\ ~Open(c, 1, c[1][2]) /\ (c[1][2] = b => Open(c, 2, b))
             /\ c[1][2] # b => (Open(c, 2, b) <=> Open(c, 1, b))
  BY <1>6, <1>7, <1>8 DEF OpIs, Needs
<1>9. ASSUME c[1][1] = "brelse"
      PROVE  /\ Open(c, 1, c[1][2]) /\ (c[1][2] = b => ~Open(c, 2, b))
             /\ c[1][2] # b => (Open(c, 2, b) <=> Open(c, 1, b))
  BY <1>6, <1>7, <1>9 DEF OpIs
<1>10. ASSUME c[1][1] # "bread", c[1][1] # "brelse"
       PROVE  Open(c, 2, b) <=> Open(c, 1, b)
  BY <1>6, <1>10 DEF OpIs
<1>11. ASSUME c[1][1] \in Bare PROVE ~Open(c, 1, b)
  <2>1. c[1][1] # "bread" /\ c[1][1] # "brelse"
    BY <1>11 DEF Bare
  <2> QED
    BY <1>7, <1>10, <1>11, <2>1
<1>12. ASSUME c[1][1] = "log_write", c[1][2] = b PROVE Open(c, 1, b)
  BY <1>7, <1>10, <1>12 DEF Needs
<1>13. ASSUME c[1][1] = "copy", c[1][2] = b \/ c[1][3] = b PROVE Open(c, 1, b)
  BY <1>7, <1>10, <1>13 DEF Needs
<1>14. ASSUME c[1][1] \in {"write_head", "read_head"}, b = Header PROVE Open(c, 1, b)
  BY <1>7, <1>10, <1>14 DEF Needs
<1>15. c = code[p]
  BY DEF c
<1> QED
  BY <1>2, <1>3, <1>4, <1>8, <1>9, <1>10, <1>11, <1>12, <1>13, <1>14, <1>15

\* A process has done its first instruction, or goes on with one of the buffer cache.
LEMMA PlainStep ==
  ASSUME Typed, Programs, NEW p \in Procs, code[p] # << >>, NEW s,
         s = << >> \/ \E o \in Low, i \in Bufs : s = <<<<o, i>>>>, Then(p, s)
  PROVE  /\ code' \in [Procs -> Seq(Instrs)] /\ Programs'
         /\ \A q \in Procs : q # p => code'[q] = code[q]
         /\ \A b : Owes(p, b)' <=> Open(code[p], 2, b)
         /\ s = << >> => \A o \in Low \cup {"begin"} : ~At(p, o)'
         /\ \A o \in Low : \A i : s = <<<<o, i>>>> => (\A x : At(p, x)' <=> x = o) /\ Arg(p)' = i
         /\ Len(code[p]) # 1 => LastOp(code'[p]) = LastOp(code[p])
         /\ Len(code[p]) = 1 => LastOp(code'[p]) \notin {"end", "done", "up"}
         /\ \A h : Matches(code[p], h) => Matches(code'[p], h)
         /\ \A o : o \notin Low =>
              (HasOp(code'[p], o) <=> \E k \in 2 .. Len(code[p]) : code[p][k][1] = o)
<1>1. PICK c : c = code[p]
  OBVIOUS
<1>2. /\ c \in Seq(Instrs) /\ c # << >> /\ Balanced(c) /\ Ordered(c)
  BY <1>1, First DEF Programs
<1>3. PICK d : d = s \o Tail(c)
  OBVIOUS
<1>4. /\ s \in Seq(Instrs) /\ d \in Seq(Instrs) /\ Balanced(d) /\ Ordered(d)
      /\ \A b : Open(d, 1, b) <=> Open(c, 2, b)
  BY <1>2, <1>3, PlainBehind
<1>5. /\ code' \in [Procs -> Seq(Instrs)] /\ code'[p] = d
      /\ \A q \in Procs : q # p => code'[q] = code[q]
  BY <1>1, <1>3, <1>4, Stepped
<1>6. Programs'
  <2>1. ASSUME NEW q \in Procs PROVE Balanced(code'[q]) /\ Ordered(code'[q])
    <3>1. CASE q = p
      BY <1>4, <1>5, <3>1
    <3>2. CASE q # p
      BY <1>5, <3>2 DEF Programs
    <3> QED
      BY <3>1, <3>2
  <2> QED
    BY <2>1 DEF Programs
<1>7. \A b : Owes(p, b)' <=> Open(c, 2, b)
  BY <1>4, <1>5 DEF Owes
<1>8. /\ Len(c) \in Nat \ {0} /\ Len(s) \in Nat /\ Len(d) = Len(s) + Len(c) - 1
      /\ \A k \in 1 .. Len(s) : d[k] = s[k]
      /\ \A k \in 2 .. Len(c) : d[k + Len(s) - 1] = c[k]
  BY <1>2, <1>3, <1>4, Prepend
<1>9. ASSUME s = << >>, NEW o \in Low \cup {"begin"} PROVE ~At(p, o)'
  <2>1. SUFFICES ASSUME d # << >>, Head(d)[1] = o PROVE FALSE
    BY <1>5 DEF At
  <2>2. Head(d) = d[1] /\ Len(d) \in Nat /\ Len(d) # 0
    BY <1>4, <2>1, HeadTailProperties, EmptySeq, LenProperties
  <2>3. Len(s) = 0
    BY <1>9
  <2>4. 2 \in 2 .. Len(c) /\ 2 + Len(s) - 1 = 1 /\ 2 \in 1 .. Len(c)
    <3> HIDE <1>9
    <3> QED
      BY <1>8, <2>2, <2>3
  <2>5. d[1] = c[2]
    <3>1. d[2 + Len(s) - 1] = c[2]
      BY <1>8, <2>4
    <3> QED
      BY <2>4, <3>1
  <2>6. OrderedAt(c, 2)
    BY <1>2, <2>4 DEF Ordered
  <2> QED
    BY <2>1, <2>2, <2>5, <2>6 DEF OrderedAt
<1>10. ASSUME NEW o \in Low, NEW i, s = <<<<o, i>>>>
       PROVE  (\A x : At(p, x)' <=> x = o) /\ Arg(p)' = i
  <2>1. Len(s) = 1 /\ s[1] = <<o, i>>
    BY <1>10
  <2>2. d[1] = <<o, i>> /\ Len(d) # 0
    <3>1. 1 \in 1 .. Len(s)
      BY <2>1
    <3>2. Len(d) = Len(c)
      BY <1>8, <2>1
    <3> QED
      BY <1>8, <2>1, <3>1, <3>2
  <2>3. d # << >>
    BY <1>4, <2>2, EmptySeq
  <2>4. Head(d) = <<o, i>>
    BY <1>4, <2>2, <2>3, HeadTailProperties
  <2> QED
    BY <1>5, <2>3, <2>4 DEF At, Arg
<1>11. /\ Len(c) # 1 => LastOp(d) = LastOp(c)
       /\ Len(c) = 1 => d = s
  BY <1>2, <1>3, <1>4, LastBehind
<1>12. LastOp(s) \notin {"end", "done", "up"}
  <2>1. CASE s = << >>
    BY <2>1 DEF LastOp
  <2>2. ASSUME NEW o \in Low, NEW i \in Bufs, s = <<<<o, i>>>> PROVE LastOp(s) = o
    <3>1. Len(s) = 1 /\ s[1][1] = o
      BY <2>2
    <3>2. s # << >>
      <4>1. s \in Seq(Instrs) /\ Len(s) # 0
        BY <1>4, <3>1
      <4> QED
        BY <4>1, EmptySeq
    <3> QED
      BY <3>1, <3>2 DEF LastOp
  <2>3. \A o \in Low : o \notin {"end", "done", "up"}
    BY DEF Low
  <2> QED
    BY <2>1, <2>2, <2>3
<1>13. ASSUME NEW h, Matches(c, h) PROVE Matches(d, h)
  <2>1. ASSUME NEW k \in 1 .. Len(s) PROVE CopyMatches(d, k, h)
    <3>1. d[k] = s[k]
      BY <1>8
    <3>2. s[k][1] # "copy"
      <4>1. CASE s = << >>
        <5>1. Len(s) = 0
          BY <4>1
        <5> QED
          BY <5>1
      <4>2. ASSUME NEW o \in Low, NEW i \in Bufs, s = <<<<o, i>>>> PROVE s[k][1] # "copy"
        <5>1. Len(s) = 1 /\ s[1][1] = o
          BY <4>2
        <5>2. k = 1
          BY <5>1
        <5> QED
          BY <5>1, <5>2 DEF Low
      <4> QED
        BY <4>1, <4>2
    <3> QED
      BY <3>1, <3>2 DEF CopyMatches
  <2>2. s \in Seq(Instrs)
    BY <1>4
  <2> QED
    BY <1>2, <1>3, <1>13, <2>1, <2>2, MatchesBehind
<1>14. ASSUME NEW o, o \notin Low
       PROVE  HasOp(d, o) <=> \E k \in 2 .. Len(c) : c[k][1] = o
  <2>1. ~HasOp(s, o)
    <3>1. CASE s = << >>
      <4>1. Len(s) = 0
        BY <3>1
      <4> QED
        BY <4>1 DEF HasOp
    <3>2. ASSUME NEW x \in Low, NEW i \in Bufs, s = <<<<x, i>>>> PROVE ~HasOp(s, o)
      <4>1. Len(s) = 1 /\ s[1][1] = x
        BY <3>2
      <4>2. \A k \in 1 .. Len(s) : k = 1
        BY <4>1
      <4> QED
        BY <1>14, <4>1, <4>2 DEF HasOp
    <3> QED
      BY <3>1, <3>2
  <2>2. s \in Seq(Instrs)
    BY <1>4
  <2> QED
    BY <1>2, <1>3, <2>1, <2>2, HasBehind
<1> QED
  BY <1>1, <1>5, <1>6, <1>7, <1>9, <1>10, <1>11, <1>12, <1>13, <1>14

(* The buffer cache *)

\* The reference count of a buffer follows the one process that starts or ends to use it.
LEMMA RefChange ==
  ASSUME Referenced, NEW p \in Procs, NEW i \in Bufs,
         \A q \in Procs : q # p => (Uses(q, i)' <=> Uses(q, i)),
         \/ (Uses(p, i)' <=> Uses(p, i)) /\ buf'[i].refcnt = buf[i].refcnt
         \/ ~Uses(p, i) /\ Uses(p, i)' /\ buf'[i].refcnt = buf[i].refcnt + 1
         \/ Uses(p, i) /\ ~Uses(p, i)' /\ buf'[i].refcnt = buf[i].refcnt - 1
  PROVE  buf'[i].refcnt = Cardinality({q \in Procs : Uses(q, i)'})
<1> DEFINE S == {q \in Procs : Uses(q, i)}
           T == {q \in Procs : Uses(q, i)'}
<1>1. buf[i].refcnt = Cardinality(S)
  BY DEF Referenced
<1>2. IsFiniteSet(S) /\ IsFiniteSet(T)
  <2>1. IsFiniteSet(Procs) /\ S \subseteq Procs /\ T \subseteq Procs
    BY LogAssumption
  <2> QED
    BY <2>1, FS_Subset
<1>3. CASE (Uses(p, i)' <=> Uses(p, i)) /\ buf'[i].refcnt = buf[i].refcnt
  <2>1. S = T
    BY <1>3
  <2> QED
    BY <1>1, <1>3, <2>1
<1>4. CASE ~Uses(p, i) /\ Uses(p, i)' /\ buf'[i].refcnt = buf[i].refcnt + 1
  <2>1. T = S \cup {p} /\ p \notin S
    BY <1>4
  <2>2. Cardinality(T) = Cardinality(S) + 1
    BY <1>2, <2>1, FS_AddElement
  <2> QED
    BY <1>1, <1>4, <2>2
<1>5. CASE Uses(p, i) /\ ~Uses(p, i)' /\ buf'[i].refcnt = buf[i].refcnt - 1
  <2>1. T = S \ {p} /\ p \in S
    BY <1>5
  <2>2. Cardinality(T) = Cardinality(S) - 1
    BY <1>2, <2>1, FS_RemoveElement
  <2> QED
    BY <1>1, <1>5, <2>2
<1> QED
  BY <1>3, <1>4, <1>5

\* The disk's queue stays what it is for.
LEMMA QueuedKept ==
  ASSUME Typed, Queued, idequeue' = idequeue,
         \A q \in Procs, j \in Bufs : Awaits(q, j)' <=> Awaits(q, j),
         \A q \in Procs, j \in Bufs : Awaits(q, j) => (Ready(j)' <=> Ready(j))
  PROVE  Queued'
<1>1. \A k \in 1 .. Len(idequeue) : idequeue[k] \in Bufs
  BY ElementOfSeq DEF Typed
<1>2. \A k, n \in 1 .. Len(idequeue) : idequeue[k] = idequeue[n] => k = n
  BY DEF Queued
<1>3. ASSUME NEW k \in 1 .. Len(idequeue)
      PROVE  ~Ready(idequeue[k])' /\ \E p \in Procs : Awaits(p, idequeue[k])'
  <2>1. ~Ready(idequeue[k]) /\ \E p \in Procs : Awaits(p, idequeue[k])
    BY DEF Queued
  <2>2. PICK j \in Bufs : j = idequeue[k] /\ j = idequeue'[k]
    BY <1>1
  <2>3. ~Ready(j) /\ \E p \in Procs : Awaits(p, j)
    BY <2>1, <2>2
  <2>4. ~Ready(j)' /\ \E p \in Procs : Awaits(p, j)'
    BY <2>3
  <2> QED
    BY <2>2, <2>4 DEF Ready, Awaits
<1>4. ASSUME NEW p \in Procs, NEW i \in Bufs, Awaits(p, i)', ~Ready(i)'
      PROVE  \E k \in 1 .. Len(idequeue) : idequeue[k] = i
  BY <1>4 DEF Queued
<1> QED
  BY <1>2, <1>3, <1>4 DEF Queued

\* A step that leaves the buffers alone, and what each process does and owes.
LEMMA CacheSame ==
  ASSUME Typed, Cache, NEW p \in Procs, buf' = buf, idequeue' = idequeue,
         \A q \in Procs : q # p => code'[q] = code[q],
         \A b \in Blocks : Owes(p, b)' <=> Owes(p, b),
         \A o \in Low : ~At(p, o) /\ ~At(p, o)'
  PROVE  Cache'
<1>1. \A q \in Procs, b \in Blocks : Owes(q, b)' <=> Owes(q, b)
  BY Elsewhere
<1>2. \A q \in Procs, i \in Bufs : /\ Asks(q, i)' <=> Asks(q, i)
                                   /\ Drops(q, i)' <=> Drops(q, i)
                                   /\ Queues(q, i)' <=> Queues(q, i)
                                   /\ Awaits(q, i)' <=> Awaits(q, i)
  <2> TAKE q \in Procs, i \in Bufs
  <2>1. CASE q = p
    BY <2>1 DEF Asks, Drops, Queues, Awaits, Low
  <2>2. CASE q # p
    BY <2>2, Elsewhere
  <2> QED
    BY <2>1, <2>2
<1>3. \A i \in Bufs : Ready(i)' <=> Ready(i)
  BY DEF Ready
<1>4. Referenced'
  <2>1. ASSUME NEW i \in Bufs PROVE buf'[i].refcnt = Cardinality({q \in Procs : Uses(q, i)'})
    <3>1. \A q \in Procs : Uses(q, i)' <=> Uses(q, i)
      BY <1>2 DEF Uses, Asks, Drops
    <3>2. Referenced
      BY DEF Cache
    <3> QED
      BY <3>1, <3>2, RefChange
  <2> QED
    BY <2>1 DEF Referenced
<1>5. UniqueBlocks' /\ DirtyValid'
  BY DEF Cache, UniqueBlocks, DirtyValid
<1>6. OwedHeld' /\ HeldOwed'
  BY <1>1, <1>2 DEF Cache, OwedHeld, HeldOwed
<1>7. Locked'
  BY <1>2, <1>3 DEF Cache, Locked
<1>8. Queued'
  BY <1>2, <1>3, QueuedKept DEF Cache
<1> QED
  BY <1>4, <1>5, <1>6, <1>7, <1>8 DEF Cache

\* The fields of a buffer.
LEMMA BufType ==
  ASSUME Typed, NEW i \in Bufs
  PROVE  /\ buf[i].blockno \in Blocks \cup {None} /\ buf[i].refcnt \in Int
         /\ buf[i].valid \in BOOLEAN /\ buf[i].dirty \in BOOLEAN
         /\ buf[i].data \in Contents /\ buf[i].lock \in Procs \cup {None}
         /\ DOMAIN buf = Bufs
BY DEF Typed, BufRecords

\* The operands of the instructions that name blocks or buffers.
LEMMA ArgType ==
  ASSUME Typed, NEW p \in Procs
  PROVE  /\ At(p, "bread") \/ At(p, "brelse") => Arg(p) \in Blocks
         /\ \A o \in Low : At(p, o) => Arg(p) \in Bufs
         /\ At(p, "log_write") => Arg(p) \in Homes /\ Head(code[p])[3] \in Values
         /\ At(p, "body") => Arg(p) \in Seq(Homes) /\ Head(code[p])[3] \in Values
         /\ At(p, "write_log") \/ At(p, "install_trans") => Arg(p) \in Nat \ {0}
         /\ At(p, "copy") => Arg(p) \in Blocks \ {Header} /\ Head(code[p])[3] \in Blocks \ {Header}
<1>1. CASE code[p] = << >>
  BY <1>1 DEF At
<1>2. CASE code[p] # << >>
  <2>1. PICK x \in Instrs : x = Head(code[p])
    BY <1>2, First
  <2>2. /\ x[1] \in {"bread", "brelse"} => x[2] \in Blocks
        /\ x[1] \in Low => x[2] \in Bufs
        /\ x[1] = "log_write" => x[2] \in Homes /\ x[3] \in Values
        /\ x[1] = "body" => x[2] \in Seq(Homes) /\ x[3] \in Values
        /\ x[1] \in {"write_log", "install_trans"} => x[2] \in Nat \ {0}
        /\ x[1] = "copy" => x[2] \in Blocks \ {Header} /\ x[3] \in Blocks \ {Header}
    BY DEF Instrs, Low
  <2> QED
    BY <2>1, <2>2 DEF At, Arg
<1> QED
  BY <1>1, <1>2

\* bget finds the block in the cache and takes a reference.
LEMMA BgetHitCache ==
  ASSUME Typed, Programs, Cache, NEW p \in Procs, BgetHit(p)
  PROVE  Cache' /\ Programs' /\ code' \in [Procs -> Seq(Instrs)]
<1>1. PICK x \in Blocks : At(p, "bread") /\ x = Arg(p)
  BY ArgType DEF BgetHit
<1>2. PICK i \in Bufs : /\ buf[i].blockno = x /\ Then(p, <<<<"lock", i>>>>)
                        /\ buf' = [buf EXCEPT ![i].refcnt = @ + 1]
  BY <1>1 DEF BgetHit, Cached
<1>3. code[p] # << >> /\ idequeue' = idequeue
  BY <1>1 DEF At, BgetHit
<1>4. \A j \in Bufs :
        /\ j # i => buf'[j] = buf[j]
        /\ buf'[j].blockno = buf[j].blockno /\ buf'[j].valid = buf[j].valid
        /\ buf'[j].dirty = buf[j].dirty /\ buf'[j].lock = buf[j].lock
        /\ buf'[i].refcnt = buf[i].refcnt + 1
  BY <1>2, BufType DEF Typed
<1>5. "lock" \in Low
  BY DEF Low
<1>6. /\ code' \in [Procs -> Seq(Instrs)] /\ Programs'
      /\ \A q \in Procs : q # p => code'[q] = code[q]
      /\ \A b : Owes(p, b)' <=> Open(code[p], 2, b)
      /\ \A o : At(p, o)' <=> o = "lock"
      /\ Arg(p)' = i
  BY <1>2, <1>3, <1>5, PlainStep
<1>7. /\ Owes(p, x)' /\ ~Owes(p, x)
      /\ \A b \in Blocks : b # x => (Owes(p, b)' <=> Owes(p, b))
  BY <1>1, <1>3, <1>6, OwesNext
<1>8. \A q \in Procs : q # p =>
        /\ \A b \in Blocks : Owes(q, b)' <=> Owes(q, b)
        /\ \A j \in Bufs : /\ Asks(q, j)' <=> Asks(q, j)
                           /\ Drops(q, j)' <=> Drops(q, j)
                           /\ Queues(q, j)' <=> Queues(q, j)
                           /\ Awaits(q, j)' <=> Awaits(q, j)
  BY <1>6, Elsewhere
<1>9. \A j \in Bufs : /\ ~Asks(p, j) /\ ~Drops(p, j) /\ ~Queues(p, j) /\ ~Awaits(p, j)
                      /\ ~Drops(p, j)' /\ ~Queues(p, j)' /\ ~Awaits(p, j)'
                      /\ Asks(p, j)' <=> j = i
  BY <1>1, <1>6 DEF Asks, Drops, Queues, Awaits, At
<1>10. buf[i].lock # p
  BY <1>2, <1>7 DEF Cache, HeldOwed
<1>11. UniqueBlocks' /\ DirtyValid'
  BY <1>4 DEF Cache, UniqueBlocks, DirtyValid
<1>12. OwedHeld'
  BY <1>2, <1>4, <1>7, <1>8, <1>9 DEF Cache, OwedHeld
<1>13. HeldOwed'
  BY <1>2, <1>4, <1>7, <1>8, <1>9 DEF Cache, HeldOwed
<1>14. Locked'
  BY <1>4, <1>8, <1>9, <1>10 DEF Cache, Locked, Ready
<1>15. Queued'
  <2>1. \A j \in Bufs : Ready(j)' <=> Ready(j)
    BY <1>4 DEF Ready
  <2>2. \A q \in Procs, j \in Bufs : Awaits(q, j)' <=> Awaits(q, j)
    BY <1>8, <1>9
  <2> QED
    BY <1>3, <2>1, <2>2, QueuedKept DEF Cache
<1>16. Referenced'
  <2>1. ASSUME NEW j \in Bufs PROVE buf'[j].refcnt = Cardinality({q \in Procs : Uses(q, j)'})
    <3>1. \A q \in Procs : q # p => (Uses(q, j)' <=> Uses(q, j))
      BY <1>4, <1>8 DEF Uses, Asks, Drops
    <3>2. j # i => (Uses(p, j)' <=> Uses(p, j)) /\ buf'[j].refcnt = buf[j].refcnt
      BY <1>4, <1>9 DEF Uses, Asks, Drops
    <3>3. j = i => ~Uses(p, j) /\ Uses(p, j)' /\ buf'[j].refcnt = buf[j].refcnt + 1
      BY <1>4, <1>9, <1>10 DEF Uses, Asks, Drops
    <3>4. Referenced
      BY DEF Cache
    <3> QED
      BY <3>1, <3>2, <3>3, <3>4, RefChange
  <2> QED
    BY <2>1 DEF Referenced
<1> QED
  BY <1>6, <1>11, <1>12, <1>13, <1>14, <1>15, <1>16 DEF Cache

\* The process that owes a block has its buffer locked, once it does not ask for it.
LEMMA HeldIs ==
  ASSUME Cache, NEW p \in Procs, NEW b \in Blocks, Owes(p, b), \A i \in Bufs : ~Asks(p, i)
  PROVE  /\ Held(p, b) \in Bufs
         /\ buf[Held(p, b)].blockno = b
         /\ buf[Held(p, b)].lock = p
<1>1. \E i \in Bufs : buf[i].blockno = b /\ buf[i].lock = p
  BY DEF Cache, OwedHeld
<1> QED
  BY <1>1 DEF Held

\* A buffer without references has no users.
LEMMA Unused ==
  ASSUME Cache, NEW i \in Bufs, buf[i].refcnt = 0, NEW q \in Procs
  PROVE  ~Uses(q, i) /\ buf[i].lock # q /\ ~Asks(q, i) /\ ~Drops(q, i)
<1> DEFINE S == {p \in Procs : Uses(p, i)}
<1>1. IsFiniteSet(Procs) /\ S \subseteq Procs
  BY LogAssumption
<1>2. IsFiniteSet(S)
  BY <1>1, FS_Subset
<1>3. Cardinality(S) = 0
  BY DEF Cache, Referenced
<1>4. S = {}
  BY <1>2, <1>3, FS_EmptySet
<1>5. ~Uses(q, i)
  BY <1>4
<1> QED
  BY <1>5 DEF Uses, Asks, Drops

\* bget gives a free buffer to the block.
LEMMA BgetRecycleCache ==
  ASSUME Typed, Programs, Cache, NEW p \in Procs, BgetRecycle(p)
  PROVE  Cache' /\ Programs' /\ code' \in [Procs -> Seq(Instrs)]
<1>1. PICK x \in Blocks : At(p, "bread") /\ x = Arg(p) /\ \A j \in Bufs : buf[j].blockno # x
  BY ArgType DEF BgetRecycle, Cached
<1>2. PICK i \in Bufs : /\ buf[i].refcnt = 0 /\ Then(p, <<<<"lock", i>>>>)
                        /\ buf' = [buf EXCEPT ![i].blockno = x, ![i].valid = FALSE,
                                              ![i].dirty = FALSE, ![i].refcnt = 1]
  <2>1. PICK k \in Bufs :
          /\ buf[lru[k]].refcnt = 0 /\ Then(p, <<<<"lock", lru[k]>>>>)
          /\ buf' = [buf EXCEPT ![lru[k]].blockno = x, ![lru[k]].valid = FALSE,
                                ![lru[k]].dirty = FALSE, ![lru[k]].refcnt = 1]
    BY <1>1 DEF BgetRecycle, Recyclable
  <2>2. PICK i \in Bufs : i = lru[k]
    BY DEF Typed
  <2> QED
    BY <2>1, <2>2
<1>3. code[p] # << >> /\ idequeue' = idequeue
  BY <1>1 DEF At, BgetRecycle
<1>4. /\ \A j \in Bufs : j # i => buf'[j] = buf[j]
      /\ \A j \in Bufs : buf'[j].lock = buf[j].lock
      /\ buf'[i].blockno = x /\ ~buf'[i].valid /\ ~buf'[i].dirty /\ buf'[i].refcnt = 1
  BY <1>2, BufType DEF Typed
<1>5. "lock" \in Low
  BY DEF Low
<1>6. /\ code' \in [Procs -> Seq(Instrs)] /\ Programs'
      /\ \A q \in Procs : q # p => code'[q] = code[q]
      /\ \A b : Owes(p, b)' <=> Open(code[p], 2, b)
      /\ \A o : At(p, o)' <=> o = "lock"
      /\ Arg(p)' = i
  BY <1>2, <1>3, <1>5, PlainStep
<1>7. /\ Owes(p, x)' /\ ~Owes(p, x)
      /\ \A b \in Blocks : b # x => (Owes(p, b)' <=> Owes(p, b))
  BY <1>1, <1>3, <1>6, OwesNext
<1>8. \A q \in Procs : q # p =>
        /\ \A b \in Blocks : Owes(q, b)' <=> Owes(q, b)
        /\ \A j \in Bufs : /\ Asks(q, j)' <=> Asks(q, j)
                           /\ Drops(q, j)' <=> Drops(q, j)
                           /\ Queues(q, j)' <=> Queues(q, j)
                           /\ Awaits(q, j)' <=> Awaits(q, j)
  BY <1>6, Elsewhere
<1>9. \A j \in Bufs : /\ ~Asks(p, j) /\ ~Drops(p, j) /\ ~Queues(p, j) /\ ~Awaits(p, j)
                      /\ ~Drops(p, j)' /\ ~Queues(p, j)' /\ ~Awaits(p, j)'
                      /\ Asks(p, j)' <=> j = i
  BY <1>1, <1>6 DEF Asks, Drops, Queues, Awaits, At
<1>10. \A q \in Procs : buf[i].lock # q /\ ~Asks(q, i) /\ ~Drops(q, i) /\ ~Uses(q, i)
  BY <1>2, Unused
<1>11. UniqueBlocks' /\ DirtyValid'
  BY <1>1, <1>4 DEF Cache, UniqueBlocks, DirtyValid
<1>12. OwedHeld'
  <2>1. ASSUME NEW q \in Procs, NEW b \in Blocks, Owes(q, b)'
        PROVE  \E j \in Bufs : buf'[j].blockno = b /\ (buf'[j].lock = q \/ Asks(q, j)')
    <3>1. CASE q = p /\ b = x
      BY <3>1, <1>4, <1>9
    <3>2. CASE ~(q = p /\ b = x)
      <4>1. Owes(q, b)
        BY <2>1, <3>2, <1>7, <1>8
      <4>2. PICK j \in Bufs : buf[j].blockno = b /\ (buf[j].lock = q \/ Asks(q, j))
        BY <4>1 DEF Cache, OwedHeld
      <4>3. j # i
        BY <4>2, <1>10
      <4> QED
        BY <4>2, <4>3, <1>4, <1>8, <1>9
    <3> QED
      BY <3>1, <3>2
  <2> QED
    BY <2>1 DEF OwedHeld
<1>13. HeldOwed'
  <2>1. ASSUME NEW q \in Procs, NEW j \in Bufs, buf'[j].lock = q \/ Asks(q, j)'
        PROVE  \E b \in Blocks : buf'[j].blockno = b /\ Owes(q, b)'
    <3>1. CASE j = i
      BY <2>1, <3>1, <1>4, <1>7, <1>8, <1>9, <1>10
    <3>2. CASE j # i
      <4>1. PICK b \in Blocks : buf[j].blockno = b /\ Owes(q, b)
        BY <2>1, <3>2, <1>4, <1>8, <1>9 DEF Cache, HeldOwed
      <4>2. b # x
        BY <4>1, <1>1
      <4> QED
        BY <4>1, <4>2, <3>2, <1>4, <1>7, <1>8
    <3> QED
      BY <3>1, <3>2
  <2> QED
    BY <2>1 DEF HeldOwed
<1>14. Locked'
  BY <1>4, <1>8, <1>9, <1>10 DEF Cache, Locked, Ready
<1>15. Queued'
  <2>1. \A q \in Procs, j \in Bufs : Awaits(q, j)' <=> Awaits(q, j)
    BY <1>8, <1>9
  <2>2. \A q \in Procs, j \in Bufs : Awaits(q, j) => (Ready(j)' <=> Ready(j))
    BY <1>4, <1>10 DEF Ready, Cache, Locked
  <2> QED
    BY <1>3, <2>1, <2>2, QueuedKept DEF Cache
<1>16. Referenced'
  <2>1. ASSUME NEW j \in Bufs PROVE buf'[j].refcnt = Cardinality({q \in Procs : Uses(q, j)'})
    <3>1. \A q \in Procs : q # p => (Uses(q, j)' <=> Uses(q, j))
      BY <1>4, <1>8 DEF Uses, Asks, Drops
    <3>2. j # i => (Uses(p, j)' <=> Uses(p, j)) /\ buf'[j].refcnt = buf[j].refcnt
      BY <1>4, <1>9 DEF Uses, Asks, Drops
    <3>3. j = i => ~Uses(p, j) /\ Uses(p, j)' /\ buf'[j].refcnt = buf[j].refcnt + 1
      BY <1>2, <1>4, <1>9, <1>10 DEF Uses, Asks, Drops
    <3>4. Referenced
      BY DEF Cache
    <3> QED
      BY <3>1, <3>2, <3>3, <3>4, RefChange
  <2> QED
    BY <2>1 DEF Referenced
<1> QED
  BY <1>6, <1>11, <1>12, <1>13, <1>14, <1>15, <1>16 DEF Cache

\* A process locks the buffer it has a reference to.
LEMMA AcquireCache ==
  ASSUME Typed, Programs, Cache, NEW p \in Procs, acquiresleep(p)
  PROVE  Cache' /\ Programs' /\ code' \in [Procs -> Seq(Instrs)]
<1>0. "lock" \in Low /\ "iderw" \in Low
  BY DEF Low
<1>1. PICK i \in Bufs : At(p, "lock") /\ i = Arg(p) /\ buf[i].lock = None
                        /\ buf' = [buf EXCEPT ![i].lock = p]
  BY <1>0, ArgType DEF acquiresleep
<1>2. PICK s : /\ s = IF buf[i].valid THEN << >> ELSE <<<<"iderw", i>>>>
               /\ Then(p, s)
  BY <1>1 DEF acquiresleep
<1>3. code[p] # << >> /\ idequeue' = idequeue
  BY <1>1 DEF At, acquiresleep
<1>4. /\ \A j \in Bufs : /\ j # i => buf'[j] = buf[j]
                         /\ buf'[j].blockno = buf[j].blockno /\ buf'[j].valid = buf[j].valid
                         /\ buf'[j].dirty = buf[j].dirty /\ buf'[j].refcnt = buf[j].refcnt
      /\ buf'[i].lock = p
  BY <1>1, BufType DEF Typed
<1>5. s = << >> \/ \E o \in Low, j \in Bufs : s = <<<<o, j>>>>
  BY <1>0, <1>2
<1>6. /\ code' \in [Procs -> Seq(Instrs)] /\ Programs'
      /\ \A q \in Procs : q # p => code'[q] = code[q]
      /\ \A b : Owes(p, b)' <=> Open(code[p], 2, b)
      /\ s = << >> => \A o \in Low : ~At(p, o)'
      /\ s = <<<<"iderw", i>>>> => (\A o : At(p, o)' <=> o = "iderw") /\ Arg(p)' = i
  BY <1>0, <1>2, <1>3, <1>5, PlainStep
<1>7. \A b \in Blocks : Owes(p, b)' <=> Owes(p, b)
  <2>1. ~At(p, "bread") /\ ~At(p, "brelse")
    BY <1>1 DEF At
  <2> QED
    BY <1>3, <1>6, <2>1, OwesNext
<1>8. \A q \in Procs : q # p =>
        /\ \A b \in Blocks : Owes(q, b)' <=> Owes(q, b)
        /\ \A j \in Bufs : /\ Asks(q, j)' <=> Asks(q, j)
                           /\ Drops(q, j)' <=> Drops(q, j)
                           /\ Queues(q, j)' <=> Queues(q, j)
                           /\ Awaits(q, j)' <=> Awaits(q, j)
  BY <1>6, Elsewhere
<1>9. \A j \in Bufs : /\ ~Drops(p, j) /\ ~Queues(p, j) /\ ~Awaits(p, j)
                      /\ Asks(p, j) <=> j = i
                      /\ ~Drops(p, j)' /\ ~Asks(p, j)' /\ ~Awaits(p, j)'
                      /\ Queues(p, j)' <=> j = i /\ ~buf[i].valid
  <2>1. \A j \in Bufs : /\ ~Drops(p, j) /\ ~Queues(p, j) /\ ~Awaits(p, j)
                        /\ Asks(p, j) <=> j = i
    BY <1>1 DEF Asks, Drops, Queues, Awaits, At
  <2>2. CASE buf[i].valid
    <3>1. \A o \in Low : ~At(p, o)'
      BY <2>2, <1>2, <1>6
    <3> QED
      BY <2>1, <2>2, <3>1 DEF Asks, Drops, Queues, Awaits, Low
  <2>3. CASE ~buf[i].valid
    <3>1. (\A o : At(p, o)' <=> o = "iderw") /\ Arg(p)' = i
      BY <2>3, <1>2, <1>6
    <3> QED
      BY <2>1, <2>3, <3>1 DEF Asks, Drops, Queues, Awaits
  <2> QED
    BY <2>2, <2>3
<1>10. \A q \in Procs : buf[i].lock # q
  BY <1>1, LogAssumption
<1>11. UniqueBlocks' /\ DirtyValid'
  BY <1>4 DEF Cache, UniqueBlocks, DirtyValid
<1>12. OwedHeld'
  BY <1>1, <1>4, <1>7, <1>8, <1>9, <1>10 DEF Cache, OwedHeld
<1>13. HeldOwed'
  BY <1>1, <1>4, <1>7, <1>8, <1>9, <1>10 DEF Cache, HeldOwed
<1>14. Locked'
  BY <1>4, <1>8, <1>9, <1>10 DEF Cache, Locked, Ready
<1>15. Queued'
  <2>1. \A q \in Procs, j \in Bufs : Awaits(q, j)' <=> Awaits(q, j)
    BY <1>8, <1>9
  <2>2. \A q \in Procs, j \in Bufs : Awaits(q, j) => (Ready(j)' <=> Ready(j))
    BY <1>1, <1>4, <1>9, <1>10 DEF Ready, Cache, Locked
  <2> QED
    BY <1>3, <2>1, <2>2, QueuedKept DEF Cache
<1>16. Referenced'
  <2>1. ASSUME NEW j \in Bufs PROVE buf'[j].refcnt = Cardinality({q \in Procs : Uses(q, j)'})
    <3>1. \A q \in Procs : q # p => (Uses(q, j)' <=> Uses(q, j))
      BY <1>4, <1>8, <1>10 DEF Uses, Asks, Drops
    <3>2. (Uses(p, j)' <=> Uses(p, j)) /\ buf'[j].refcnt = buf[j].refcnt
      BY <1>1, <1>4, <1>9, <1>10 DEF Uses, Asks, Drops
    <3>4. Referenced
      BY DEF Cache
    <3> QED
      BY <3>1, <3>2, <3>4, RefChange
  <2> QED
    BY <2>1 DEF Referenced
<1> QED
  BY <1>6, <1>11, <1>12, <1>13, <1>14, <1>15, <1>16 DEF Cache

\* A locked buffer with something to do goes to the disk.
LEMMA IderwQueueCache ==
  ASSUME Typed, Programs, Cache, NEW p \in Procs, IderwQueue(p)
  PROVE  Cache' /\ Programs' /\ code' \in [Procs -> Seq(Instrs)]
<1>0. "wait" \in Low /\ "iderw" \in Low
  BY DEF Low
<1>1. PICK i \in Bufs : At(p, "iderw") /\ i = Arg(p) /\ idequeue' = Append(idequeue, i)
                        /\ Then(p, <<<<"wait", i>>>>)
  BY <1>0, ArgType DEF IderwQueue
<1>3. code[p] # << >>
  BY <1>1 DEF At
<1>4. buf' = buf
  BY DEF IderwQueue
<1>6. /\ code' \in [Procs -> Seq(Instrs)] /\ Programs'
      /\ \A q \in Procs : q # p => code'[q] = code[q]
      /\ \A b : Owes(p, b)' <=> Open(code[p], 2, b)
      /\ \A o : At(p, o)' <=> o = "wait"
      /\ Arg(p)' = i
  BY <1>0, <1>1, <1>3, PlainStep
<1>7. \A b \in Blocks : Owes(p, b)' <=> Owes(p, b)
  <2>1. ~At(p, "bread") /\ ~At(p, "brelse")
    BY <1>1 DEF At
  <2> QED
    BY <1>3, <1>6, <2>1, OwesNext
<1>8. \A q \in Procs : q # p =>
        /\ \A b \in Blocks : Owes(q, b)' <=> Owes(q, b)
        /\ \A j \in Bufs : /\ Asks(q, j)' <=> Asks(q, j)
                           /\ Drops(q, j)' <=> Drops(q, j)
                           /\ Queues(q, j)' <=> Queues(q, j)
                           /\ Awaits(q, j)' <=> Awaits(q, j)
  BY <1>6, Elsewhere
<1>9. \A j \in Bufs : /\ ~Drops(p, j) /\ ~Asks(p, j) /\ ~Awaits(p, j)
                      /\ Queues(p, j) <=> j = i
                      /\ ~Drops(p, j)' /\ ~Asks(p, j)' /\ ~Queues(p, j)'
                      /\ Awaits(p, j)' <=> j = i
  BY <1>1, <1>6 DEF Asks, Drops, Queues, Awaits, At
<1>10. buf[i].lock = p /\ ~Ready(i) /\ \A q \in Procs : ~Awaits(q, i)
  BY <1>9 DEF Cache, Locked
<1>11. UniqueBlocks' /\ DirtyValid'
  BY <1>4 DEF Cache, UniqueBlocks, DirtyValid
<1>12. OwedHeld'
  BY <1>1, <1>4, <1>7, <1>8, <1>9, <1>10 DEF Cache, OwedHeld
<1>13. HeldOwed'
  BY <1>1, <1>4, <1>7, <1>8, <1>9, <1>10 DEF Cache, HeldOwed
<1>14. Locked'
  BY <1>4, <1>8, <1>9, <1>10 DEF Cache, Locked, Ready
<1>15. Queued'
  <2>1. PICK n \in Nat : n = Len(idequeue)
    BY LenProperties DEF Typed
  <2>2. /\ Len(idequeue') = n + 1 /\ idequeue'[n + 1] = i
        /\ \A k \in 1 .. n : idequeue'[k] = idequeue[k] /\ idequeue[k] \in Bufs
    BY <1>1, <2>1, ElementOfSeq, AppendProperties DEF Typed
  <2>3. \A k \in 1 .. n : idequeue[k] # i
    BY <1>10, <2>1 DEF Cache, Queued
  <2>4. ASSUME NEW k \in 1 .. n + 1, NEW m \in 1 .. n + 1, idequeue'[k] = idequeue'[m]
        PROVE  k = m
    <3>1. (k \in 1 .. n \/ k = n + 1) /\ (m \in 1 .. n \/ m = n + 1)
      OBVIOUS
    <3>2. \A a, b \in 1 .. n : idequeue[a] = idequeue[b] => a = b
      BY <2>1 DEF Cache, Queued
    <3> QED
      BY <2>2, <2>3, <2>4, <3>1, <3>2
  <2>5. ASSUME NEW k \in 1 .. n + 1
        PROVE  \E j \in Bufs : j = idequeue'[k] /\ ~Ready(j)' /\ \E q \in Procs : Awaits(q, j)'
    <3>1. CASE k = n + 1
      BY <2>2, <3>1, <1>4, <1>9, <1>10 DEF Ready
    <3>2. CASE k # n + 1
      <4>1. k \in 1 .. n
        BY <3>2
      <4>2. PICK j \in Bufs : j = idequeue[k] /\ j = idequeue'[k]
        BY <2>2, <4>1
      <4>3. ~Ready(j) /\ \E q \in Procs : Awaits(q, j)
        BY ZenonT(60), <2>1, <4>1, <4>2 DEF Cache, Queued
      <4>4. ~Ready(j)' /\ \E q \in Procs : Awaits(q, j)'
        BY <4>3, <1>4, <1>8, <1>9 DEF Ready
      <4> QED
        BY <4>2, <4>4
    <3> QED
      BY <3>1, <3>2
  <2>6. ASSUME NEW q \in Procs, NEW j \in Bufs, Awaits(q, j)', ~Ready(j)'
        PROVE  \E k \in 1 .. n + 1 : idequeue'[k] = j
    <3>1. CASE j = i
      BY <3>1, <2>2
    <3>2. CASE j # i
      <4>1. Awaits(q, j) /\ ~Ready(j)
        BY <2>6, <3>2, <1>4, <1>8, <1>9 DEF Ready
      <4>2. PICK k \in 1 .. n : idequeue[k] = j
        BY <4>1, <2>1 DEF Cache, Queued
      <4>3. k \in 1 .. n + 1
        OBVIOUS
      <4> QED
        BY <4>2, <4>3, <2>2
    <3> QED
      BY <3>1, <3>2
  <2>7. \A k \in 1 .. Len(idequeue') : ~Ready(idequeue[k])' /\ \E q \in Procs : Awaits(q, idequeue[k])'
    <3> TAKE k \in 1 .. Len(idequeue')
    <3>1. PICK j \in Bufs : j = idequeue'[k] /\ ~Ready(j)' /\ \E q \in Procs : Awaits(q, j)'
      BY <2>2, <2>5
    <3> QED
      BY <3>1 DEF Ready, Awaits
  <2> QED
    BY <2>2, <2>4, <2>6, <2>7 DEF Queued
<1>16. Referenced'
  <2>1. ASSUME NEW j \in Bufs PROVE buf'[j].refcnt = Cardinality({q \in Procs : Uses(q, j)'})
    <3>1. \A q \in Procs : q # p => (Uses(q, j)' <=> Uses(q, j))
      BY <1>4, <1>8, <1>10 DEF Uses, Asks, Drops
    <3>2. (Uses(p, j)' <=> Uses(p, j)) /\ buf'[j].refcnt = buf[j].refcnt
      BY <1>1, <1>4, <1>9, <1>10 DEF Uses, Asks, Drops
    <3>4. Referenced
      BY DEF Cache
    <3> QED
      BY <3>1, <3>2, <3>4, RefChange
  <2> QED
    BY <2>1 DEF Referenced
<1> QED
  BY <1>6, <1>11, <1>12, <1>13, <1>14, <1>15, <1>16 DEF Cache

\* The process that waits for the disk goes on.
LEMMA IderwDoneCache ==
  ASSUME Typed, Programs, Cache, NEW p \in Procs, IderwDone(p)
  PROVE  Cache' /\ Programs' /\ code' \in [Procs -> Seq(Instrs)]
<1>0. "wait" \in Low
  BY DEF Low
<1>1. PICK i \in Bufs : At(p, "wait") /\ i = Arg(p) /\ Ready(i) /\ Then(p, << >>)
  BY <1>0, ArgType DEF IderwDone, Ready
<1>3. code[p] # << >> /\ idequeue' = idequeue
  BY <1>1 DEF At, IderwDone
<1>4. buf' = buf
  BY DEF IderwDone
<1>5. PICK s : s = << >>
  OBVIOUS
<1>6. /\ code' \in [Procs -> Seq(Instrs)] /\ Programs'
      /\ \A q \in Procs : q # p => code'[q] = code[q]
      /\ \A b : Owes(p, b)' <=> Open(code[p], 2, b)
      /\ \A o \in Low : ~At(p, o)'
  BY <1>1, <1>3, <1>5, PlainStep
<1>7. \A b \in Blocks : Owes(p, b)' <=> Owes(p, b)
  <2>1. ~At(p, "bread") /\ ~At(p, "brelse")
    BY <1>1 DEF At
  <2> QED
    BY <1>3, <1>6, <2>1, OwesNext
<1>8. \A q \in Procs : q # p =>
        /\ \A b \in Blocks : Owes(q, b)' <=> Owes(q, b)
        /\ \A j \in Bufs : /\ Asks(q, j)' <=> Asks(q, j)
                           /\ Drops(q, j)' <=> Drops(q, j)
                           /\ Queues(q, j)' <=> Queues(q, j)
                           /\ Awaits(q, j)' <=> Awaits(q, j)
  BY <1>6, Elsewhere
<1>9. \A j \in Bufs : /\ ~Drops(p, j) /\ ~Asks(p, j) /\ ~Queues(p, j)
                      /\ Awaits(p, j) <=> j = i
                      /\ ~Drops(p, j)' /\ ~Asks(p, j)' /\ ~Queues(p, j)' /\ ~Awaits(p, j)'
  BY <1>1, <1>6 DEF Asks, Drops, Queues, Awaits, At, Low
<1>10. buf[i].valid
  BY <1>1 DEF Ready
<1>11. UniqueBlocks' /\ DirtyValid'
  BY <1>4 DEF Cache, UniqueBlocks, DirtyValid
<1>12. OwedHeld'
  BY <1>1, <1>4, <1>7, <1>8, <1>9, <1>10 DEF Cache, OwedHeld
<1>13. HeldOwed'
  BY <1>1, <1>4, <1>7, <1>8, <1>9, <1>10 DEF Cache, HeldOwed
<1>14. Locked'
  BY <1>4, <1>8, <1>9, <1>10 DEF Cache, Locked, Ready
<1>15. Queued'
  <2>1. \A k \in 1 .. Len(idequeue) : idequeue[k] \in Bufs
    BY ElementOfSeq DEF Typed
  <2>2. ASSUME NEW k \in 1 .. Len(idequeue)
        PROVE  ~Ready(idequeue[k])' /\ \E q \in Procs : Awaits(q, idequeue[k])'
    <3>1. PICK j \in Bufs : j = idequeue[k] /\ j = idequeue'[k]
      BY <2>1, <1>3
    <3>2. ~Ready(j) /\ \E q \in Procs : Awaits(q, j)
      BY <3>1 DEF Cache, Queued
    <3>3. ~Ready(j)' /\ \E q \in Procs : Awaits(q, j)'
      BY <3>2, <1>1, <1>4, <1>8, <1>9 DEF Ready
    <3> QED
      BY <3>1, <3>3 DEF Ready, Awaits
  <2>3. ASSUME NEW q \in Procs, NEW j \in Bufs, Awaits(q, j)', ~Ready(j)'
        PROVE  \E k \in 1 .. Len(idequeue) : idequeue[k] = j
    <3>1. Awaits(q, j) /\ ~Ready(j)
      BY <2>3, <1>4, <1>8, <1>9 DEF Ready
    <3> QED
      BY <3>1 DEF Cache, Queued
  <2>4. \A k, n \in 1 .. Len(idequeue) : idequeue[k] = idequeue[n] => k = n
    BY DEF Cache, Queued
  <2> QED
    BY <2>2, <2>3, <2>4, <1>3 DEF Queued
<1>16. Referenced'
  <2>1. ASSUME NEW j \in Bufs PROVE buf'[j].refcnt = Cardinality({q \in Procs : Uses(q, j)'})
    <3>1. \A q \in Procs : q # p => (Uses(q, j)' <=> Uses(q, j))
      BY <1>4, <1>8, <1>10 DEF Uses, Asks, Drops
    <3>2. (Uses(p, j)' <=> Uses(p, j)) /\ buf'[j].refcnt = buf[j].refcnt
      BY <1>1, <1>4, <1>9, <1>10 DEF Uses, Asks, Drops
    <3>4. Referenced
      BY DEF Cache
    <3> QED
      BY <3>1, <3>2, <3>4, RefChange
  <2> QED
    BY <2>1 DEF Referenced
<1> QED
  BY <1>6, <1>11, <1>12, <1>13, <1>14, <1>15, <1>16 DEF Cache

\* brelse unlocks the buffer, and the reference is still there.
LEMMA ReleaseCache ==
  ASSUME Typed, Programs, Cache, NEW p \in Procs, releasesleep(p)
  PROVE  Cache' /\ Programs' /\ code' \in [Procs -> Seq(Instrs)]
<1>0. "unref" \in Low
  BY DEF Low
<1>1. PICK x \in Blocks : At(p, "brelse") /\ x = Arg(p)
  BY ArgType DEF releasesleep
<1>2. PICK i \in Bufs : /\ i = Held(p, x) /\ buf[i].blockno = x /\ buf[i].lock = p
  <2>1. Owes(p, x)
    BY <1>1, OwesNext DEF At
  <2>2. \A j \in Bufs : ~Asks(p, j)
    BY <1>1 DEF Asks, At
  <2> QED
    BY <2>1, <2>2, HeldIs
<1>3. code[p] # << >> /\ idequeue' = idequeue /\ Then(p, <<<<"unref", i>>>>)
      /\ buf' = [buf EXCEPT ![i].lock = None]
  BY <1>1, <1>2 DEF At, releasesleep
<1>4. /\ \A j \in Bufs : /\ j # i => buf'[j] = buf[j]
                         /\ buf'[j].blockno = buf[j].blockno /\ buf'[j].valid = buf[j].valid
                         /\ buf'[j].dirty = buf[j].dirty /\ buf'[j].refcnt = buf[j].refcnt
      /\ buf'[i].lock = None
  BY <1>3, BufType DEF Typed
<1>6. /\ code' \in [Procs -> Seq(Instrs)] /\ Programs'
      /\ \A q \in Procs : q # p => code'[q] = code[q]
      /\ \A b : Owes(p, b)' <=> Open(code[p], 2, b)
      /\ \A o : At(p, o)' <=> o = "unref"
      /\ Arg(p)' = i
  BY <1>0, <1>3, PlainStep
<1>7. /\ ~Owes(p, x)' /\ Owes(p, x)
      /\ \A b \in Blocks : b # x => (Owes(p, b)' <=> Owes(p, b))
  BY <1>1, <1>3, <1>6, OwesNext
<1>8. \A q \in Procs : q # p =>
        /\ \A b \in Blocks : Owes(q, b)' <=> Owes(q, b)
        /\ \A j \in Bufs : /\ Asks(q, j)' <=> Asks(q, j)
                           /\ Drops(q, j)' <=> Drops(q, j)
                           /\ Queues(q, j)' <=> Queues(q, j)
                           /\ Awaits(q, j)' <=> Awaits(q, j)
  BY <1>6, Elsewhere
<1>9. \A j \in Bufs : /\ ~Asks(p, j) /\ ~Drops(p, j) /\ ~Queues(p, j) /\ ~Awaits(p, j)
                      /\ ~Asks(p, j)' /\ ~Queues(p, j)' /\ ~Awaits(p, j)'
                      /\ Drops(p, j)' <=> j = i
  BY <1>1, <1>6 DEF Asks, Drops, Queues, Awaits, At
<1>10. /\ None \notin Procs /\ None \notin Blocks /\ buf[i].lock = p /\ buf[i].blockno = x
       /\ \A j \in Bufs : buf[j].blockno = x => j = i
  BY <1>2, LogAssumption DEF Cache, UniqueBlocks
<1>11. UniqueBlocks' /\ DirtyValid'
  BY <1>4 DEF Cache, UniqueBlocks, DirtyValid
<1>12. OwedHeld'
  BY <1>1, <1>4, <1>7, <1>8, <1>9, <1>10 DEF Cache, OwedHeld
<1>13. HeldOwed'
  BY <1>1, <1>4, <1>7, <1>8, <1>9, <1>10 DEF Cache, HeldOwed
<1>14. Locked'
  BY <1>4, <1>8, <1>9, <1>10 DEF Cache, Locked, Ready
<1>15. Queued'
  <2>1. \A q \in Procs, j \in Bufs : Awaits(q, j)' <=> Awaits(q, j)
    BY <1>8, <1>9
  <2>2. \A q \in Procs, j \in Bufs : Awaits(q, j) => (Ready(j)' <=> Ready(j))
    BY <1>1, <1>4, <1>9, <1>10 DEF Ready, Cache, Locked
  <2> QED
    BY <1>3, <2>1, <2>2, QueuedKept DEF Cache
<1>16. Referenced'
  <2>1. ASSUME NEW j \in Bufs PROVE buf'[j].refcnt = Cardinality({q \in Procs : Uses(q, j)'})
    <3>1. \A q \in Procs : q # p => (Uses(q, j)' <=> Uses(q, j))
      BY <1>4, <1>8, <1>10 DEF Uses, Asks, Drops
    <3>2. (Uses(p, j)' <=> Uses(p, j)) /\ buf'[j].refcnt = buf[j].refcnt
      BY <1>1, <1>4, <1>9, <1>10 DEF Uses, Asks, Drops
    <3>4. Referenced
      BY DEF Cache
    <3> QED
      BY <3>1, <3>2, <3>4, RefChange
  <2> QED
    BY <2>1 DEF Referenced
<1> QED
  BY <1>6, <1>11, <1>12, <1>13, <1>14, <1>15, <1>16 DEF Cache

\* brelse gives the reference back.
LEMMA UnrefCache ==
  ASSUME Typed, Programs, Cache, NEW p \in Procs, BrelseUnref(p)
  PROVE  Cache' /\ Programs' /\ code' \in [Procs -> Seq(Instrs)]
<1>0. "unref" \in Low
  BY DEF Low
<1>1. PICK i \in Bufs : At(p, "unref") /\ i = Arg(p) /\ Then(p, << >>)
                        /\ buf' = [buf EXCEPT ![i].refcnt = buf[i].refcnt - 1]
  BY <1>0, ArgType DEF BrelseUnref, Unref
<1>3. code[p] # << >> /\ idequeue' = idequeue
  BY <1>1 DEF At, BrelseUnref
<1>4. /\ \A j \in Bufs : /\ j # i => buf'[j] = buf[j]
                         /\ buf'[j].blockno = buf[j].blockno /\ buf'[j].valid = buf[j].valid
                         /\ buf'[j].dirty = buf[j].dirty /\ buf'[j].lock = buf[j].lock
      /\ buf'[i].refcnt = buf[i].refcnt - 1
  BY <1>1, BufType DEF Typed
<1>5. PICK s : s = << >>
  OBVIOUS
<1>6. /\ code' \in [Procs -> Seq(Instrs)] /\ Programs'
      /\ \A q \in Procs : q # p => code'[q] = code[q]
      /\ \A b : Owes(p, b)' <=> Open(code[p], 2, b)
      /\ \A o \in Low : ~At(p, o)'
  BY <1>1, <1>3, <1>5, PlainStep
<1>7. \A b \in Blocks : Owes(p, b)' <=> Owes(p, b)
  <2>1. ~At(p, "bread") /\ ~At(p, "brelse")
    BY <1>1 DEF At
  <2> QED
    BY <1>3, <1>6, <2>1, OwesNext
<1>8. \A q \in Procs : q # p =>
        /\ \A b \in Blocks : Owes(q, b)' <=> Owes(q, b)
        /\ \A j \in Bufs : /\ Asks(q, j)' <=> Asks(q, j)
                           /\ Drops(q, j)' <=> Drops(q, j)
                           /\ Queues(q, j)' <=> Queues(q, j)
                           /\ Awaits(q, j)' <=> Awaits(q, j)
  BY <1>6, Elsewhere
<1>9. \A j \in Bufs : /\ ~Asks(p, j) /\ ~Queues(p, j) /\ ~Awaits(p, j)
                      /\ Drops(p, j) <=> j = i
                      /\ ~Drops(p, j)' /\ ~Asks(p, j)' /\ ~Queues(p, j)' /\ ~Awaits(p, j)'
  BY <1>1, <1>6 DEF Asks, Drops, Queues, Awaits, At, Low
<1>10. buf[i].lock # p
  BY <1>9 DEF Cache, Locked
<1>11. UniqueBlocks' /\ DirtyValid'
  BY <1>4 DEF Cache, UniqueBlocks, DirtyValid
<1>12. OwedHeld'
  BY <1>1, <1>4, <1>7, <1>8, <1>9, <1>10 DEF Cache, OwedHeld
<1>13. HeldOwed'
  BY <1>1, <1>4, <1>7, <1>8, <1>9, <1>10 DEF Cache, HeldOwed
<1>14. Locked'
  BY <1>4, <1>8, <1>9, <1>10 DEF Cache, Locked, Ready
<1>15. Queued'
  <2>1. \A q \in Procs, j \in Bufs : Awaits(q, j)' <=> Awaits(q, j)
    BY <1>8, <1>9
  <2>2. \A q \in Procs, j \in Bufs : Awaits(q, j) => (Ready(j)' <=> Ready(j))
    BY <1>1, <1>4, <1>9, <1>10 DEF Ready, Cache, Locked
  <2> QED
    BY <1>3, <2>1, <2>2, QueuedKept DEF Cache
<1>16. Referenced'
  <2>1. ASSUME NEW j \in Bufs PROVE buf'[j].refcnt = Cardinality({q \in Procs : Uses(q, j)'})
    <3>1. \A q \in Procs : q # p => (Uses(q, j)' <=> Uses(q, j))
      BY <1>4, <1>8, <1>10 DEF Uses, Asks, Drops
    <3>2. \/ (Uses(p, j)' <=> Uses(p, j)) /\ buf'[j].refcnt = buf[j].refcnt
          \/ Uses(p, j) /\ ~Uses(p, j)' /\ buf'[j].refcnt = buf[j].refcnt - 1
      BY <1>4, <1>9, <1>10 DEF Uses, Asks, Drops
    <3>4. Referenced
      BY DEF Cache
    <3> QED
      BY <3>1, <3>2, <3>4, RefChange
  <2> QED
    BY <2>1 DEF Referenced
<1> QED
  BY <1>6, <1>11, <1>12, <1>13, <1>14, <1>15, <1>16 DEF Cache

\* Buffer i gets new data, which the disk does not have yet.
StoreIn(i, data) == buf' = [buf EXCEPT ![i].data = data, ![i].dirty = TRUE]

\* A process changes the data of a buffer it holds, and then writes it, or not yet.
LEMMA StoreCache ==
  ASSUME Typed, Programs, Cache, NEW p \in Procs, code[p] # << >>,
         code[p][1][1] \in {"log_write", "copy", "write_head"}, NEW x \in Blocks,
         NEW i \in Bufs, buf[i].blockno = x, buf[i].lock = p, NEW data, StoreIn(i, data),
         NEW s, s = << >> \/ s = <<<<"iderw", i>>>>, Then(p, s), idequeue' = idequeue
  PROVE  Cache' /\ Programs' /\ code' \in [Procs -> Seq(Instrs)]
<1>0. "iderw" \in Low
  BY DEF Low
<1>1. Head(code[p]) = code[p][1] /\ \A o \in Low \cup {"bread", "brelse"} : ~At(p, o)
  BY First DEF At, Low
<1>3. idequeue' = idequeue
  OBVIOUS
<1>4. /\ \A j \in Bufs : /\ j # i => buf'[j] = buf[j]
                         /\ buf'[j].blockno = buf[j].blockno /\ buf'[j].valid = buf[j].valid
                         /\ buf'[j].lock = buf[j].lock /\ buf'[j].refcnt = buf[j].refcnt
      /\ buf'[i].dirty
  BY BufType DEF Typed, StoreIn
<1>5. s = << >> \/ \E o \in Low, j \in Bufs : s = <<<<o, j>>>>
  BY <1>0
<1>6. /\ code' \in [Procs -> Seq(Instrs)] /\ Programs'
      /\ \A q \in Procs : q # p => code'[q] = code[q]
      /\ \A b : Owes(p, b)' <=> Open(code[p], 2, b)
      /\ s = << >> => \A o \in Low : ~At(p, o)'
      /\ s = <<<<"iderw", i>>>> => (\A o : At(p, o)' <=> o = "iderw") /\ Arg(p)' = i
  BY <1>0, <1>5, PlainStep
<1>7. \A b \in Blocks : Owes(p, b)' <=> Owes(p, b)
  BY <1>1, <1>6, OwesNext
<1>8. \A q \in Procs : q # p =>
        /\ \A b \in Blocks : Owes(q, b)' <=> Owes(q, b)
        /\ \A j \in Bufs : /\ Asks(q, j)' <=> Asks(q, j)
                           /\ Drops(q, j)' <=> Drops(q, j)
                           /\ Queues(q, j)' <=> Queues(q, j)
                           /\ Awaits(q, j)' <=> Awaits(q, j)
  BY <1>6, Elsewhere
<1>9. \A j \in Bufs : /\ ~Asks(p, j) /\ ~Drops(p, j) /\ ~Queues(p, j) /\ ~Awaits(p, j)
                      /\ ~Asks(p, j)' /\ ~Drops(p, j)' /\ ~Awaits(p, j)'
                      /\ Queues(p, j)' => j = i
  <2>1. \A j \in Bufs : ~Asks(p, j) /\ ~Drops(p, j) /\ ~Queues(p, j) /\ ~Awaits(p, j)
    BY <1>1 DEF Asks, Drops, Queues, Awaits, Low
  <2>2. CASE s = << >>
    BY <2>1, <2>2, <1>6 DEF Asks, Drops, Queues, Awaits, Low
  <2>3. CASE s = <<<<"iderw", i>>>>
    BY <2>1, <2>3, <1>6 DEF Asks, Drops, Queues, Awaits
  <2> QED
    BY <2>2, <2>3
<1>10. buf[i].valid /\ buf[i].lock = p /\ buf[i].blockno = x
  BY <1>9 DEF Cache, Locked
<1>11. UniqueBlocks' /\ DirtyValid'
  BY <1>4, <1>10 DEF Cache, UniqueBlocks, DirtyValid
<1>12. OwedHeld'
  BY <1>1, <1>4, <1>7, <1>8, <1>9, <1>10 DEF Cache, OwedHeld
<1>13. HeldOwed'
  BY <1>1, <1>4, <1>7, <1>8, <1>9, <1>10 DEF Cache, HeldOwed
<1>14. Locked'
  BY <1>4, <1>8, <1>9, <1>10 DEF Cache, Locked, Ready
<1>15. Queued'
  <2>1. \A q \in Procs, j \in Bufs : Awaits(q, j)' <=> Awaits(q, j)
    BY <1>8, <1>9
  <2>2. \A q \in Procs, j \in Bufs : Awaits(q, j) => (Ready(j)' <=> Ready(j))
    BY <1>4, <1>9, <1>10 DEF Ready, Cache, Locked
  <2> QED
    BY <1>3, <2>1, <2>2, QueuedKept DEF Cache
<1>16. Referenced'
  <2>1. ASSUME NEW j \in Bufs PROVE buf'[j].refcnt = Cardinality({q \in Procs : Uses(q, j)'})
    <3>1. \A q \in Procs : q # p => (Uses(q, j)' <=> Uses(q, j))
      BY <1>4, <1>8, <1>10 DEF Uses, Asks, Drops
    <3>2. (Uses(p, j)' <=> Uses(p, j)) /\ buf'[j].refcnt = buf[j].refcnt
      BY <1>4, <1>9, <1>10 DEF Uses, Asks, Drops
    <3>4. Referenced
      BY DEF Cache
    <3> QED
      BY <3>1, <3>2, <3>4, RefChange
  <2> QED
    BY <2>1 DEF Referenced
<1> QED
  BY <1>6, <1>11, <1>12, <1>13, <1>14, <1>15, <1>16 DEF Cache

\* The disk serves the first buffer of its queue.
LEMMA IdeintrCache ==
  ASSUME Typed, Cache, ideintr
  PROVE  Cache'
<1>1. PICK n \in Nat : n = Len(idequeue) /\ n # 0
  BY LenProperties, EmptySeq DEF Typed, ideintr
<1>2. /\ idequeue' \in Seq(Bufs) /\ Len(idequeue') = n - 1
      /\ \A k \in 1 .. n - 1 : idequeue'[k] = idequeue[k + 1]
      /\ Head(idequeue) = idequeue[1]
  BY <1>1, HeadTailProperties DEF Typed, ideintr
<1>3. \A k \in 1 .. n : idequeue[k] \in Bufs
  BY <1>1, ElementOfSeq DEF Typed
<1>4. 1 \in 1 .. n /\ \A k \in 1 .. n - 1 : k + 1 \in 1 .. n /\ k + 1 # 1
  BY <1>1
<1>5. PICK i \in Bufs : i = idequeue[1] /\ i = Head(idequeue)
  BY <1>2, <1>3, <1>4
<1>6. code' = code
  BY DEF ideintr
<1>7. PICK data : buf' = [buf EXCEPT ![i].data = data, ![i].valid = TRUE, ![i].dirty = FALSE]
  BY <1>5 DEF ideintr
<1>8. /\ \A j \in Bufs : /\ j # i => buf'[j] = buf[j]
                         /\ buf'[j].blockno = buf[j].blockno /\ buf'[j].lock = buf[j].lock
                         /\ buf'[j].refcnt = buf[j].refcnt
      /\ buf'[i].valid /\ ~buf'[i].dirty
  BY <1>7, BufType DEF Typed
<1>9. \A q \in Procs : /\ \A b \in Blocks : Owes(q, b)' <=> Owes(q, b)
                       /\ \A j \in Bufs : /\ Asks(q, j)' <=> Asks(q, j)
                                          /\ Drops(q, j)' <=> Drops(q, j)
                                          /\ Queues(q, j)' <=> Queues(q, j)
                                          /\ Awaits(q, j)' <=> Awaits(q, j)
  BY <1>6, Elsewhere
<1>10. PICK p \in Procs : Awaits(p, i)
  BY <1>1, <1>4, <1>5 DEF Cache, Queued
<1>11. \A q \in Procs : ~Queues(q, i)
  <2>1. ASSUME NEW q \in Procs, Queues(q, i) PROVE FALSE
    <3>1. q = p
      BY <1>10, <2>1 DEF Cache, Locked
    <3> QED
      BY <1>10, <2>1, <3>1 DEF Queues, Awaits, At
  <2> QED
    BY <2>1
<1>12. UniqueBlocks' /\ DirtyValid'
  BY <1>8 DEF Cache, UniqueBlocks, DirtyValid
<1>13. OwedHeld'
  BY <1>8, <1>9 DEF Cache, OwedHeld
<1>14. HeldOwed'
  BY <1>8, <1>9 DEF Cache, HeldOwed
<1>15. Locked'
  BY <1>8, <1>9, <1>11 DEF Cache, Locked, Ready
<1>16. Queued'
  <2>1. \A k, m \in 1 .. n : idequeue[k] = idequeue[m] => k = m
    BY <1>1 DEF Cache, Queued
  <2>2. ASSUME NEW k \in 1 .. n - 1, NEW m \in 1 .. n - 1, idequeue'[k] = idequeue'[m]
        PROVE  k = m
    <3>1. k + 1 = m + 1
      BY <1>2, <1>4, <2>1, <2>2
    <3> QED
      BY <3>1
  <2>3. ASSUME NEW k \in 1 .. n - 1
        PROVE  ~Ready(idequeue[k])' /\ \E q \in Procs : Awaits(q, idequeue[k])'
    <3>1. PICK j \in Bufs : j = idequeue[k + 1] /\ j = idequeue'[k]
      BY <1>2, <1>3, <1>4
    <3>2. j # i
      BY <1>4, <1>5, <2>1, <3>1
    <3>3. ~Ready(j) /\ \E q \in Procs : Awaits(q, j)
      <4>1. k + 1 \in 1 .. Len(idequeue)
        BY <1>1, <1>4
      <4>2. ~Ready(idequeue[k + 1]) /\ \E q \in Procs : Awaits(q, idequeue[k + 1])
        BY <4>1 DEF Cache, Queued
      <4> QED
        BY <3>1, <4>2
    <3>4. ~Ready(j)' /\ \E q \in Procs : Awaits(q, j)'
      BY <3>2, <3>3, <1>8, <1>9 DEF Ready
    <3> QED
      BY <3>1, <3>4 DEF Ready, Awaits
  <2>4. ASSUME NEW q \in Procs, NEW j \in Bufs, Awaits(q, j)', ~Ready(j)'
        PROVE  \E k \in 1 .. n - 1 : idequeue'[k] = j
    <3>1. j # i
      BY <2>4, <1>8 DEF Ready
    <3>2. Awaits(q, j) /\ ~Ready(j)
      BY <2>4, <3>1, <1>8, <1>9 DEF Ready
    <3>3. PICK k \in 1 .. n : idequeue[k] = j
      BY <3>2, <1>1 DEF Cache, Queued
    <3>4. k - 1 \in 1 .. n - 1 /\ (k - 1) + 1 = k
      BY <3>1, <3>3, <1>5
    <3> QED
      BY <3>3, <3>4, <1>2
  <2> QED
    BY <1>2, <2>2, <2>3, <2>4 DEF Queued
<1>17. Referenced'
  <2>1. ASSUME NEW j \in Bufs PROVE buf'[j].refcnt = Cardinality({q \in Procs : Uses(q, j)'})
    <3>1. \A q \in Procs : Uses(q, j)' <=> Uses(q, j)
      BY <1>8, <1>9 DEF Uses, Asks, Drops
    <3>2. Referenced /\ buf'[j].refcnt = buf[j].refcnt
      BY <1>8 DEF Cache
    <3> QED
      BY <3>1, <3>2, <1>10, RefChange
  <2> QED
    BY <2>1 DEF Referenced
<1> QED
  BY <1>12, <1>13, <1>14, <1>15, <1>16, <1>17 DEF Cache

(* The log *)

\* p's step leaves it in the same operation, commit or recovery.
Calm(p) ==
  /\ code' \in [Procs -> Seq(Instrs)] /\ Programs' /\ code[p] # << >>
  /\ \A q \in Procs : q # p => code'[q] = code[q]
  /\ \A o \in {"end", "done", "up"} : LastOp(code'[p]) = o <=> LastOp(code[p]) = o
  /\ ~At(p, "begin") /\ ~At(p, "begin")'
  /\ \A o \in {"clear", "read_head"} : HasOp(code'[p], o) <=> HasOp(code[p], o)
  /\ Matches(code'[p], lh)

\* An instruction that is neither the start nor the end of something is calm.
LEMMA CalmPlain ==
  ASSUME Typed, Programs, CopiesMatch, NEW p \in Procs, code[p] # << >>,
         code[p][1][1] \notin {"begin", "end", "done", "up", "clear", "read_head"}, NEW s,
         s = << >> \/ \E o \in Low, i \in Bufs : s = <<<<o, i>>>>, Then(p, s)
  PROVE  Calm(p)
<1>1. /\ code' \in [Procs -> Seq(Instrs)] /\ Programs'
      /\ \A q \in Procs : q # p => code'[q] = code[q]
      /\ s = << >> => \A o \in Low \cup {"begin"} : ~At(p, o)'
      /\ \A o \in Low : \A i : s = <<<<o, i>>>> => (\A x : At(p, x)' <=> x = o) /\ Arg(p)' = i
      /\ Len(code[p]) # 1 => LastOp(code'[p]) = LastOp(code[p])
      /\ Len(code[p]) = 1 => LastOp(code'[p]) \notin {"end", "done", "up"}
      /\ \A h : Matches(code[p], h) => Matches(code'[p], h)
      /\ \A o : o \notin Low =>
           (HasOp(code'[p], o) <=> \E k \in 2 .. Len(code[p]) : code[p][k][1] = o)
  <2>1. /\ code' \in [Procs -> Seq(Instrs)] /\ Programs'
        /\ \A q \in Procs : q # p => code'[q] = code[q]
    BY PlainStep
  <2>2. s = << >> => \A o \in Low \cup {"begin"} : ~At(p, o)'
    BY PlainStep
  <2>3. \A o \in Low : \A i : s = <<<<o, i>>>> => (\A x : At(p, x)' <=> x = o) /\ Arg(p)' = i
    BY PlainStep
  <2>4. /\ Len(code[p]) # 1 => LastOp(code'[p]) = LastOp(code[p])
        /\ Len(code[p]) = 1 => LastOp(code'[p]) \notin {"end", "done", "up"}
    BY PlainStep
  <2>5. \A h : Matches(code[p], h) => Matches(code'[p], h)
    BY PlainStep
  <2>6. \A o : o \notin Low =>
          (HasOp(code'[p], o) <=> \E k \in 2 .. Len(code[p]) : code[p][k][1] = o)
    BY PlainStep
  <2> QED
    BY <2>1, <2>2, <2>3, <2>4, <2>5, <2>6
<1>2. Len(code[p]) = 1 => LastOp(code[p]) = code[p][1][1]
  BY DEF LastOp
<1>3. \A o \in {"end", "done", "up"} : LastOp(code'[p]) = o <=> LastOp(code[p]) = o
  BY <1>1, <1>2
<1>4. ~At(p, "begin")
  BY First DEF At
<1>5. ~At(p, "begin")'
  <2>1. CASE s = << >>
    BY <1>1, <2>1
  <2>2. CASE \E o \in Low, i \in Bufs : s = <<<<o, i>>>>
    <3>1. PICK o \in Low : \A x : At(p, x)' <=> x = o
      BY <1>1, <2>2
    <3> QED
      BY <3>1 DEF Low
  <2> QED
    BY <2>1, <2>2
<1>6. \A o \in {"clear", "read_head"} : HasOp(code'[p], o) <=> HasOp(code[p], o)
  <2> TAKE o \in {"clear", "read_head"}
  <2>1. o \notin Low
    BY DEF Low
  <2>2. code[p] \in Seq(Instrs) /\ << >> \in Seq(Instrs)
    BY First
  <2>3. HasOp(code[p], o) <=> code[p][1][1] = o \/ \E k \in 2 .. Len(code[p]) : code[p][k][1] = o
    BY <2>2, HasBehind
  <2>4. code[p][1][1] # o
    OBVIOUS
  <2> QED
    BY <1>1, <2>1, <2>3, <2>4
<1>7. Matches(code'[p], lh)
  BY <1>1 DEF CopiesMatch
<1> QED
  BY <1>1, <1>3, <1>4, <1>5, <1>6, <1>7 DEF Calm

\* A calm step keeps what is said of operations, commits and sleepers.
LEMMA CalmKeeps ==
  ASSUME Typed, CopiesMatch, Counted, Cleared, SleepersJustified, NEW p \in Procs, Calm(p),
         UNCHANGED logVars
  PROVE  CopiesMatch' /\ Counted' /\ Cleared' /\ SleepersJustified'
<1>0. UNCHANGED <<outstanding, committing, lh, asleep, up>>
  BY DEF logVars
<1>1. \A q \in Procs :
        /\ \A o \in {"end", "done", "up"} : LastOp(code'[q]) = o <=> LastOp(code[q]) = o
        /\ At(q, "begin")' <=> At(q, "begin")
        /\ \A o \in {"clear", "read_head"} : HasOp(code'[q], o) <=> HasOp(code[q], o)
        /\ code'[q] # << >> => code[q] # << >>
        /\ Matches(code'[q], lh)
  <2> TAKE q \in Procs
  <2>1. CASE q = p
    BY <2>1 DEF Calm
  <2>2. CASE q # p
    <3>1. code'[q] = code[q]
      BY <2>2 DEF Calm
    <3>2. At(q, "begin")' <=> At(q, "begin")
      BY <3>1 DEF At
    <3> QED
      BY <3>1, <3>2 DEF CopiesMatch
  <2> QED
    BY <2>1, <2>2
<1>2. \A q \in Procs : (InOp(q)' <=> InOp(q)) /\ (Finishing(q)' <=> Finishing(q))
  BY <1>1 DEF InOp, Finishing
<1>3. CopiesMatch'
  BY <1>0, <1>1 DEF CopiesMatch
<1>4. Counted'
  <2>1. {q \in Procs : InOp(q)'} = {q \in Procs : InOp(q)}
    BY <1>2
  <2>2. outstanding' = Cardinality({q \in Procs : InOp(q)'})
    BY <1>0, <2>1 DEF Counted
  <2>3. /\ committing' <=> \E q \in Procs : LastOp(code'[q]) = "done"
        /\ committing' => outstanding' = 0
        /\ \A q, r \in Procs : Finishing(q)' /\ Finishing(r)' => q = r
    BY <1>0, <1>1, <1>2 DEF Counted
  <2>4. /\ up' => \A q \in Procs : LastOp(code'[q]) # "up"
        /\ ~up' => /\ asleep' = {} /\ outstanding' = 0 /\ ~committing'
                   /\ \A q \in Procs : code'[q] # << >> => LastOp(code'[q]) = "up"
    BY <1>0, <1>1 DEF Counted
  <2> QED
    BY <2>2, <2>3, <2>4 DEF Counted
<1>5. Cleared'
  BY <1>0, <1>1, <1>2 DEF Cleared, Has
<1>6. SleepersJustified'
  BY <1>0 DEF SleepersJustified, MustWait
<1> QED
  BY <1>3, <1>4, <1>5, <1>6

\* An instruction that is not about buffers leaves the cache alone.
LEMMA QuietCache ==
  ASSUME Typed, Programs, Cache, NEW p \in Procs, code[p] # << >>,
         code[p][1][1] \notin Low \cup {"bread", "brelse"}, Then(p, << >>),
         buf' = buf, idequeue' = idequeue
  PROVE  Cache' /\ Programs' /\ code' \in [Procs -> Seq(Instrs)]
<1>1. PICK s : s = << >> /\ Then(p, s)
  OBVIOUS
<1>2. /\ code' \in [Procs -> Seq(Instrs)] /\ Programs'
      /\ \A q \in Procs : q # p => code'[q] = code[q]
  BY <1>1, PlainStep
<1>3. \A b : Owes(p, b)' <=> Open(code[p], 2, b)
  BY <1>1, PlainStep
<1>4. \A o \in Low : ~At(p, o)'
  BY <1>1, PlainStep
<1>5. /\ ~At(p, "bread") /\ ~At(p, "brelse")
      /\ \A o \in Low : ~At(p, o)
  BY First DEF At
<1>6. \A b \in Blocks : Owes(p, b)' <=> Owes(p, b)
  BY <1>3, <1>5, OwesNext
<1>7. Cache'
  BY <1>2, <1>4, <1>5, <1>6, CacheSame
<1> QED
  BY <1>2, <1>7

\* A loop goes on with another block.
LEMMA LoopStep ==
  ASSUME Typed, Programs, CopiesMatch, Cache, NEW p \in Procs, code[p] # << >>,
         code[p][1][1] \in {"body", "write_log", "install_trans"},
         NEW s \in Seq(Instrs), Len(s) # 0, s[1][1] = "bread", Then(p, s),
         Balanced(s \o Tail(code[p])), Ordered(s \o Tail(code[p])),
         \A b \in Blocks : ~Open(s \o Tail(code[p]), 1, b),
         LastOp(s \o Tail(code[p])) = LastOp(code[p]),
         ~HasOp(s, "clear"), ~HasOp(s, "read_head"),
         \A k \in 1 .. Len(s) : CopyMatches(s \o Tail(code[p]), k, lh),
         buf' = buf, idequeue' = idequeue
  PROVE  Calm(p) /\ Cache'
<1>1. PICK c : c = code[p]
  OBVIOUS
<1>2. c \in Seq(Instrs) /\ c # << >> /\ Ordered(c) /\ Matches(c, lh)
  BY <1>1, First DEF Programs, CopiesMatch
<1>3. PICK d : d = s \o Tail(c)
  OBVIOUS
<1>4. /\ code' \in [Procs -> Seq(Instrs)] /\ code'[p] = d
      /\ \A q \in Procs : q # p => code'[q] = code[q]
  BY <1>1, <1>3, Stepped
<1>5. d \in Seq(Instrs) /\ Balanced(d) /\ Ordered(d) /\ LastOp(d) = LastOp(c)
  BY <1>1, <1>3, <1>4
<1>6. Programs'
  <2>1. ASSUME NEW q \in Procs PROVE Balanced(code'[q]) /\ Ordered(code'[q])
    <3>1. CASE q = p
      BY <1>4, <1>5, <3>1
    <3>2. CASE q # p
      BY <1>4, <3>2 DEF Programs
    <3> QED
      BY <3>1, <3>2
  <2> QED
    BY <2>1 DEF Programs
<1>7. Head(d) = d[1] /\ d # << >> /\ d[1][1] = "bread"
  <2>1. PICK n \in Nat : n = Len(s) /\ n # 0
    BY LenProperties
  <2>2. 1 \in 1 .. n
    BY <2>1
  <2>3. d[1] = s[1]
    BY <1>2, <1>3, <2>1, <2>2, Prepend
  <2>4. Len(d) # 0
    <3>1. PICK m \in Nat \ {0} : m = Len(c)
      BY <1>2, Prepend
    <3>2. Len(d) = n + m - 1
      BY <1>2, <1>3, <2>1, <3>1, Prepend
    <3>3. n + m - 1 # 0
      BY <2>1
    <3> QED
      BY <3>2, <3>3
  <2>5. d # << >>
    BY <1>5, <2>4, EmptySeq
  <2>6. Head(d) = d[1]
    BY <1>5, <2>5, HeadTailProperties
  <2> QED
    BY <2>3, <2>5, <2>6
<1>8. \A o \in Low \cup {"begin"} : ~At(p, o) /\ ~At(p, o)'
  <2>1. \A o : At(p, o)' <=> o = "bread"
    BY <1>4, <1>7 DEF At
  <2>2. \A o \in Low \cup {"begin"} : ~At(p, o)
    BY First DEF At, Low
  <2> QED
    BY <2>1, <2>2 DEF Low
<1>9. \A b \in Blocks : Owes(p, b)' <=> Owes(p, b)
  <2>1. code[p][1][1] \in Bare
    BY DEF Bare
  <2>2. \A b \in Blocks : ~Owes(p, b)
    BY <2>1, OwesNext
  <2>3. \A b \in Blocks : ~Owes(p, b)'
    BY <1>1, <1>3, <1>4 DEF Owes
  <2> QED
    BY <2>2, <2>3
<1>10. \A o \in {"clear", "read_head"} : HasOp(d, o) <=> HasOp(c, o)
  <2> TAKE o \in {"clear", "read_head"}
  <2>1. /\ HasOp(d, o) <=> HasOp(s, o) \/ \E k \in 2 .. Len(c) : c[k][1] = o
        /\ HasOp(c, o) <=> c[1][1] = o \/ \E k \in 2 .. Len(c) : c[k][1] = o
    BY <1>2, <1>3, HasBehind
  <2>2. ~HasOp(s, o) /\ c[1][1] # o
    BY <1>1
  <2> QED
    BY <2>1, <2>2
<1>11. Matches(d, lh)
  BY <1>1, <1>2, <1>3, MatchesBehind
<1>12. Calm(p)
  BY <1>1, <1>4, <1>5, <1>6, <1>8, <1>10, <1>11 DEF Calm
<1>13. Cache'
  BY <1>4, <1>8, <1>9, CacheSame
<1> QED
  BY <1>12, <1>13

\* What a turn of the loop of an operation gives to do.
LEMMA BodyCode ==
  ASSUME Typed, NEW p \in Procs, Body(p), Arg(p) # << >>
  PROVE  \E x \in Homes, v \in Values, y \in Seq(Homes), s \in Seq(Instrs) :
           /\ Len(s) = 4 /\ s[1] = <<"bread", x>> /\ s[2] = <<"log_write", x, v>>
           /\ s[3] = <<"brelse", x>> /\ s[4] = <<"body", y, v>> /\ Then(p, s)
<1>1. At(p, "body")
  BY DEF Body
<1>2. PICK w \in Seq(Homes), v \in Values : w = Arg(p) /\ v = Head(code[p])[3]
  BY <1>1, ArgType
<1>3. PICK x \in Homes, y \in Seq(Homes) : x = Head(w) /\ y = Tail(w)
  BY <1>2, HeadTailProperties
<1>4. PICK s : /\ s = <<<<"bread", x>>, <<"log_write", x, v>>, <<"brelse", x>>, <<"body", y, v>>>>
               /\ Then(p, s)
  BY <1>2, <1>3 DEF Body
<1>5. s \in Seq(Instrs)
  <2>1. <<"bread", x>> \in Instrs /\ <<"log_write", x, v>> \in Instrs
        /\ <<"brelse", x>> \in Instrs /\ <<"body", y, v>> \in Instrs
    BY LogAssumption, IsInstr
  <2> QED
    BY <1>4, <2>1
<1>6. /\ Len(s) = 4 /\ s[1] = <<"bread", x>> /\ s[2] = <<"log_write", x, v>>
      /\ s[3] = <<"brelse", x>> /\ s[4] = <<"body", y, v>>
  BY <1>4
<1> QED
  BY <1>4, <1>5, <1>6

\* The loop of an operation.
LEMMA BodyStep ==
  ASSUME Typed, Programs, CopiesMatch, Cache, NEW p \in Procs, Body(p)
  PROVE  Calm(p) /\ Cache'
<1>1. /\ At(p, "body") /\ code[p] # << >> /\ buf' = buf /\ idequeue' = idequeue
  BY DEF Body, At
<1>2. code[p] \in Seq(Instrs) /\ Head(code[p]) = code[p][1] /\ code[p][1][1] = "body"
  BY <1>1, First DEF At
<1>3. PICK w \in Seq(Homes), v \in Values : w = Arg(p) /\ v = Head(code[p])[3]
  BY <1>1, ArgType
<1>4. CASE w = << >>
  <2>1. PICK s : s = << >> /\ Then(p, s)
    BY <1>3, <1>4 DEF Body
  <2>2. code[p][1][1] \notin {"begin", "end", "done", "up", "clear", "read_head"}
        /\ code[p][1][1] \notin Low \cup {"bread", "brelse"}
    BY <1>2 DEF Low
  <2>3. Calm(p)
    BY <1>1, <2>1, <2>2, CalmPlain
  <2>4. Cache'
    BY <1>1, <2>1, <2>2, QuietCache
  <2> QED
    BY <2>3, <2>4
<1>5. CASE w # << >>
  <2>4. PICK x \in Homes, u \in Values, y \in Seq(Homes), s \in Seq(Instrs) :
          /\ Len(s) = 4 /\ s[1] = <<"bread", x>> /\ s[2] = <<"log_write", x, u>>
          /\ s[3] = <<"brelse", x>> /\ s[4] = <<"body", y, u>> /\ Then(p, s)
    BY <1>3, <1>5, BodyCode
  <2>2. x \in Blocks
    BY LogAssumption
  <2>6. /\ s[1][1] = "bread" /\ s[1][2] = x /\ s[2][1] = "log_write" /\ s[2][2] = x
        /\ s[3][1] = "brelse" /\ s[3][2] = x /\ s[4][1] = "body"
    BY <2>4
  <2>7. Balanced(code[p]) /\ Ordered(code[p])
    BY DEF Programs
  <2>8. /\ Balanced(s \o Tail(code[p])) /\ Ordered(s \o Tail(code[p]))
        /\ \A b \in Blocks : ~Open(s \o Tail(code[p]), 1, b)
        /\ LastOp(s \o Tail(code[p])) = LastOp(code[p])
    BY <1>1, <1>2, <2>2, <2>4, <2>6, <2>7, BodyBehind
  <2>9. \A k \in 1 .. Len(s) : s[k][1] \in {"bread", "log_write", "brelse", "body"}
    <3>1. \A k \in 1 .. Len(s) : k = 1 \/ k = 2 \/ k = 3 \/ k = 4
      BY <2>4
    <3> QED
      BY <2>6, <3>1
  <2>10. ~HasOp(s, "clear") /\ ~HasOp(s, "read_head")
    BY <2>9 DEF HasOp
  <2>11. \A k \in 1 .. Len(s) : CopyMatches(s \o Tail(code[p]), k, lh)
    <3>1. \A k \in 1 .. Len(s) : (s \o Tail(code[p]))[k] = s[k]
      BY <1>1, <1>2, Prepend
    <3> QED
      BY <2>9, <3>1 DEF CopyMatches
  <2>12. Then(p, s) /\ Len(s) # 0
    BY <2>4
  <2> QED
    BY <1>1, <1>2, <2>6, <2>8, <2>10, <2>11, <2>12, LoopStep
<1> QED
  BY <1>4, <1>5

\* A logged block and its place in the log.
LEMMA LogPlaces ==
  ASSUME NEW h \in Headers, NEW t \in Nat \ {0}, t <= Len(h)
  PROVE  /\ t \in 1 .. Len(h) /\ t \in LogDataBlocks
         /\ h[t] \in Homes /\ h[t] \in Blocks \ {Header}
         /\ LogBlocks[t] \in Blocks \ {Header} /\ LogBlocks[t] \notin Homes /\ LogBlocks[t] # h[t]
<1>1. h \in Seq(Homes) /\ Len(h) <= Len(LogBlocks) /\ Len(h) \in Nat
  BY LenProperties DEF Headers
<1>2. LogBlocks \in Seq(Blocks \ (Homes \cup {Header})) /\ Homes \subseteq Blocks \ {Header}
  BY LogAssumption
<1>3. Len(LogBlocks) \in Nat
  BY <1>2, LenProperties
<1>4. t \in 1 .. Len(h) /\ t \in 1 .. Len(LogBlocks)
  BY <1>1, <1>3
<1>5. h[t] \in Homes
  BY <1>1, <1>4, ElementOfSeq
<1>6. LogBlocks[t] \in Blocks \ (Homes \cup {Header})
  BY <1>2, <1>4, ElementOfSeq
<1> QED
  BY <1>2, <1>4, <1>5, <1>6 DEF LogDataBlocks

\* Turn t of loop o, write_log or install_trans: what it copies, and what it gives to do.
To(o, t)   == IF o = "write_log" THEN LogBlocks[t] ELSE lh[t]
From(o, t) == IF o = "write_log" THEN lh[t] ELSE LogBlocks[t]
Turn(s, o, t) ==
  /\ Len(s) = 6 /\ s[1] = <<"bread", LogBlocks[t]>> /\ s[2] = <<"bread", lh[t]>>
  /\ s[3] = <<"copy", To(o, t), From(o, t)>>
  /\ s[4] = <<"brelse", From(o, t)>> /\ s[5] = <<"brelse", To(o, t)>> /\ s[6] = <<o, t + 1>>

\* So it is.
LEMMA CopyCode ==
  ASSUME Typed, NEW p \in Procs, NEW o \in {"write_log", "install_trans"}, At(p, o),
         o = "write_log" => write_log(p), o = "install_trans" => install_trans(p),
         NEW t \in Nat \ {0}, t = Arg(p), ~(t > Len(lh))
  PROVE  \E s \in Seq(Instrs) : Turn(s, o, t) /\ Then(p, s)
<1>1. lh \in Headers /\ Len(lh) \in Nat
  BY LenProperties DEF Typed, Headers
<1>2. t <= Len(lh)
  BY <1>1
<1>3. PICK l \in Blocks \ {Header}, h \in Blocks \ {Header} :
        l = LogBlocks[t] /\ h = lh[t] /\ l # h /\ t \in 1 .. Len(lh)
  BY <1>1, <1>2, LogPlaces
<1>4. PICK to \in Blocks \ {Header}, from \in Blocks \ {Header} :
        /\ o = "write_log" => to = l /\ from = h
        /\ o = "install_trans" => to = h /\ from = l
  OBVIOUS
<1>5. PICK n \in Nat \ {0} : n = t + 1
  OBVIOUS
<1>6. PICK s : /\ s = <<<<"bread", l>>, <<"bread", h>>, <<"copy", to, from>>,
                        <<"brelse", from>>, <<"brelse", to>>>> \o <<<<o, n>>>>
               /\ Then(p, s)
  <2>1. CASE o = "write_log"
    BY <1>3, <1>4, <1>5, <2>1 DEF write_log, CopyBlock
  <2>2. CASE o = "install_trans"
    BY <1>3, <1>4, <1>5, <2>2 DEF install_trans, CopyBlock
  <2> QED
    BY <2>1, <2>2
<1>7. /\ Len(s) = 6 /\ s[1] = <<"bread", l>> /\ s[2] = <<"bread", h>>
      /\ s[3] = <<"copy", to, from>> /\ s[4] = <<"brelse", from>> /\ s[5] = <<"brelse", to>>
      /\ s[6] = <<o, n>> /\ s \in Seq(Instrs)
  <2>1. /\ <<"bread", l>> \in Instrs /\ <<"bread", h>> \in Instrs
        /\ <<"copy", to, from>> \in Instrs /\ <<"brelse", to>> \in Instrs
        /\ <<"brelse", from>> \in Instrs /\ <<o, n>> \in Instrs
    BY IsInstr
  <2>2. PICK a, b, c, d, e, f \in Instrs :
          /\ a = <<"bread", l>> /\ b = <<"bread", h>> /\ c = <<"copy", to, from>>
          /\ d = <<"brelse", from>> /\ e = <<"brelse", to>> /\ f = <<o, n>>
    BY <2>1
  <2>3. s = <<a, b, c, d, e>> \o <<f>>
    BY <1>6, <2>2
  <2>4. Len(s) = 6 /\ s[1] = a /\ s[2] = b /\ s[3] = c /\ s[4] = d /\ s[5] = e /\ s[6] = f
        /\ s \in Seq(Instrs)
    BY <2>3
  <2> QED
    BY <2>2, <2>4
<1>8. Turn(s, o, t)
  BY <1>3, <1>4, <1>5, <1>7 DEF Turn, To, From
<1> QED
  BY <1>6, <1>7, <1>8

\* The loops of write_log and of install_trans.
LEMMA CopyStep ==
  ASSUME Typed, Programs, CopiesMatch, Cache, NEW p \in Procs,
         write_log(p) \/ install_trans(p)
  PROVE  Calm(p) /\ Cache'
<1>1. PICK o \in {"write_log", "install_trans"} :
        /\ At(p, o) /\ code[p] # << >> /\ buf' = buf /\ idequeue' = idequeue
        /\ o = "write_log" => write_log(p)
        /\ o = "install_trans" => install_trans(p)
  BY DEF write_log, install_trans, At
<1>2. code[p] \in Seq(Instrs) /\ Head(code[p]) = code[p][1] /\ code[p][1][1] = o
  BY <1>1, First DEF At
<1>3. PICK t \in Nat \ {0} : t = Arg(p)
  BY <1>1, ArgType
<1>4. CASE t > Len(lh)
  <2>1. PICK s : s = << >> /\ Then(p, s)
    BY <1>1, <1>3, <1>4 DEF write_log, install_trans
  <2>2. code[p][1][1] \notin {"begin", "end", "done", "up", "clear", "read_head"}
        /\ code[p][1][1] \notin Low \cup {"bread", "brelse"}
    BY <1>2 DEF Low
  <2>3. Calm(p)
    BY <1>1, <2>1, <2>2, CalmPlain
  <2>4. Cache'
    BY <1>1, <2>1, <2>2, QuietCache
  <2> QED
    BY <2>3, <2>4
<1>5. CASE ~(t > Len(lh))
  <2>1. PICK s \in Seq(Instrs) : Turn(s, o, t) /\ Then(p, s)
    BY <1>1, <1>3, <1>5, CopyCode
  <2>2. lh \in Headers /\ t <= Len(lh)
    <3>1. lh \in Headers /\ Len(lh) \in Nat
      BY LenProperties DEF Typed, Headers
    <3> QED
      BY <1>5, <3>1
  <2>3. PICK l \in Blocks \ {Header}, h \in Blocks \ {Header} :
          l = LogBlocks[t] /\ h = lh[t] /\ l # h /\ t \in 1 .. Len(lh)
    BY <2>2, LogPlaces
  <2>4. PICK to \in Blocks \ {Header}, from \in Blocks \ {Header} :
          to = To(o, t) /\ from = From(o, t)
    BY <2>3 DEF To, From
  <2>5. /\ o = "write_log" => to = l /\ from = h
        /\ o = "install_trans" => to = h /\ from = l
    BY <2>3, <2>4 DEF To, From
  <2>7. /\ Len(s) = 6 /\ s[1] = <<"bread", l>> /\ s[2] = <<"bread", h>>
        /\ s[3] = <<"copy", to, from>> /\ s[4] = <<"brelse", from>> /\ s[5] = <<"brelse", to>>
        /\ s[6] = <<o, t + 1>>
    BY <2>1, <2>3, <2>4 DEF Turn
  <2>8. /\ s[1][1] = "bread" /\ s[1][2] = l /\ s[2][1] = "bread" /\ s[2][2] = h
        /\ s[3][1] = "copy" /\ s[3][2] = to /\ s[3][3] = from
        /\ s[4][1] = "brelse" /\ s[4][2] = from /\ s[5][1] = "brelse" /\ s[5][2] = to
        /\ s[6][1] = o
    BY <2>7
  <2>9. Balanced(code[p]) /\ Ordered(code[p])
    BY DEF Programs
  <2>10. l # h /\ ((to = l /\ from = h) \/ (to = h /\ from = l))
    BY <2>3, <2>5
  <2>11. Len(s) = 6 /\ s \in Seq(Instrs)
    BY <2>7
  <2>12. /\ Balanced(s \o Tail(code[p])) /\ Ordered(s \o Tail(code[p]))
         /\ \A b \in Blocks : ~Open(s \o Tail(code[p]), 1, b)
         /\ LastOp(s \o Tail(code[p])) = LastOp(code[p])
    <3>1. PICK c : c = code[p]
      OBVIOUS
    <3>2. c \in Seq(Instrs) /\ c # << >> /\ Balanced(c) /\ Ordered(c) /\ c[1][1] = o
      BY <1>1, <1>2, <2>9, <3>1
    <3>3. s \in Seq(Instrs) /\ Len(s) = 6
      BY <2>11
    <3>4. /\ Balanced(s \o Tail(c)) /\ Ordered(s \o Tail(c))
          /\ \A b \in Blocks : ~Open(s \o Tail(c), 1, b)
          /\ LastOp(s \o Tail(c)) = LastOp(c)
      <4>1. /\ c[1][1] \in {"write_log", "install_trans"} /\ s[6][1] = c[1][1]
            /\ s[1][1] = "bread" /\ s[1][2] \in Blocks \ {Header}
            /\ s[2][1] = "bread" /\ s[2][2] \in Blocks \ {Header} /\ s[1][2] # s[2][2]
        BY <2>8, <2>10, <3>2
      <4>2. /\ s[3][1] = "copy" /\ s[4][1] = "brelse" /\ s[5][1] = "brelse"
            /\ s[4][2] = s[3][3] /\ s[5][2] = s[3][2]
            /\ \/ s[3][2] = s[1][2] /\ s[3][3] = s[2][2]
               \/ s[3][2] = s[2][2] /\ s[3][3] = s[1][2]
        BY <2>8, <2>10
      <4> QED
        BY <3>2, <3>3, <4>1, <4>2, CopyBehind
    <3> QED
      BY <3>1, <3>4
  <2>13. \A k \in 1 .. Len(s) : k = 1 \/ k = 2 \/ k = 3 \/ k = 4 \/ k = 5 \/ k = 6
    BY <2>11
  <2>14. ~HasOp(s, "clear") /\ ~HasOp(s, "read_head")
    BY <2>8, <2>13 DEF HasOp
  <2>15. \A k \in 1 .. Len(s) : CopyMatches(s \o Tail(code[p]), k, lh)
    <3>1. PICK d : d = s \o Tail(code[p])
      OBVIOUS
    <3>2. \A k \in 1 .. 6 : d[k] = s[k]
      <4>1. code[p] \in Seq(Instrs) /\ code[p] # << >> /\ s \in Seq(Instrs)
        BY <1>1, <1>2, <2>11
      <4>2. \A k \in 1 .. Len(s) : d[k] = s[k]
        BY <3>1, <4>1, Prepend
      <4>3. Len(s) = 6
        BY <2>11
      <4> QED
        BY <4>2, <4>3
    <3>3. d[3] = s[3] /\ d[3 + 3] = s[6]
      BY <3>2
    <3>4. CopyMatches(d, 3, lh)
      <4>1. o = "write_log" =>
              d[3 + 3] = <<"write_log", t + 1>> /\ d[3] = <<"copy", LogBlocks[t], lh[t]>>
        BY <3>3, <2>3, <2>5, <2>7
      <4>2. o = "install_trans" =>
              d[3 + 3] = <<"install_trans", t + 1>> /\ d[3] = <<"copy", lh[t], LogBlocks[t]>>
        BY <3>3, <2>3, <2>5, <2>7
      <4> QED
        BY <4>1, <4>2, <2>3 DEF CopyMatches
    <3>5. ASSUME NEW k \in 1 .. Len(s), k # 3 PROVE CopyMatches(d, k, lh)
      <4>1. k = 1 \/ k = 2 \/ k = 4 \/ k = 5 \/ k = 6
        BY <2>13, <3>5
      <4>2. d[k] = s[k]
        BY <3>2, <4>1
      <4>3. s[k][1] # "copy"
        BY <2>8, <4>1
      <4> QED
        BY <4>2, <4>3 DEF CopyMatches
    <3> QED
      BY <3>1, <3>4, <3>5
  <2>16. Then(p, s) /\ Len(s) # 0 /\ s[1][1] = "bread"
         /\ code[p][1][1] \in {"body", "write_log", "install_trans"}
    BY <1>2, <2>1, <2>8, <2>11
  <2> QED
    BY <1>1, <2>11, <2>12, <2>14, <2>15, <2>16, LoopStep
<1> QED
  BY <1>4, <1>5

\* Every step of the cache is one instruction of bread, bwrite or brelse.
LEMMA CacheCalm ==
  ASSUME Typed, Programs, CopiesMatch, Cache, NEW p \in Procs, CacheStep(p)
  PROVE  Calm(p)
<1>1. PICK o \in {"bread", "lock", "iderw", "wait", "brelse", "unref"} :
        At(p, o) /\ code[p] # << >> /\ code[p][1][1] = o
  <2>1. \E o \in {"bread", "lock", "iderw", "wait", "brelse", "unref"} : At(p, o)
    BY DEF CacheStep, BgetHit, BgetRecycle, acquiresleep, IderwQueue, IderwDone, releasesleep,
           BrelseUnref
  <2> QED
    BY <2>1, First DEF At
<1>2. \A x \in Low : At(p, x) => Arg(p) \in Bufs
  BY ArgType
<1>3. \E s : /\ s = << >> \/ \E x \in Low, i \in Bufs : s = <<<<x, i>>>>
             /\ Then(p, s)
  <2>1. CASE BgetHit(p)
    BY <2>1 DEF BgetHit, Cached, Low
  <2>2. CASE BgetRecycle(p)
    <3>1. PICK k \in Bufs : Then(p, <<<<"lock", lru[k]>>>>)
      BY <2>2 DEF BgetRecycle, Recyclable
    <3>2. lru[k] \in Bufs
      BY DEF Typed
    <3> QED
      BY <3>1, <3>2 DEF Low
  <2>3. CASE acquiresleep(p)
    <3>1. Then(p, << >>) \/ Then(p, <<<<"iderw", Arg(p)>>>>)
      BY <2>3 DEF acquiresleep
    <3>2. Arg(p) \in Bufs
      BY <1>2, <2>3 DEF acquiresleep, Low
    <3> QED
      BY <3>1, <3>2 DEF Low
  <2>4. CASE IderwQueue(p)
    BY <1>2, <2>4 DEF IderwQueue, Low
  <2>5. CASE IderwDone(p)
    BY <2>5 DEF IderwDone
  <2>6. CASE releasesleep(p)
    <3>1. Arg(p) \in Blocks /\ At(p, "brelse")
      BY <2>6, ArgType DEF releasesleep
    <3>2. Owes(p, Arg(p))
      BY <1>1, <3>1, OwesNext
    <3>3. \A i \in Bufs : ~Asks(p, i)
      BY <3>1 DEF Asks, At
    <3>4. Held(p, Arg(p)) \in Bufs
      BY <3>1, <3>2, <3>3, HeldIs
    <3>5. Then(p, <<<<"unref", Held(p, Arg(p))>>>>)
      BY <2>6 DEF releasesleep
    <3> QED
      BY <3>4, <3>5 DEF Low
  <2>7. CASE BrelseUnref(p)
    BY <2>7 DEF BrelseUnref
  <2> QED
    BY <2>1, <2>2, <2>3, <2>4, <2>5, <2>6, <2>7 DEF CacheStep
<1>4. PICK s : /\ s = << >> \/ \E x \in Low, i \in Bufs : s = <<<<x, i>>>>
               /\ Then(p, s)
  BY <1>3
<1>5. code[p][1][1] \notin {"begin", "end", "done", "up", "clear", "read_head"}
  BY <1>1
<1> QED
  BY <1>1, <1>4, <1>5, CalmPlain

\* What the invariant says beyond types.
Sound == Programs /\ CopiesMatch /\ Cache /\ Counted /\ Cleared /\ SleepersJustified

\* The steps of the cache keep it.
LEMMA CacheStepSound ==
  ASSUME LInv, NEW p \in Procs, CacheStep(p), UNCHANGED logVars
  PROVE  Sound' /\ code' \in [Procs -> Seq(Instrs)]
<1>1. Typed /\ Programs /\ CopiesMatch /\ Cache /\ Counted /\ Cleared /\ SleepersJustified
  BY DEF LInv
<1>2. Calm(p)
  BY <1>1, CacheCalm
<1>3. CopiesMatch' /\ Counted' /\ Cleared' /\ SleepersJustified'
  BY <1>1, <1>2, CalmKeeps
<1>4. Cache' /\ Programs' /\ code' \in [Procs -> Seq(Instrs)]
  BY <1>1, BgetHitCache, BgetRecycleCache, AcquireCache, IderwQueueCache, IderwDoneCache,
     ReleaseCache, UnrefCache DEF CacheStep
<1> QED
  BY <1>3, <1>4 DEF Sound

\* The steps of the loops keep it.
LEMMA LoopSound ==
  ASSUME LInv, NEW p \in Procs, Body(p) \/ write_log(p) \/ install_trans(p)
  PROVE  Sound' /\ code' \in [Procs -> Seq(Instrs)]
<1>1. Typed /\ Programs /\ CopiesMatch /\ Cache /\ Counted /\ Cleared /\ SleepersJustified
  BY DEF LInv
<1>2. Calm(p) /\ Cache'
  BY <1>1, BodyStep, CopyStep
<1>3. UNCHANGED logVars
  BY DEF Body, write_log, install_trans
<1>4. CopiesMatch' /\ Counted' /\ Cleared' /\ SleepersJustified'
  BY <1>1, <1>2, <1>3, CalmKeeps
<1>5. Programs' /\ code' \in [Procs -> Seq(Instrs)]
  BY <1>2 DEF Calm
<1> QED
  BY <1>2, <1>4, <1>5 DEF Sound

\* The steps that fill the buffer of a block and write it to the disk.
LEMMA WriteSound ==
  ASSUME LInv, NEW p \in Procs, Copy(p) \/ WriteHead(p)
  PROVE  Sound' /\ code' \in [Procs -> Seq(Instrs)]
<1>1. Typed /\ Programs /\ CopiesMatch /\ Cache /\ Counted /\ Cleared /\ SleepersJustified
  BY DEF LInv
<1>0. PICK o \in {"copy", "write_head"}, b \in Blocks :
        \E data : /\ At(p, o) /\ bwrite(p, b, data) /\ UNCHANGED logVars
                  /\ (o = "copy" /\ b = Arg(p)) \/ (o = "write_head" /\ b = Header)
  <2>1. CASE Copy(p)
    <3>1. At(p, "copy") /\ Arg(p) \in Blocks
      BY <1>1, <2>1, ArgType DEF Copy
    <3> QED
      BY <2>1, <3>1 DEF Copy
  <2>2. CASE WriteHead(p)
    BY <2>2, LogAssumption DEF WriteHead
  <2> QED
    BY <2>1, <2>2
<1>2. PICK data : /\ At(p, o) /\ bwrite(p, b, data) /\ UNCHANGED logVars
                  /\ (o = "copy" /\ b = Arg(p)) \/ (o = "write_head" /\ b = Header)
  BY <1>0
<1>3. code[p] # << >> /\ code[p][1][1] = o
  BY <1>1, <1>2, First DEF At
<1>4. Owes(p, b)
  BY <1>1, <1>2, <1>3, OwesNext
<1>5. \A i \in Bufs : ~Asks(p, i)
  BY <1>2 DEF Asks, At
<1>6. PICK i \in Bufs : i = Held(p, b) /\ buf[i].blockno = b /\ buf[i].lock = p
  BY <1>1, <1>4, <1>5, HeldIs
<1>7. StoreIn(i, data) /\ idequeue' = idequeue
  BY <1>2, <1>6 DEF bwrite, StoreIn
<1>8. PICK s : s = <<<<"iderw", i>>>> /\ Then(p, s)
  BY <1>2, <1>6 DEF bwrite
<1>9. Calm(p)
  BY <1>1, <1>3, <1>8, CalmPlain DEF Low
<1>10. CopiesMatch' /\ Counted' /\ Cleared' /\ SleepersJustified'
  BY <1>1, <1>2, <1>9, CalmKeeps
<1>11. Cache' /\ Programs' /\ code' \in [Procs -> Seq(Instrs)]
  BY <1>1, <1>3, <1>6, <1>7, <1>8, StoreCache
<1> QED
  BY <1>10, <1>11 DEF Sound

-----------------------------------------------------------------------------
(* Steps of the log *)

\* A step that starts or ends no operation.
LEMMA CountedSame ==
  ASSUME Counted, UNCHANGED <<outstanding, committing, asleep, up>>,
         \A q \in Procs :
           /\ InOp(q)' <=> InOp(q)
           /\ LastOp(code'[q]) = "done" <=> LastOp(code[q]) = "done"
           /\ LastOp(code'[q]) = "up" <=> LastOp(code[q]) = "up"
           /\ code'[q] # << >> => code[q] # << >> \/ up
  PROVE  Counted'
<1>1. {q \in Procs : InOp(q)'} = {q \in Procs : InOp(q)}
  OBVIOUS
<1>2. outstanding' = Cardinality({q \in Procs : InOp(q)'})
  BY <1>1 DEF Counted
<1>3. \A q \in Procs : Finishing(q)' <=> Finishing(q)
  BY DEF Finishing
<1>4. /\ committing' <=> \E q \in Procs : LastOp(code'[q]) = "done"
      /\ committing' => outstanding' = 0
      /\ \A q, r \in Procs : Finishing(q)' /\ Finishing(r)' => q = r
  BY <1>3 DEF Counted
<1>5. /\ up' => \A q \in Procs : LastOp(code'[q]) # "up"
      /\ ~up' => /\ asleep' = {} /\ outstanding' = 0 /\ ~committing'
                 /\ \A q \in Procs : code'[q] # << >> => LastOp(code'[q]) = "up"
  BY DEF Counted
<1> QED
  BY <1>2, <1>4, <1>5 DEF Counted

\* A process is done with an instruction that is not about buffers.
LEMMA QuietStep ==
  ASSUME Typed, Programs, Cache, NEW p \in Procs, code[p] # << >>,
         code[p][1][1] \notin Low \cup {"bread", "brelse"}, Then(p, << >>),
         buf' = buf, idequeue' = idequeue
  PROVE  /\ Cache' /\ Programs' /\ code' \in [Procs -> Seq(Instrs)]
         /\ \A q \in Procs : q # p => code'[q] = code[q]
         /\ ~At(p, "begin")'
         /\ Len(code[p]) # 1 => LastOp(code'[p]) = LastOp(code[p])
         /\ Len(code[p]) = 1 => LastOp(code'[p]) \notin {"end", "done", "up"}
         /\ \A h : Matches(code[p], h) => Matches(code'[p], h)
         /\ \A o \in {"clear", "read_head"} :
              HasOp(code'[p], o) <=> \E k \in 2 .. Len(code[p]) : code[p][k][1] = o
         /\ \A o \in {"clear", "read_head"} : code[p][1][1] # o => (Has(p, o)' <=> Has(p, o))
<1>1. Cache' /\ Programs' /\ code' \in [Procs -> Seq(Instrs)]
  BY QuietCache
<1>2. PICK s : s = << >> /\ Then(p, s)
  OBVIOUS
<1>3. \A q \in Procs : q # p => code'[q] = code[q]
  BY <1>2, PlainStep
<1>4. ~At(p, "begin")'
  BY <1>2, PlainStep
<1>5. /\ Len(code[p]) # 1 => LastOp(code'[p]) = LastOp(code[p])
      /\ Len(code[p]) = 1 => LastOp(code'[p]) \notin {"end", "done", "up"}
  BY <1>2, PlainStep
<1>6. \A h : Matches(code[p], h) => Matches(code'[p], h)
  BY <1>2, PlainStep
<1>7. \A o : o \notin Low =>
        (HasOp(code'[p], o) <=> \E k \in 2 .. Len(code[p]) : code[p][k][1] = o)
  BY <1>2, PlainStep
<1>8. \A o \in {"clear", "read_head"} :
        HasOp(code'[p], o) <=> \E k \in 2 .. Len(code[p]) : code[p][k][1] = o
  BY <1>7 DEF Low
<1>9. code[p] \in Seq(Instrs) /\ << >> \in Seq(Instrs)
  BY First
<1>10. \A o : HasOp(code[p], o) <=>
                code[p][1][1] = o \/ \E k \in 2 .. Len(code[p]) : code[p][k][1] = o
  BY <1>9, HasBehind
<1>11. \A o \in {"clear", "read_head"} : code[p][1][1] # o => (Has(p, o)' <=> Has(p, o))
  BY <1>8, <1>10 DEF Has
<1> QED
  BY <1>1, <1>3, <1>4, <1>5, <1>6, <1>8, <1>11

\* The number of operations in progress is a number.
LEMMA Outstanding ==
  ASSUME Counted
  PROVE  /\ IsFiniteSet({p \in Procs : InOp(p)}) /\ outstanding \in Nat
         /\ \A p \in Procs : InOp(p) => outstanding > 0
         /\ \A p, q \in Procs : outstanding = 1 /\ InOp(p) /\ InOp(q) => p = q
<1> DEFINE S == {p \in Procs : InOp(p)}
<1>1. IsFiniteSet(S)
  BY LogAssumption, FS_Subset
<1>2. outstanding = Cardinality(S) /\ Cardinality(S) \in Nat
  BY <1>1, FS_CardinalityType DEF Counted
<1>3. \A p \in Procs : InOp(p) => p \in S
  OBVIOUS
<1> HIDE DEF S
<1>4. \A p \in Procs : InOp(p) => outstanding > 0
  BY <1>1, <1>2, <1>3, FS_EmptySet
<1>5. outstanding = 1 => \E x : S = {x}
  BY <1>1, <1>2, FS_Singleton
<1>6. \A p, q \in Procs : outstanding = 1 /\ InOp(p) /\ InOp(q) => p = q
  BY <1>3, <1>5
<1> QED
  BY <1>1, <1>2, <1>4, <1>6 DEF S

\* What the first instruction of p's program says of p.
LEMMA FirstAt ==
  ASSUME Typed, Programs, NEW p \in Procs, NEW o, At(p, o)
  PROVE  /\ code[p] # << >> /\ code[p] \in Seq(Instrs) /\ code[p][1][1] = o
         /\ o \in {"begin", "body", "log_write"} => LastOp(code[p]) = "end" /\ Len(code[p]) # 1
         /\ o \in {"end", "done", "up"} =>
              /\ Len(code[p]) = 1 /\ LastOp(code[p]) = o
              /\ \A x : HasOp(code[p], x) <=> x = o
         /\ o = "clear" => LastOp(code[p]) \in {"done", "up"} /\ Len(code[p]) # 1
         /\ o = "read_head" =>
              /\ LastOp(code[p]) = "up" /\ Len(code[p]) # 1
              /\ \E k \in 2 .. Len(code[p]) : code[p][k][1] = "clear"
              /\ \A k \in 2 .. Len(code[p]) : code[p][k][1] # "read_head"
<1>1. code[p] # << >> /\ code[p] \in Seq(Instrs) /\ code[p][1][1] = o
  BY First DEF At
<1>2. Ordered(code[p])
  BY DEF Programs
<1>3. /\ o \in {"begin", "body", "log_write"} => LastOp(code[p]) = "end" /\ Len(code[p]) # 1
      /\ o = "clear" => LastOp(code[p]) \in {"done", "up"} /\ Len(code[p]) # 1
  BY <1>1, <1>2, FirstTells
<1>4. o \in {"end", "done", "up"} =>
        /\ Len(code[p]) = 1 /\ LastOp(code[p]) = o
        /\ \A x : HasOp(code[p], x) <=> x = o
  BY <1>1, <1>2, FirstTells
<1>5. o = "read_head" =>
        /\ LastOp(code[p]) = "up" /\ Len(code[p]) # 1
        /\ \E k \in 2 .. Len(code[p]) : code[p][k][1] = "clear"
        /\ \A k \in 2 .. Len(code[p]) : code[p][k][1] # "read_head"
  BY <1>1, <1>2, FirstTells
<1> QED
  BY <1>1, <1>3, <1>4, <1>5

\* Who has a block header still to read is recovering.
LEMMA HeadReader ==
  ASSUME Typed, Programs, NEW p \in Procs, Has(p, "read_head")
  PROVE  LastOp(code[p]) = "up" /\ Finishing(p)
<1>1. code[p] \in Seq(Instrs) /\ Ordered(code[p])
  BY First DEF Programs
<1>2. code[p] # << >>
  <2>1. PICK k \in 1 .. Len(code[p]) : TRUE
    BY DEF Has, HasOp
  <2>2. Len(code[p]) # 0
    BY <2>1
  <2> QED
    BY <2>2
<1>3. LastOp(code[p]) = "up"
  BY <1>1, <1>2, FirstTells DEF Has
<1> QED
  BY <1>3 DEF Finishing

\* begin_op, which waits or starts an operation.
LEMMA BeginSound ==
  ASSUME LInv, NEW p \in Procs, begin_op(p)
  PROVE  Sound' /\ code' \in [Procs -> Seq(Instrs)]
<1>1. Typed /\ Programs /\ CopiesMatch /\ Cache /\ Counted /\ Cleared /\ SleepersJustified
  BY DEF LInv
<1>2. At(p, "begin") /\ UNCHANGED <<buf, idequeue, committing, lh, up>>
  BY DEF begin_op
<1>3. /\ code[p] # << >> /\ code[p] \in Seq(Instrs) /\ code[p][1][1] = "begin"
      /\ LastOp(code[p]) = "end" /\ Len(code[p]) # 1
  BY <1>1, <1>2, FirstAt
<1>4. up /\ ~InOp(p) /\ ~Finishing(p)
  BY <1>1, <1>2, <1>3 DEF Counted, InOp, Finishing
<1>5. outstanding \in Nat
  BY <1>1, Outstanding
<1>6. CASE MustWait
  <2>1. asleep' = asleep \cup {p} /\ code' = code /\ outstanding' = outstanding
    BY <1>6 DEF begin_op
  <2>2. Programs' /\ CopiesMatch' /\ code' \in [Procs -> Seq(Instrs)]
    BY <1>1, <1>2, <2>1 DEF Programs, CopiesMatch, Typed
  <2>3. \A o \in Low : ~At(p, o) /\ ~At(p, o)'
    <3>1. \A o \in Low : ~At(p, o)
      BY <1>2 DEF At, Low
    <3>2. \A o : At(p, o)' <=> At(p, o)
      BY <2>1, Elsewhere
    <3> QED
      BY <3>1, <3>2
  <2>4. \A b \in Blocks : Owes(p, b)' <=> Owes(p, b)
    BY <2>1, Elsewhere
  <2>5. Cache'
    BY <1>1, <1>2, <2>1, <2>3, <2>4, CacheSame
  <2>6. \A q \in Procs : (InOp(q)' <=> InOp(q)) /\ (Finishing(q)' <=> Finishing(q))
                         /\ (\A o : Has(q, o)' <=> Has(q, o))
    BY <2>1, Elsewhere
  <2>7. Counted'
    <3>1. {q \in Procs : InOp(q)'} = {q \in Procs : InOp(q)}
      BY <2>6
    <3>2. outstanding' = Cardinality({q \in Procs : InOp(q)'})
      BY <1>1, <2>1, <3>1 DEF Counted
    <3> QED
      BY <1>1, <1>2, <1>4, <2>1, <2>6, <3>2 DEF Counted
  <2>8. Cleared'
    BY <1>1, <1>2, <2>1, <2>6 DEF Cleared
  <2>9. SleepersJustified'
    <3>1. MustWait'
      BY <1>2, <1>6, <2>1 DEF MustWait
    <3>2. outstanding > 0 \/ committing
      <4>1. SUFFICES ASSUME outstanding = 0, ~committing PROVE FALSE
        BY <1>5
      <4>2. lh = << >>
        BY <1>1, <1>4, <4>1 DEF Cleared
      <4>3. Len(lh) = 0
        BY <4>2
      <4>4. Len(lh) + (outstanding + 1) * MAXOPBLOCKS > LOGSIZE
        BY <1>6, <4>1 DEF MustWait
      <4>5. PICK m \in Nat : m = MAXOPBLOCKS /\ m <= LOGSIZE /\ LOGSIZE \in Nat
        BY LogAssumption
      <4>6. (0 + 1) * m = m
        OBVIOUS
      <4>7. 0 + m > LOGSIZE
        BY <4>1, <4>3, <4>4, <4>5, <4>6
      <4> QED
        BY <4>5, <4>7
    <3> QED
      BY <1>2, <2>1, <3>1, <3>2 DEF SleepersJustified
  <2> QED
    BY <2>2, <2>5, <2>7, <2>8, <2>9 DEF Sound
<1>7. CASE ~MustWait
  <2>1. outstanding' = outstanding + 1 /\ Then(p, << >>) /\ asleep' = asleep
    BY <1>7 DEF begin_op
  <2>2. asleep = {} /\ ~committing
    BY <1>1, <1>7 DEF SleepersJustified, MustWait
  <2>3. code[p][1][1] \notin Low \cup {"bread", "brelse"}
    BY <1>3 DEF Low
  <2>4. /\ Cache' /\ Programs' /\ code' \in [Procs -> Seq(Instrs)]
        /\ \A q \in Procs : q # p => code'[q] = code[q]
        /\ ~At(p, "begin")'
    BY <1>1, <1>2, <1>3, <2>1, <2>3, QuietStep
  <2>5. LastOp(code'[p]) = "end"
    BY <1>1, <1>2, <1>3, <2>1, <2>3, QuietStep
  <2>6. \A h : Matches(code[p], h) => Matches(code'[p], h)
    BY <1>1, <1>2, <1>3, <2>1, <2>3, QuietStep
  <2>7. \A o \in {"clear", "read_head"} : Has(p, o)' <=> Has(p, o)
    BY <1>1, <1>2, <1>3, <2>1, <2>3, QuietStep
  <2>8. CopiesMatch'
    BY <1>1, <1>2, <2>4, <2>6 DEF CopiesMatch
  <2>9. InOp(p)' /\ ~Finishing(p)'
    BY <2>4, <2>5 DEF InOp, Finishing
  <2>10. \A q \in Procs : q # p =>
           /\ InOp(q)' <=> InOp(q)
           /\ Finishing(q)' <=> Finishing(q)
           /\ LastOp(code'[q]) = LastOp(code[q])
           /\ \A o \in {"clear", "read_head"} : Has(q, o)' <=> Has(q, o)
    BY <2>4, Elsewhere
  <2>11. outstanding' = Cardinality({q \in Procs : InOp(q)'})
    <3>1. PICK S : S = {q \in Procs : InOp(q)}
      OBVIOUS
    <3>2. IsFiniteSet(S) /\ outstanding = Cardinality(S) /\ p \notin S
      BY <1>1, <1>4, <3>1, Outstanding DEF Counted
    <3>3. {q \in Procs : InOp(q)'} = S \cup {p}
      BY <2>9, <2>10, <3>1
    <3>4. Cardinality(S \cup {p}) = Cardinality(S) + 1
      BY <3>2, FS_AddElement
    <3> QED
      BY <2>1, <3>2, <3>3, <3>4
  <2>12. Counted'
    <3>1. \A q \in Procs : LastOp(code'[q]) \in {"done", "up"} => q # p
      BY <2>5
    <3>2. committing' <=> \E q \in Procs : LastOp(code'[q]) = "done"
      BY <1>1, <1>2, <1>3, <2>10, <3>1 DEF Counted
    <3>3. \A q, r \in Procs : Finishing(q)' /\ Finishing(r)' => q = r
      BY <1>1, <2>9, <2>10 DEF Counted
    <3>4. up' /\ \A q \in Procs : LastOp(code'[q]) # "up"
      BY <1>1, <1>2, <1>4, <2>10, <3>1 DEF Counted
    <3> QED
      BY <1>2, <2>2, <2>11, <3>2, <3>3, <3>4 DEF Counted
  <2>13. Cleared'
    <3>1. outstanding' # 0
      BY <1>5, <2>1
    <3>2. \A q \in Procs : Finishing(q)' /\ ~Has(q, "clear")' => lh = << >>
      BY <1>1, <2>9, <2>10 DEF Cleared
    <3>3. \A q \in Procs : Has(q, "read_head")' => lh = << >>
      BY <1>1, <2>7, <2>10 DEF Cleared
    <3> QED
      BY <1>2, <3>1, <3>2, <3>3 DEF Cleared
  <2>14. SleepersJustified'
    BY <2>1, <2>2 DEF SleepersJustified
  <2> QED
    BY <2>4, <2>8, <2>12, <2>13, <2>14 DEF Sound
<1> QED
  BY <1>6, <1>7

\* The last operation to end starts a commit.
LEMMA LastEndSound ==
  ASSUME LInv, NEW p \in Procs, end_op(p), LastOne
  PROVE  Sound' /\ code' \in [Procs -> Seq(Instrs)]
<1>1. Typed /\ Programs /\ CopiesMatch /\ Cache /\ Counted /\ Cleared /\ SleepersJustified
  BY DEF LInv
<1>2. /\ At(p, "end") /\ buf' = buf /\ idequeue' = idequeue /\ lh' = lh /\ up' = up
      /\ outstanding' = outstanding - 1 /\ committing' = TRUE /\ outstanding = 1
  BY DEF end_op, LastOne
<1>3. /\ code[p] # << >> /\ code[p] \in Seq(Instrs) /\ code[p][1][1] = "end"
      /\ Len(code[p]) = 1 /\ LastOp(code[p]) = "end"
  BY <1>1, <1>2, FirstAt
<1>4. InOp(p)
  BY <1>2, <1>3 DEF InOp, At
<1>5. up /\ ~committing /\ \A q \in Procs : ~Finishing(q)
  <2>1. up /\ ~committing
    BY <1>1, <1>2 DEF Counted
  <2> QED
    BY <1>1, <2>1 DEF Counted, Finishing
<1>6. PICK s : s = LastProgram
  OBVIOUS
<1>7. Then(p, s)
  BY <1>6 DEF end_op, LastProgram
<1>8. /\ s \in Seq(Instrs) /\ s # << >> /\ Head(s) = s[1]
      /\ s[1][1] \in {"write_log", "done"} /\ LastOp(s) = "done"
  BY <1>6, CommitCode
<1>9. /\ Balanced(s) /\ Ordered(s) /\ \A b \in Blocks : ~Open(s, 1, b)
  BY <1>6, CommitCode
<1>10. /\ lh # << >> => HasOp(s, "clear")
       /\ ~HasOp(s, "read_head") /\ \A h : Matches(s, h)
  BY <1>6, CommitCode
<1>11. /\ code' \in [Procs -> Seq(Instrs)] /\ code'[p] = s
       /\ \A q \in Procs : q # p => code'[q] = code[q]
  <2>1. /\ code' \in [Procs -> Seq(Instrs)] /\ code'[p] = s \o Tail(code[p])
        /\ \A q \in Procs : q # p => code'[q] = code[q]
    BY <1>1, <1>3, <1>7, <1>8, Stepped
  <2>2. s \o Tail(code[p]) = s
    BY <1>3, <1>8, LastBehind
  <2> QED
    BY <2>1, <2>2
<1>12. \A q \in Procs : q # p =>
         /\ ~InOp(q)'
         /\ LastOp(code'[q]) = LastOp(code[q])
         /\ ~Finishing(q)'
         /\ \A o : Has(q, o)' <=> Has(q, o)
  <2>1. \A q \in Procs : q # p => ~InOp(q)
    BY <1>1, <1>2, <1>4, Outstanding
  <2> QED
    BY <1>5, <1>11, <2>1, Elsewhere
<1>13. LastOp(code'[p]) = "done" /\ ~InOp(p)' /\ Finishing(p)'
  BY <1>8, <1>11 DEF InOp, Finishing
<1>14. Programs' /\ CopiesMatch'
  <2>1. \A q \in Procs : Balanced(code'[q]) /\ Ordered(code'[q]) /\ Matches(code'[q], lh)
    BY <1>1, <1>9, <1>10, <1>11 DEF Programs, CopiesMatch
  <2> QED
    BY <1>2, <2>1 DEF Programs, CopiesMatch
<1>15. Cache'
  <2>1. \A o \in Low : ~At(p, o) /\ ~At(p, o)'
    <3>1. \A o \in Low : ~At(p, o)
      BY <1>2 DEF At, Low
    <3>2. \A o : At(p, o)' => o \in {"write_log", "done"}
      BY <1>8, <1>11 DEF At
    <3> QED
      BY <3>1, <3>2 DEF Low
  <2>2. \A b \in Blocks : ~Owes(p, b)
    <3>1. code[p][1][1] \in Bare
      BY <1>3 DEF Bare
    <3> QED
      BY <1>1, <1>3, <3>1, OwesNext
  <2>3. \A b \in Blocks : ~Owes(p, b)'
    BY <1>9, <1>11 DEF Owes
  <2> QED
    BY <1>1, <1>2, <1>11, <2>1, <2>2, <2>3, CacheSame
<1>16. Counted'
  <2>1. {q \in Procs : InOp(q)'} = {}
    BY <1>12, <1>13
  <2>2. outstanding' = Cardinality({q \in Procs : InOp(q)'}) /\ outstanding' = 0
    BY <1>2, <2>1, FS_EmptySet
  <2>3. \A q, r \in Procs : Finishing(q)' /\ Finishing(r)' => q = r
    BY <1>12
  <2>4. up' /\ \A q \in Procs : LastOp(code'[q]) # "up"
    BY <1>1, <1>2, <1>5, <1>12, <1>13 DEF Counted
  <2> QED
    BY <1>2, <1>13, <2>2, <2>3, <2>4 DEF Counted
<1>17. Cleared'
  <2>1. \A q \in Procs : Finishing(q)' /\ ~Has(q, "clear")' => lh' = << >>
    BY <1>2, <1>10, <1>11, <1>12 DEF Has
  <2>2. \A q \in Procs : Has(q, "read_head")' => lh' = << >>
    BY <1>1, <1>2, <1>10, <1>11, <1>12 DEF Cleared, Has
  <2> QED
    BY <1>2, <2>1, <2>2 DEF Cleared
<1>18. SleepersJustified'
  BY <1>2 DEF SleepersJustified, MustWait
<1> QED
  BY <1>11, <1>14, <1>15, <1>16, <1>17, <1>18 DEF Sound

\* An operation ends while others go on, and everybody in begin_op is woken.
LEMMA EndSound ==
  ASSUME LInv, NEW p \in Procs, end_op(p), ~LastOne
  PROVE  Sound' /\ code' \in [Procs -> Seq(Instrs)]
<1>1. Typed /\ Programs /\ CopiesMatch /\ Cache /\ Counted /\ Cleared /\ SleepersJustified
  BY DEF LInv
<1>2. /\ At(p, "end") /\ buf' = buf /\ idequeue' = idequeue /\ lh' = lh /\ up' = up
      /\ outstanding' = outstanding - 1 /\ committing' = committing /\ outstanding # 1
      /\ asleep' = {} /\ Then(p, << >>)
  BY DEF end_op, LastOne, Woken
<1>3. /\ code[p] # << >> /\ code[p][1][1] = "end"
      /\ Len(code[p]) = 1 /\ LastOp(code[p]) = "end"
  BY <1>1, <1>2, FirstAt
<1>4. InOp(p) /\ outstanding \in Nat /\ outstanding > 0
  <2>1. InOp(p)
    BY <1>2, <1>3 DEF InOp, At
  <2> QED
    BY <1>1, <2>1, Outstanding
<1>5. up /\ ~committing /\ \A q \in Procs : ~Finishing(q)
  <2>1. up /\ ~committing
    BY <1>1, <1>4 DEF Counted
  <2> QED
    BY <1>1, <2>1 DEF Counted, Finishing
<1>6. code[p][1][1] \notin Low \cup {"bread", "brelse"}
  BY <1>3 DEF Low
<1>7. /\ Cache' /\ Programs' /\ code' \in [Procs -> Seq(Instrs)]
      /\ \A q \in Procs : q # p => code'[q] = code[q]
  BY <1>1, <1>2, <1>3, <1>6, QuietStep
<1>8. LastOp(code'[p]) \notin {"end", "done", "up"}
  BY <1>1, <1>2, <1>3, <1>6, QuietStep
<1>9. \A h : Matches(code[p], h) => Matches(code'[p], h)
  BY <1>1, <1>2, <1>3, <1>6, QuietStep
<1>10. \A o \in {"clear", "read_head"} : Has(p, o)' <=> Has(p, o)
  BY <1>1, <1>2, <1>3, <1>6, QuietStep
<1>11. CopiesMatch'
  BY <1>1, <1>2, <1>7, <1>9 DEF CopiesMatch
<1>12. ~InOp(p)' /\ ~Finishing(p)'
  BY <1>8 DEF InOp, Finishing
<1>13. \A q \in Procs : q # p =>
         /\ InOp(q)' <=> InOp(q)
         /\ Finishing(q)' <=> Finishing(q)
         /\ LastOp(code'[q]) = LastOp(code[q])
         /\ \A o \in {"clear", "read_head"} : Has(q, o)' <=> Has(q, o)
  BY <1>7, Elsewhere
<1>14. outstanding' = Cardinality({q \in Procs : InOp(q)'})
  <2>1. PICK S : S = {q \in Procs : InOp(q)}
    OBVIOUS
  <2>2. IsFiniteSet(S) /\ outstanding = Cardinality(S) /\ p \in S
    BY <1>1, <1>4, <2>1, Outstanding DEF Counted
  <2>3. {q \in Procs : InOp(q)'} = S \ {p}
    BY <1>12, <1>13, <2>1
  <2>4. Cardinality(S \ {p}) = Cardinality(S) - 1
    BY <2>2, FS_RemoveElement
  <2> QED
    BY <1>2, <2>2, <2>3, <2>4
<1>15. Counted'
  <2>1. \A q \in Procs : LastOp(code'[q]) # "done" /\ LastOp(code'[q]) # "up"
    BY <1>5, <1>8, <1>13 DEF Finishing
  <2> QED
    BY <1>2, <1>5, <1>12, <1>13, <1>14, <2>1 DEF Counted
<1>16. Cleared'
  <2>1. outstanding' # 0
    BY <1>2, <1>4
  <2>2. \A q \in Procs : ~Finishing(q)'
    BY <1>5, <1>12, <1>13
  <2>3. \A q \in Procs : Has(q, "read_head")' => lh = << >>
    BY <1>1, <1>10, <1>13 DEF Cleared
  <2> QED
    BY <1>2, <2>1, <2>2, <2>3 DEF Cleared
<1>17. SleepersJustified'
  BY <1>2 DEF SleepersJustified
<1> QED
  BY <1>7, <1>11, <1>15, <1>16, <1>17 DEF Sound

\* log_write fills the buffer of a block and records the block.
LEMMA LogWriteSound ==
  ASSUME LInv, NEW p \in Procs, log_write(p)
  PROVE  Sound' /\ code' \in [Procs -> Seq(Instrs)] /\ lh' \in Headers
<1>1. Typed /\ Programs /\ CopiesMatch /\ Cache /\ Counted /\ Cleared /\ SleepersJustified
  BY DEF LInv
<1>2. /\ At(p, "log_write") /\ idequeue' = idequeue /\ ~TooBig /\ ~OutsideTrans /\ Then(p, << >>)
      /\ UNCHANGED <<outstanding, committing, asleep, up>>
  BY DEF log_write
<1>3. /\ code[p] # << >> /\ code[p][1][1] = "log_write"
      /\ Len(code[p]) # 1 /\ LastOp(code[p]) = "end"
  BY <1>1, <1>2, FirstAt
<1>4. Arg(p) \in Homes /\ Arg(p) \in Blocks
  BY <1>1, <1>2, ArgType, LogAssumption
<1>5. PICK b \in Homes : b = Arg(p) /\ b \in Blocks
  BY <1>4
<1>6. Owes(p, b) /\ \A i \in Bufs : ~Asks(p, i)
  <2>1. Owes(p, b)
    BY <1>1, <1>2, <1>3, <1>5, OwesNext
  <2> QED
    BY <1>2, <2>1 DEF Asks, At
<1>7. PICK i \in Bufs : i = Held(p, b) /\ buf[i].blockno = b /\ buf[i].lock = p
  BY <1>1, <1>5, <1>6, HeldIs
<1>8. PICK data : StoreIn(i, data)
  BY <1>5, <1>7 DEF log_write, StoreIn
<1>9. PICK s : s = << >> /\ Then(p, s)
  BY <1>2
<1>10. Cache' /\ Programs' /\ code' \in [Procs -> Seq(Instrs)]
  BY <1>1, <1>2, <1>3, <1>5, <1>7, <1>8, <1>9, StoreCache
<1>11. Calm(p)
  BY <1>1, <1>3, <1>9, CalmPlain
<1>12. outstanding \in Nat /\ outstanding > 0 /\ up /\ ~committing
  <2>1. outstanding \in Nat /\ outstanding > 0
    BY <1>1, <1>2, Outstanding DEF OutsideTrans
  <2> QED
    BY <1>1, <2>1 DEF Counted
<1>13. \A q \in Procs : ~Finishing(q)
  BY <1>1, <1>12 DEF Counted, Finishing
<1>14. \A q \in Procs :
         /\ LastOp(code'[q]) = "done" <=> LastOp(code[q]) = "done"
         /\ LastOp(code'[q]) = "up" <=> LastOp(code[q]) = "up"
         /\ InOp(q)' <=> InOp(q)
         /\ Finishing(q)' <=> Finishing(q)
         /\ Has(q, "read_head")' <=> Has(q, "read_head")
  <2> TAKE q \in Procs
  <2>1. CASE q = p
    <3>1. /\ \A o \in {"end", "done", "up"} : LastOp(code'[p]) = o <=> LastOp(code[p]) = o
          /\ ~At(p, "begin") /\ ~At(p, "begin")'
          /\ HasOp(code'[p], "read_head") <=> HasOp(code[p], "read_head")
      BY <1>11 DEF Calm
    <3> QED
      BY <2>1, <3>1 DEF InOp, Finishing, Has
  <2>2. CASE q # p
    <3>1. code'[q] = code[q]
      BY <1>11, <2>2 DEF Calm
    <3> QED
      BY <3>1, Elsewhere
  <2> QED
    BY <2>1, <2>2
<1>15. Counted'
  BY <1>1, <1>2, <1>12, <1>14, CountedSame
<1>16. lh \in Headers /\ lh \in Seq(Homes) /\ Len(lh) \in Nat
  BY <1>1, LenProperties DEF Typed, Headers
<1>17. lh' = lh \/ (lh' = Append(lh, b) /\ \A k \in 1 .. Len(lh) : lh[k] # b)
  BY <1>5 DEF log_write
<1>18. lh' \in Headers /\ Len(lh') \in Nat /\ Len(lh') >= Len(lh)
  <2>1. CASE lh' = lh
    BY <1>16, <2>1
  <2>2. CASE lh' = Append(lh, b) /\ \A k \in 1 .. Len(lh) : lh[k] # b
    <3>1. /\ lh' \in Seq(Homes) /\ Len(lh') = Len(lh) + 1 /\ lh'[Len(lh) + 1] = b
          /\ \A k \in 1 .. Len(lh) : lh'[k] = lh[k]
      BY <1>16, <2>2, AppendProperties
    <3>2. PICK n \in Nat : n = Len(lh)
      BY <1>16
    <3>3. n + 1 <= Len(LogBlocks)
      <4>1. ~(n >= nlog - 1) /\ Len(LogBlocks) = nlog - 1 /\ nlog \in Nat
        BY <1>2, <3>2, LogAssumption DEF TooBig
      <4> QED
        BY <4>1
    <3>4. ASSUME NEW k \in 1 .. n + 1, NEW m \in 1 .. n + 1, lh'[k] = lh'[m] PROVE k = m
      <4>1. \A x \in 1 .. n + 1 : x \in 1 .. n \/ x = n + 1
        OBVIOUS
      <4>2. \A x, y \in 1 .. n : lh[x] = lh[y] => x = y
        BY <1>16, <3>2 DEF Headers
      <4>3. \A x \in 1 .. n : lh'[x] = lh[x] /\ lh[x] # b
        BY <2>2, <3>1, <3>2
      <4>4. lh'[n + 1] = b
        BY <3>1, <3>2
      <4> QED
        BY <3>4, <4>1, <4>2, <4>3, <4>4
    <3>5. Len(lh') = n + 1
      BY <3>1, <3>2
    <3> QED
      BY <3>1, <3>2, <3>3, <3>4, <3>5 DEF Headers
  <2> QED
    BY <1>17, <2>1, <2>2
<1>19. CopiesMatch'
  <2>1. ASSUME NEW q \in Procs PROVE Matches(code'[q], lh')
    <3>1. code'[q] \in Seq(Instrs) /\ Ordered(code'[q])
      BY <1>10 DEF Programs
    <3>2. LastOp(code'[q]) \notin {"done", "up"}
      BY <1>13, <1>14 DEF Finishing
    <3> QED
      BY <3>1, <3>2, NoCopies
  <2> QED
    BY <2>1 DEF CopiesMatch
<1>20. Cleared'
  <2>1. \A q \in Procs : ~Has(q, "read_head")
    BY <1>1, <1>13, HeadReader
  <2> QED
    BY <1>2, <1>12, <1>13, <1>14, <2>1 DEF Cleared
<1>21. SleepersJustified'
  <2>1. asleep # {} => MustWait
    BY <1>1 DEF SleepersJustified
  <2>2. MustWait => MustWait'
    <3>1. PICK x \in Int : x = (outstanding + 1) * MAXOPBLOCKS
      BY <1>12, LogAssumption
    <3>2. Len(lh) + x > LOGSIZE => Len(lh') + x > LOGSIZE
      BY <1>16, <1>18, LogAssumption
    <3> QED
      BY <1>2, <3>1, <3>2 DEF MustWait
  <2> QED
    BY <1>2, <1>12, <2>1, <2>2 DEF SleepersJustified
<1> QED
  BY <1>10, <1>15, <1>18, <1>19, <1>20, <1>21 DEF Sound

\* The log is emptied, in memory, once its blocks are installed.
LEMMA ClearSound ==
  ASSUME LInv, NEW p \in Procs, Clear(p)
  PROVE  Sound' /\ code' \in [Procs -> Seq(Instrs)]
<1>1. Typed /\ Programs /\ CopiesMatch /\ Cache /\ Counted /\ Cleared /\ SleepersJustified
  BY DEF LInv
<1>2. /\ At(p, "clear") /\ buf' = buf /\ idequeue' = idequeue /\ lh' = << >> /\ Then(p, << >>)
      /\ UNCHANGED <<outstanding, committing, asleep, up>>
  BY DEF Clear
<1>3. /\ code[p] # << >> /\ code[p] \in Seq(Instrs) /\ code[p][1][1] = "clear"
      /\ Len(code[p]) # 1 /\ LastOp(code[p]) \in {"done", "up"}
  BY <1>1, <1>2, FirstAt
<1>4. code[p][1][1] \notin Low \cup {"bread", "brelse"}
  BY <1>3 DEF Low
<1>5. /\ Cache' /\ Programs' /\ code' \in [Procs -> Seq(Instrs)]
      /\ \A q \in Procs : q # p => code'[q] = code[q]
      /\ ~At(p, "begin")'
  BY <1>1, <1>2, <1>3, <1>4, QuietStep
<1>6. LastOp(code'[p]) = LastOp(code[p])
  BY <1>1, <1>2, <1>3, <1>4, QuietStep
<1>7. \A h : Matches(code[p], h) => Matches(code'[p], h)
  BY <1>1, <1>2, <1>3, <1>4, QuietStep
<1>8. \A q \in Procs : q # p => ~Finishing(q)
  BY <1>1, <1>3 DEF Counted, Finishing
<1>9. CopiesMatch'
  <2>1. ASSUME NEW q \in Procs PROVE Matches(code'[q], << >>)
    <3>1. code[q] \in Seq(Instrs) /\ Ordered(code[q])
      BY <1>1, First DEF Programs
    <3>2. CASE q = p
      <4>1. Matches(code[p], << >>)
        BY <1>3, <3>1, <3>2, NoCopies
      <4> QED
        BY <1>7, <3>2, <4>1
    <3>3. CASE q # p
      <4>1. LastOp(code[q]) \notin {"done", "up"} /\ code'[q] = code[q]
        BY <1>5, <1>8, <3>3 DEF Finishing
      <4> QED
        BY <3>1, <4>1, NoCopies
    <3> QED
      BY <3>2, <3>3
  <2> QED
    BY <1>2, <2>1 DEF CopiesMatch
<1>10. Counted'
  <2>1. \A q \in Procs :
          /\ InOp(q)' <=> InOp(q)
          /\ LastOp(code'[q]) = LastOp(code[q])
          /\ code'[q] # << >> => code[q] # << >>
    <3>1. InOp(p)' <=> InOp(p)
      BY <1>2, <1>3, <1>6 DEF InOp
    <3>2. \A q \in Procs : q # p => /\ InOp(q)' <=> InOp(q)
                                    /\ LastOp(code'[q]) = LastOp(code[q])
      BY <1>5, Elsewhere
    <3> QED
      BY <1>3, <1>5, <1>6, <3>1, <3>2
  <2> QED
    BY <1>1, <1>2, <2>1, CountedSame
<1>11. Cleared'
  BY <1>2 DEF Cleared
<1>12. SleepersJustified'
  <2>1. LastOp(code[p]) = "done" => committing
    BY <1>1 DEF Counted
  <2>2. LastOp(code[p]) = "up" => asleep = {}
    BY <1>1 DEF Counted
  <2> QED
    BY <1>2, <1>3, <2>1, <2>2 DEF SleepersJustified, MustWait
<1> QED
  BY <1>5, <1>9, <1>10, <1>11, <1>12 DEF Sound

\* Recovery reads which blocks are in the log.
LEMMA ReadHeadSound ==
  ASSUME LInv, NEW p \in Procs, read_head(p)
  PROVE  Sound' /\ code' \in [Procs -> Seq(Instrs)] /\ lh' \in Headers
<1>1. Typed /\ Programs /\ CopiesMatch /\ Cache /\ Counted /\ Cleared /\ SleepersJustified
  BY DEF LInv
<1>2. /\ At(p, "read_head") /\ buf' = buf /\ idequeue' = idequeue /\ Then(p, << >>)
      /\ UNCHANGED <<outstanding, committing, asleep, up>> /\ lh' = buf[Held(p, Header)].data
  BY DEF read_head
<1>3. /\ code[p] # << >> /\ code[p] \in Seq(Instrs) /\ code[p][1][1] = "read_head"
      /\ Len(code[p]) # 1 /\ LastOp(code[p]) = "up"
  BY <1>1, <1>2, FirstAt
<1>4. /\ \E k \in 2 .. Len(code[p]) : code[p][k][1] = "clear"
      /\ \A k \in 2 .. Len(code[p]) : code[p][k][1] # "read_head"
  BY <1>1, <1>2, FirstAt
<1>5. code[p][1][1] \notin Low \cup {"bread", "brelse"}
  BY <1>3 DEF Low
<1>6. /\ Cache' /\ Programs' /\ code' \in [Procs -> Seq(Instrs)]
      /\ \A q \in Procs : q # p => code'[q] = code[q]
      /\ ~At(p, "begin")'
  BY <1>1, <1>2, <1>3, <1>5, QuietStep
<1>7. LastOp(code'[p]) = LastOp(code[p])
  BY <1>1, <1>2, <1>3, <1>5, QuietStep
<1>8. \A h : Matches(code[p], h) => Matches(code'[p], h)
  BY <1>1, <1>2, <1>3, <1>5, QuietStep
<1>9. Has(p, "clear")' /\ ~Has(p, "read_head")'
  <2>1. \A o \in {"clear", "read_head"} :
          HasOp(code'[p], o) <=> \E k \in 2 .. Len(code[p]) : code[p][k][1] = o
    BY <1>1, <1>2, <1>3, <1>5, QuietStep
  <2> QED
    BY <1>4, <2>1 DEF Has
<1>10. ~up /\ asleep = {} /\ \A q \in Procs : q # p => code[q] = << >> /\ ~Finishing(q)
  <2>1. ~up
    BY <1>1, <1>3 DEF Counted
  <2>2. \A q \in Procs : q # p => ~Finishing(q)
    BY <1>1, <1>3 DEF Counted, Finishing
  <2>3. asleep = {} /\ \A q \in Procs : code[q] # << >> => Finishing(q)
    BY <1>1, <2>1 DEF Counted, Finishing
  <2> QED
    BY <2>1, <2>2, <2>3
<1>11. \A q \in Procs : q # p => ~Finishing(q)' /\ ~Has(q, "read_head")'
  <2>1. ASSUME NEW q \in Procs, q # p PROVE ~Finishing(q)' /\ ~Has(q, "read_head")'
    <3>1. (Finishing(q)' <=> Finishing(q)) /\ (Has(q, "read_head")' <=> Has(q, "read_head"))
      BY <1>6, <2>1, Elsewhere
    <3>2. ~Has(q, "read_head")
      BY <1>1, <1>10, <2>1, HeadReader
    <3> QED
      BY <1>10, <2>1, <3>1, <3>2
  <2> QED
    BY <2>1
<1>12. lh' \in Headers
  <2>1. Header \in Blocks
    BY LogAssumption
  <2>2. Owes(p, Header)
    BY <1>1, <1>2, <1>3, <2>1, OwesNext
  <2>3. \A i \in Bufs : ~Asks(p, i) /\ ~Queues(p, i) /\ ~Awaits(p, i)
    BY <1>2 DEF Asks, Queues, Awaits, At
  <2>4. PICK i \in Bufs : i = Held(p, Header) /\ buf[i].blockno = Header /\ buf[i].lock = p
    BY <1>1, <2>1, <2>2, <2>3, HeldIs
  <2>5. buf[i].valid
    BY <1>1, <2>3, <2>4 DEF Cache, Locked
  <2>6. buf[i].data \in Headers
    BY <1>1, <2>4, <2>5 DEF Typed
  <2> QED
    BY <1>2, <2>4, <2>6
<1>13. CopiesMatch'
  <2>1. ASSUME NEW q \in Procs PROVE Matches(code'[q], lh')
    <3>1. code[q] \in Seq(Instrs) /\ Ordered(code[q])
      BY <1>1, First DEF Programs
    <3>2. CASE q = p
      <4>1. \A h : Matches(code[p], h)
        BY <1>3, <3>1, <3>2, NoCopies
      <4> QED
        BY <1>8, <3>2, <4>1
    <3>3. CASE q # p
      <4>1. LastOp(code[q]) \notin {"done", "up"} /\ code'[q] = code[q]
        BY <1>6, <1>10, <3>3 DEF Finishing
      <4> QED
        BY <3>1, <4>1, NoCopies
    <3> QED
      BY <3>2, <3>3
  <2> QED
    BY <2>1 DEF CopiesMatch
<1>14. Counted'
  <2>1. \A q \in Procs :
          /\ InOp(q)' <=> InOp(q)
          /\ LastOp(code'[q]) = LastOp(code[q])
          /\ code'[q] # << >> => code[q] # << >>
    <3>1. InOp(p)' <=> InOp(p)
      BY <1>2, <1>3, <1>7 DEF InOp
    <3>2. \A q \in Procs : q # p => /\ InOp(q)' <=> InOp(q)
                                    /\ LastOp(code'[q]) = LastOp(code[q])
      BY <1>6, Elsewhere
    <3> QED
      BY <1>3, <1>6, <1>7, <3>1, <3>2
  <2> QED
    BY <1>1, <1>2, <2>1, CountedSame
<1>15. Cleared'
  BY <1>2, <1>9, <1>10, <1>11 DEF Cleared
<1>16. SleepersJustified'
  BY <1>2, <1>10 DEF SleepersJustified
<1> QED
  BY <1>6, <1>12, <1>13, <1>14, <1>15, <1>16 DEF Sound

\* A commit or recovery is over: the log is empty.
LEMMA OverSound ==
  ASSUME LInv, NEW p \in Procs, Done(p) \/ Recovered(p)
  PROVE  Sound' /\ code' \in [Procs -> Seq(Instrs)]
<1>1. Typed /\ Programs /\ CopiesMatch /\ Cache /\ Counted /\ Cleared /\ SleepersJustified
  BY DEF LInv
<1>2. PICK o \in {"done", "up"} :
        /\ At(p, o) /\ buf' = buf /\ idequeue' = idequeue /\ lh' = lh /\ Then(p, << >>)
        /\ outstanding' = outstanding
        /\ o = "done" => committing' = FALSE /\ asleep' = {} /\ up' = up
        /\ o = "up" => up' = TRUE /\ committing' = committing /\ asleep' = asleep
  BY DEF Done, Recovered, Woken
<1>3. /\ code[p] # << >> /\ code[p][1][1] = o
      /\ Len(code[p]) = 1 /\ LastOp(code[p]) = o
      /\ \A x : HasOp(code[p], x) <=> x = o
  BY <1>1, <1>2, FirstAt
<1>4. code[p][1][1] \notin Low \cup {"bread", "brelse"}
  BY <1>3 DEF Low
<1>5. /\ Cache' /\ Programs' /\ code' \in [Procs -> Seq(Instrs)]
      /\ \A q \in Procs : q # p => code'[q] = code[q]
  BY <1>1, <1>2, <1>3, <1>4, QuietStep
<1>6. LastOp(code'[p]) \notin {"end", "done", "up"}
  BY <1>1, <1>2, <1>3, <1>4, QuietStep
<1>7. \A h : Matches(code[p], h) => Matches(code'[p], h)
  BY <1>1, <1>2, <1>3, <1>4, QuietStep
<1>8. CopiesMatch'
  BY <1>1, <1>2, <1>5, <1>7 DEF CopiesMatch
<1>9. lh = << >>
  <2>1. Finishing(p) /\ ~Has(p, "clear")
    BY <1>3 DEF Finishing, Has
  <2> QED
    BY <1>1, <2>1 DEF Cleared
<1>10. \A q \in Procs : q # p => ~Finishing(q)
  BY <1>1, <1>3 DEF Counted, Finishing
<1>11. \A q \in Procs : LastOp(code'[q]) \notin {"done", "up"} /\ ~Finishing(q)'
  <2>1. \A q \in Procs : q # p => LastOp(code'[q]) \notin {"done", "up"}
    BY <1>5, <1>10 DEF Finishing
  <2> QED
    BY <1>6, <2>1 DEF Finishing
<1>12. outstanding = 0
  BY <1>1, <1>3 DEF Counted
<1>13. up' /\ ~committing' /\ asleep' = {}
  BY <1>1, <1>2, <1>3 DEF Counted
<1>14. Counted'
  <2>1. ~InOp(p) /\ ~InOp(p)'
    BY <1>3, <1>6 DEF InOp
  <2>2. \A q \in Procs : q # p => (InOp(q)' <=> InOp(q))
    BY <1>5, Elsewhere
  <2>3. {q \in Procs : InOp(q)'} = {q \in Procs : InOp(q)}
    BY <2>1, <2>2
  <2>4. outstanding' = Cardinality({q \in Procs : InOp(q)'})
    BY <1>1, <1>2, <2>3 DEF Counted
  <2> QED
    BY <1>11, <1>13, <2>4 DEF Counted
<1>15. Cleared'
  BY <1>2, <1>9 DEF Cleared
<1>16. SleepersJustified'
  BY <1>13 DEF SleepersJustified
<1> QED
  BY <1>5, <1>8, <1>14, <1>15, <1>16 DEF Sound

\* An idle process finds something to do.
LEMMA StartSound ==
  ASSUME LInv, NEW p \in Procs, Start(p)
  PROVE  Sound' /\ code' \in [Procs -> Seq(Instrs)]
<1>1. Typed /\ Programs /\ CopiesMatch /\ Cache /\ Counted /\ Cleared /\ SleepersJustified
  BY DEF LInv
<1>2. /\ up /\ code[p] = << >> /\ buf' = buf /\ idequeue' = idequeue
      /\ UNCHANGED <<outstanding, committing, lh, asleep, up>>
  BY DEF Start, logVars
<1>3. PICK s : /\ \/ \E w \in Writes, v \in Values : s = Operation(w, v)
                  \/ \E b \in Homes : s = <<<<"bread", b>>, <<"brelse", b>>>>
               /\ code' = [code EXCEPT ![p] = s]
  BY DEF Start
<1>4. /\ s \in Seq(Instrs) /\ s # << >> /\ Head(s) = s[1]
      /\ s[1][1] \in {"begin", "bread"} /\ LastOp(s) \notin {"done", "up"}
      /\ s[1][1] = "begin" \/ LastOp(s) # "end"
  BY <1>3, StartCode
<1>5. Balanced(s) /\ Ordered(s) /\ \A b \in Blocks : ~Open(s, 1, b)
  BY <1>3, StartCode
<1>6. ~HasOp(s, "read_head") /\ \A h : Matches(s, h)
  BY <1>3, StartCode
<1>7. /\ code' \in [Procs -> Seq(Instrs)] /\ code'[p] = s
      /\ \A q \in Procs : q # p => code'[q] = code[q]
  <2>1. code \in [Procs -> Seq(Instrs)]
    BY <1>1 DEF Typed
  <2> QED
    BY <1>3, <1>4, <2>1
<1>8. Programs' /\ CopiesMatch'
  <2>1. \A q \in Procs : Balanced(code'[q]) /\ Ordered(code'[q]) /\ Matches(code'[q], lh)
    BY <1>1, <1>5, <1>6, <1>7 DEF Programs, CopiesMatch
  <2> QED
    BY <1>2, <2>1 DEF Programs, CopiesMatch
<1>9. \A o : ~At(p, o) /\ (At(p, o)' <=> s[1][1] = o)
  BY <1>2, <1>4, <1>7 DEF At
<1>10. Cache'
  <2>1. \A o \in Low : ~At(p, o) /\ ~At(p, o)'
    BY <1>4, <1>9 DEF Low
  <2>2. \A b \in Blocks : ~Owes(p, b)
    <3>1. Len(code[p]) = 0
      BY <1>2
    <3> QED
      BY <3>1 DEF Owes, Open
  <2>3. \A b \in Blocks : ~Owes(p, b)'
    BY <1>5, <1>7 DEF Owes
  <2> QED
    BY <1>1, <1>2, <1>7, <2>1, <2>2, <2>3, CacheSame
<1>11. LastOp(code[p]) = "none"
  BY <1>2 DEF LastOp
<1>12. \A q \in Procs :
         /\ InOp(q)' <=> InOp(q)
         /\ LastOp(code'[q]) = "done" <=> LastOp(code[q]) = "done"
         /\ LastOp(code'[q]) = "up" <=> LastOp(code[q]) = "up"
         /\ Finishing(q)' <=> Finishing(q)
  <2>1. ~InOp(p) /\ ~InOp(p)' /\ ~Finishing(p) /\ ~Finishing(p)'
    BY <1>4, <1>7, <1>9, <1>11 DEF InOp, Finishing
  <2>2. \A q \in Procs : q # p => /\ InOp(q)' <=> InOp(q)
                                  /\ LastOp(code'[q]) = LastOp(code[q])
                                  /\ Finishing(q)' <=> Finishing(q)
    BY <1>7, Elsewhere
  <2> QED
    BY <1>4, <1>7, <1>11, <2>1, <2>2
<1>13. Counted'
  BY <1>1, <1>2, <1>12, CountedSame
<1>14. Cleared'
  <2>1. ~Finishing(p)' /\ ~Has(p, "read_head")'
    BY <1>4, <1>6, <1>7 DEF Finishing, Has
  <2>2. \A q \in Procs : q # p => /\ Finishing(q)' <=> Finishing(q)
                                  /\ \A o : Has(q, o)' <=> Has(q, o)
    BY <1>7, Elsewhere
  <2> QED
    BY <1>1, <1>2, <2>1, <2>2 DEF Cleared
<1>15. SleepersJustified'
  BY <1>1, <1>2 DEF SleepersJustified, MustWait
<1> QED
  BY <1>7, <1>8, <1>10, <1>13, <1>14, <1>15 DEF Sound

\* The machine as it starts, the first time or after a crash.
Booted ==
  /\ buf = FreshBufs /\ lru = FreshList /\ idequeue = << >> /\ code = BootCode
  /\ outstanding = 0 /\ committing = FALSE /\ lh = << >> /\ asleep = {} /\ up = FALSE
  /\ disk \in [Blocks -> Contents] /\ disk[Header] \in Headers

\* It satisfies the invariant.
LEMMA BootSound == Booted => LInv
<1> SUFFICES ASSUME Booted PROVE LInv
  OBVIOUS
<1>1. PICK s : s = recover_from_log
  OBVIOUS
<1>2. /\ s \in Seq(Instrs) /\ s # << >> /\ Head(s) = s[1]
      /\ s[1][1] = "bread" /\ LastOp(s) = "up"
  BY <1>1, RecoveryCode
<1>3. Balanced(s) /\ Ordered(s) /\ \A b \in Blocks : ~Open(s, 1, b)
  BY <1>1, RecoveryCode
<1>4. \A h : Matches(s, h)
  BY <1>1, RecoveryCode
<1>5. PICK m : code = [p \in Procs |-> IF p = m THEN s ELSE << >>]
  BY <1>1 DEF Booted, BootCode
<1>6. \A p \in Procs : (p = m /\ code[p] = s) \/ (p # m /\ code[p] = << >>)
  BY <1>5
<1>7. LastOp(<< >>) = "none" /\ \A b : ~Open(<< >>, 1, b)
  BY DEF LastOp, Open
<1>8. \A h : Balanced(<< >>) /\ Ordered(<< >>) /\ Matches(<< >>, h)
  BY DEF Balanced, Ordered, Matches
<1>9. << >> \in Headers
  <2>1. << >> \in Seq(Homes) /\ Len(<< >>) = 0
    OBVIOUS
  <2>2. 0 <= Len(LogBlocks)
    BY LogAssumption, LenProperties
  <2> QED
    BY <2>1, <2>2 DEF Headers
<1>10. \A i \in Bufs : buf[i] = EmptyBuf
  BY DEF Booted, FreshBufs
<1>11. None \notin Blocks /\ None \notin Procs /\ Header \in Blocks
  BY LogAssumption
<1>12. Typed
  <2>1. buf \in [Bufs -> BufRecords]
    <3>1. EmptyBuf \in BufRecords
      BY DEF EmptyBuf, Contents, BufRecords
    <3> QED
      BY <3>1 DEF Booted, FreshBufs
  <2>2. lru \in [Bufs -> Bufs]
    <3>1. \A k \in 1 .. NBUF : NBUF + 1 - k \in 1 .. NBUF
      BY LogAssumption
    <3> QED
      BY <3>1 DEF Booted, FreshList, Bufs
  <2>3. code \in [Procs -> Seq(Instrs)]
    BY <1>2, <1>5
  <2>4. \A i \in Bufs : buf[i].blockno # Header
    BY <1>10, <1>11 DEF EmptyBuf
  <2>5. idequeue \in Seq(Bufs)
    BY DEF Booted
  <2>6. outstanding \in Int /\ committing \in BOOLEAN /\ lh \in Headers
        /\ asleep \subseteq Procs /\ up \in BOOLEAN
    <3>1. outstanding \in Int /\ asleep \subseteq Procs
      BY DEF Booted
    <3>2. lh \in Headers
      BY <1>9 DEF Booted
    <3>3. committing \in BOOLEAN /\ up \in BOOLEAN
      BY Zenon DEF Booted
    <3> QED
      BY <3>1, <3>2, <3>3
  <2> QED
    BY <2>1, <2>2, <2>3, <2>4, <2>5, <2>6 DEF Typed, Booted
<1>13. Programs /\ CopiesMatch
  BY <1>3, <1>4, <1>6, <1>8 DEF Programs, CopiesMatch
<1>14. \A p \in Procs : LastOp(code[p]) \in {"up", "none"} /\ ~InOp(p)
                        /\ (code[p] # << >> => LastOp(code[p]) = "up")
                        /\ (Finishing(p) => p = m) /\ \A b \in Blocks : ~Owes(p, b)
  BY <1>2, <1>3, <1>6, <1>7 DEF InOp, Finishing, Owes
<1>15. \A p \in Procs : \A o : At(p, o) => o = "bread"
  BY <1>2, <1>6 DEF At
<1>16. Cache
  <2>1. \A i \in Bufs : /\ buf[i].blockno = None /\ buf[i].refcnt = 0 /\ ~buf[i].dirty
                        /\ buf[i].lock = None
    BY <1>10 DEF EmptyBuf
  <2>2. UniqueBlocks /\ DirtyValid
    BY <2>1 DEF UniqueBlocks, DirtyValid
  <2>3. \A p \in Procs, i \in Bufs :
          ~Asks(p, i) /\ ~Drops(p, i) /\ ~Queues(p, i) /\ ~Awaits(p, i) /\ ~Uses(p, i)
    BY <1>11, <1>15, <2>1 DEF Asks, Drops, Queues, Awaits, Uses
  <2>4. Referenced
    <3>1. \A i \in Bufs : {p \in Procs : Uses(p, i)} = {}
      BY <2>3
    <3> QED
      BY <2>1, <3>1, FS_EmptySet DEF Referenced
  <2>5. OwedHeld /\ HeldOwed /\ Locked
    BY <1>11, <1>14, <2>1, <2>3 DEF OwedHeld, HeldOwed, Locked
  <2>6. Queued
    <3>1. Len(idequeue) = 0
      BY DEF Booted
    <3> QED
      BY <2>3, <3>1 DEF Queued
  <2> QED
    BY <2>2, <2>4, <2>5, <2>6 DEF Cache
<1>17. Counted
  <2>1. {p \in Procs : InOp(p)} = {}
    BY <1>14
  <2>2. outstanding = Cardinality({p \in Procs : InOp(p)})
    BY <2>1, FS_EmptySet DEF Booted
  <2> QED
    BY <1>14, <2>2 DEF Counted, Booted
<1>18. Cleared /\ SleepersJustified
  BY DEF Cleared, SleepersJustified, Booted
<1> QED
  BY <1>12, <1>13, <1>16, <1>17, <1>18 DEF LInv

-----------------------------------------------------------------------------
(* Types *)

\* A header in the cache is a header.
HeadersCached == \A i \in Bufs : buf[i].blockno = Header /\ buf[i].valid => buf[i].data \in Headers

\* Only the log's variables and programs change.
LEMMA TypedQuiet ==
  ASSUME Typed, buf' = buf, lru' = lru, idequeue' = idequeue, disk' = disk,
         code' \in [Procs -> Seq(Instrs)], outstanding' \in Int, committing' \in BOOLEAN,
         lh' \in Headers, asleep' \subseteq Procs, up' \in BOOLEAN
  PROVE  Typed'
  BY DEF Typed

\* Buffers change.
LEMMA TypedBufs ==
  ASSUME Typed, buf' \in [Bufs -> BufRecords], HeadersCached', lru' \in [Bufs -> Bufs],
         idequeue' \in Seq(Bufs), disk' = disk, code' \in [Procs -> Seq(Instrs)],
         UNCHANGED <<outstanding, committing, asleep, up>>, lh' \in Headers
  PROVE  Typed'
<1>1. disk \in [Blocks -> Contents] /\ disk[Header] \in Headers
  BY DEF Typed
<1>2. outstanding \in Int /\ committing \in BOOLEAN /\ asleep \subseteq Procs /\ up \in BOOLEAN
  BY DEF Typed
<1>3. \A i \in Bufs : buf'[i].blockno = Header /\ buf'[i].valid => buf'[i].data \in Headers
  BY DEF HeadersCached
<1> QED
  BY <1>1, <1>2, <1>3 DEF Typed

\* The list after a buffer is moved to its head.
LEMMA ToFrontType ==
  ASSUME Typed, NEW i \in Bufs
  PROVE  ToFront(i) \in [Bufs -> Bufs]
<1>1. lru \in [Bufs -> Bufs] /\ Bufs = 1 .. NBUF /\ NBUF \in Nat \ {0}
  BY LogAssumption DEF Typed, Bufs
<1>2. PICK n : n = CHOOSE k \in Bufs : lru[k] = i
  OBVIOUS
<1>3. ToFront(i) = [k \in Bufs |-> IF k = 1 THEN i ELSE IF k <= n THEN lru[k - 1] ELSE lru[k]]
  BY <1>2 DEF ToFront
<1>4. \A k \in Bufs : k # 1 => k - 1 \in Bufs
  BY <1>1
<1>5. \A k \in Bufs : (IF k = 1 THEN i ELSE IF k <= n THEN lru[k - 1] ELSE lru[k]) \in Bufs
  BY <1>1, <1>4
<1> QED
  BY <1>3, <1>5

\* A buffer that bget recycles.
LEMMA RecycledType ==
  ASSUME NEW y \in BufRecords, NEW x \in Blocks
  PROVE  [y EXCEPT !.blockno = x, !.valid = FALSE, !.dirty = FALSE, !.refcnt = 1] \in BufRecords
<1>1. PICK z : z = [y EXCEPT !.blockno = x, !.valid = FALSE]
  OBVIOUS
<1>2. z \in BufRecords
  BY <1>1 DEF BufRecords
<1>3. PICK n \in Int : n = 1
  OBVIOUS
<1>4. PICK f : f = [z EXCEPT !.dirty = FALSE]
  OBVIOUS
<1>5. f \in BufRecords
  BY <1>2, <1>4 DEF BufRecords
<1>6. [f EXCEPT !.refcnt = n] \in BufRecords
  BY <1>5 DEF BufRecords
<1> QED
  BY <1>1, <1>3, <1>4, <1>6

\* The ways in which a step changes a buffer.
LEMMA BufsPut ==
  ASSUME buf \in [Bufs -> BufRecords], NEW i \in Bufs,
         \/ \E x \in Int : buf' = [buf EXCEPT ![i].refcnt = x]
         \/ \E x \in Procs \cup {None} : buf' = [buf EXCEPT ![i].lock = x]
         \/ \E x \in Contents : buf' = [buf EXCEPT ![i].data = x, ![i].dirty = TRUE]
         \/ \E x \in Contents : buf' = [buf EXCEPT ![i].data = x, ![i].valid = TRUE,
                                                   ![i].dirty = FALSE]
         \/ \E x \in Blocks : buf' = [buf EXCEPT ![i].blockno = x, ![i].valid = FALSE,
                                                 ![i].dirty = FALSE, ![i].refcnt = 1]
  PROVE  buf' \in [Bufs -> BufRecords]
<1>1. buf[i] \in BufRecords
  OBVIOUS
<1>2. ASSUME NEW x \in Int, buf' = [buf EXCEPT ![i].refcnt = x]
      PROVE  buf' \in [Bufs -> BufRecords]
  <2>1. PICK r : r = [buf[i] EXCEPT !.refcnt = x]
    OBVIOUS
  <2>2. r \in BufRecords
    BY <1>1, <2>1 DEF BufRecords
  <2>3. buf' = [buf EXCEPT ![i] = r]
    BY <1>2, <2>1
  <2> QED
    BY <2>2, <2>3
<1>3. ASSUME NEW x \in Procs \cup {None}, buf' = [buf EXCEPT ![i].lock = x]
      PROVE  buf' \in [Bufs -> BufRecords]
  <2>1. PICK r : r = [buf[i] EXCEPT !.lock = x]
    OBVIOUS
  <2>2. r \in BufRecords
    BY <1>1, <2>1 DEF BufRecords
  <2>3. buf' = [buf EXCEPT ![i] = r]
    BY <1>3, <2>1
  <2> QED
    BY <2>2, <2>3
<1>4. ASSUME NEW x \in Contents, buf' = [buf EXCEPT ![i].data = x, ![i].dirty = TRUE]
      PROVE  buf' \in [Bufs -> BufRecords]
  <2>1. PICK r : r = [buf[i] EXCEPT !.data = x, !.dirty = TRUE]
    OBVIOUS
  <2>2. r \in BufRecords
    BY <1>1, <2>1 DEF BufRecords
  <2>3. buf' = [buf EXCEPT ![i] = r]
    BY <1>4, <2>1
  <2> QED
    BY <2>2, <2>3
<1>5. ASSUME NEW x \in Contents, buf' = [buf EXCEPT ![i].data = x, ![i].valid = TRUE,
                                             ![i].dirty = FALSE]
      PROVE  buf' \in [Bufs -> BufRecords]
  <2>1. PICK r : r = [buf[i] EXCEPT !.data = x, !.valid = TRUE, !.dirty = FALSE]
    OBVIOUS
  <2>2. r \in BufRecords
    BY <1>1, <2>1 DEF BufRecords
  <2>3. buf' = [buf EXCEPT ![i] = r]
    BY <1>5, <2>1
  <2> QED
    BY <2>2, <2>3
<1>6. ASSUME NEW x \in Blocks, buf' = [buf EXCEPT ![i].blockno = x, ![i].valid = FALSE,
                                             ![i].dirty = FALSE, ![i].refcnt = 1]
      PROVE  buf' \in [Bufs -> BufRecords]
  <2>1. PICK r : r = [buf[i] EXCEPT !.blockno = x, !.valid = FALSE, !.dirty = FALSE, !.refcnt = 1]
    OBVIOUS
  <2>2. r \in BufRecords
    BY <1>1, <2>1, RecycledType
  <2>3. buf' = [buf EXCEPT ![i] = r]
    BY <1>6, <2>1
  <2> QED
    BY <2>2, <2>3
<1> QED
  BY <1>2, <1>3, <1>4, <1>5, <1>6

\* The steps of the cache.
LEMMA CacheTyped ==
  ASSUME Typed, Programs, Cache, NEW p \in Procs, CacheStep(p), UNCHANGED logVars,
         code' \in [Procs -> Seq(Instrs)]
  PROVE  Typed'
<1>1. /\ buf \in [Bufs -> BufRecords] /\ lru \in [Bufs -> Bufs] /\ idequeue \in Seq(Bufs)
      /\ HeadersCached
  BY DEF Typed, HeadersCached
<1>2. UNCHANGED <<outstanding, committing, asleep, up>> /\ lh' \in Headers
  BY DEF logVars, Typed
<1>3. \A i \in Bufs :
        /\ buf[i].blockno \in Blocks \cup {None} /\ buf[i].refcnt \in Int
        /\ buf[i].valid \in BOOLEAN /\ buf[i].dirty \in BOOLEAN
        /\ buf[i].data \in Contents /\ buf[i].lock \in Procs \cup {None}
  BY BufType
<1>4. SUFFICES /\ buf' \in [Bufs -> BufRecords] /\ HeadersCached'
               /\ lru' \in [Bufs -> Bufs] /\ idequeue' \in Seq(Bufs) /\ disk' = disk
  BY <1>2, TypedBufs
<1>5. CASE BgetHit(p)
  <2>1. PICK i \in Bufs : buf' = [buf EXCEPT ![i].refcnt = @ + 1]
    BY <1>5 DEF BgetHit, Cached
  <2>2. lru' = lru /\ idequeue' = idequeue /\ disk' = disk
    BY <1>5 DEF BgetHit
  <2>3. buf' \in [Bufs -> BufRecords]
    <3>1. buf[i].refcnt + 1 \in Int
      BY <1>3
    <3> QED
      BY <1>1, <2>1, <3>1, BufsPut
  <2>4. HeadersCached'
    BY <1>1, <2>1 DEF HeadersCached
  <2> QED
    BY <1>1, <2>2, <2>3, <2>4
<1>6. CASE BgetRecycle(p)
  <2>1. PICK k \in Bufs : buf' = [buf EXCEPT ![lru[k]].blockno = Arg(p), ![lru[k]].valid = FALSE,
                                             ![lru[k]].dirty = FALSE, ![lru[k]].refcnt = 1]
    BY <1>6 DEF BgetRecycle, Recyclable
  <2>2. PICK i \in Bufs : i = lru[k]
    BY <1>1
  <2>3. Arg(p) \in Blocks
    BY <1>6, ArgType DEF BgetRecycle
  <2>4. lru' = lru /\ idequeue' = idequeue /\ disk' = disk
    BY <1>6 DEF BgetRecycle
  <2>5. buf' \in [Bufs -> BufRecords]
    BY ZenonT(60), <1>1, <2>1, <2>2, <2>3, BufsPut
  <2>6. \A j \in Bufs : j # i => buf'[j] = buf[j]
    BY <1>1, <2>1, <2>2
  <2>7. buf'[i].valid = FALSE
    BY <1>1, <2>1, <2>2
  <2>8. HeadersCached'
    BY <1>1, <2>6, <2>7 DEF HeadersCached
  <2> QED
    BY <1>1, <2>4, <2>5, <2>8
<1>7. CASE acquiresleep(p)
  <2>1. PICK i \in Bufs : i = Arg(p)
    BY <1>7, ArgType DEF acquiresleep, Low
  <2>2. buf' = [buf EXCEPT ![i].lock = p] /\ lru' = lru /\ idequeue' = idequeue /\ disk' = disk
    BY <1>7, <2>1 DEF acquiresleep
  <2>3. buf' \in [Bufs -> BufRecords]
    BY <1>1, <2>2, BufsPut
  <2>4. HeadersCached'
    BY <1>1, <2>2 DEF HeadersCached
  <2> QED
    BY <1>1, <2>2, <2>3, <2>4
<1>8. CASE IderwQueue(p)
  <2>1. Arg(p) \in Bufs
    BY <1>8, ArgType DEF IderwQueue, Low
  <2>2. buf' = buf /\ lru' = lru /\ disk' = disk /\ idequeue' = Append(idequeue, Arg(p))
    BY <1>8 DEF IderwQueue
  <2>3. idequeue' \in Seq(Bufs)
    BY <1>1, <2>1, <2>2, AppendProperties
  <2>4. HeadersCached'
    BY <1>1, <2>2 DEF HeadersCached
  <2> QED
    BY <1>1, <2>2, <2>3, <2>4
<1>9. CASE IderwDone(p)
  <2>1. buf' = buf /\ lru' = lru /\ disk' = disk /\ idequeue' = idequeue
    BY <1>9 DEF IderwDone
  <2>2. HeadersCached'
    BY <1>1, <2>1 DEF HeadersCached
  <2> QED
    BY <1>1, <2>1, <2>2
<1>10. CASE releasesleep(p)
  <2>1. At(p, "brelse") /\ Arg(p) \in Blocks /\ code[p] # << >>
    BY <1>10, ArgType DEF releasesleep, At
  <2>2. Owes(p, Arg(p)) /\ \A i \in Bufs : ~Asks(p, i)
    BY <2>1, OwesNext DEF Asks, At
  <2>3. PICK i \in Bufs : i = Held(p, Arg(p))
    BY <2>1, <2>2, HeldIs
  <2>4. buf' = [buf EXCEPT ![i].lock = None] /\ lru' = lru /\ idequeue' = idequeue /\ disk' = disk
    BY <1>10, <2>3 DEF releasesleep
  <2>5. buf' \in [Bufs -> BufRecords]
    BY <1>1, <2>4, BufsPut
  <2>6. HeadersCached'
    BY <1>1, <2>4 DEF HeadersCached
  <2> QED
    BY <1>1, <2>4, <2>5, <2>6
<1>11. CASE BrelseUnref(p)
  <2>1. PICK i \in Bufs : i = Arg(p)
    BY <1>11, ArgType DEF BrelseUnref, Low
  <2>2. /\ buf' = [buf EXCEPT ![i].refcnt = Unref(i)] /\ idequeue' = idequeue /\ disk' = disk
        /\ lru' = IF Unref(i) = 0 THEN ToFront(i) ELSE lru
    BY <1>11, <2>1 DEF BrelseUnref
  <2>3. Unref(i) \in Int
    BY <1>3 DEF Unref
  <2>4. buf' \in [Bufs -> BufRecords]
    BY <1>1, <2>2, <2>3, BufsPut
  <2>5. HeadersCached'
    BY <1>1, <2>2 DEF HeadersCached
  <2>6. lru' \in [Bufs -> Bufs]
    BY <1>1, <2>2, ToFrontType
  <2> QED
    BY <1>1, <2>2, <2>4, <2>5, <2>6
<1> QED
  BY <1>5, <1>6, <1>7, <1>8, <1>9, <1>10, <1>11 DEF CacheStep

\* A buffer is filled: with a header only if it is the header's.
LEMMA StoreTyped ==
  ASSUME Typed, NEW i \in Bufs, NEW data \in Contents, StoreIn(i, data),
         buf[i].blockno = Header => data \in Headers, lru' = lru, idequeue' = idequeue,
         disk' = disk, code' \in [Procs -> Seq(Instrs)],
         UNCHANGED <<outstanding, committing, asleep, up>>, lh' \in Headers
  PROVE  Typed'
<1>1. /\ buf \in [Bufs -> BufRecords] /\ lru \in [Bufs -> Bufs] /\ idequeue \in Seq(Bufs)
      /\ HeadersCached
  BY DEF Typed, HeadersCached
<1>2. buf' = [buf EXCEPT ![i].data = data, ![i].dirty = TRUE]
  BY DEF StoreIn
<1>3. /\ buf[i].blockno \in Blocks \cup {None} /\ buf[i].refcnt \in Int
      /\ buf[i].valid \in BOOLEAN /\ buf[i].dirty \in BOOLEAN
      /\ buf[i].data \in Contents /\ buf[i].lock \in Procs \cup {None}
  BY BufType
<1>4. buf' \in [Bufs -> BufRecords]
  BY <1>1, <1>2, BufsPut
<1>5. buf'[i].data = data /\ buf'[i].blockno = buf[i].blockno
  BY <1>1, <1>2 DEF BufRecords
<1>6. \A j \in Bufs : j # i => buf'[j] = buf[j]
  BY <1>1, <1>2
<1>7. HeadersCached'
  BY <1>1, <1>5, <1>6 DEF HeadersCached
<1> QED
  BY <1>1, <1>4, <1>7, TypedBufs

\* The disk is done with a request.
LEMMA DiskTyped ==
  ASSUME Typed, Cache, idequeue # << >>
  PROVE  /\ Head(idequeue) \in Bufs /\ Tail(idequeue) \in Seq(Bufs)
         /\ buf[Head(idequeue)].blockno \in Blocks
         /\ buf[Head(idequeue)].dirty => /\ Written(Head(idequeue)) \in [Blocks -> Contents]
                                         /\ Written(Head(idequeue))[Header] \in Headers
<1>1. PICK i \in Bufs : i = Head(idequeue) /\ i = idequeue[1] /\ Tail(idequeue) \in Seq(Bufs)
  BY HeadTailProperties DEF Typed
<1>2. 1 \in 1 .. Len(idequeue)
  <2>1. idequeue \in Seq(Bufs) /\ Len(idequeue) \in Nat /\ Len(idequeue) # 0
    BY LenProperties, EmptySeq DEF Typed
  <2> QED
    BY <2>1
<1>3. PICK q \in Procs : Awaits(q, i)
  BY <1>1, <1>2 DEF Cache, Queued
<1>4. buf[i].lock = q
  BY <1>3 DEF Cache, Locked
<1>5. buf[i].blockno \in Blocks
  BY <1>4 DEF Cache, HeldOwed
<1>6. ASSUME buf[i].dirty PROVE Written(i) \in [Blocks -> Contents] /\ Written(i)[Header] \in Headers
  <2>1. disk \in [Blocks -> Contents] /\ disk[Header] \in Headers /\ buf[i].data \in Contents
    BY BufType DEF Typed
  <2>2. buf[i].valid
    BY <1>6 DEF Cache, DirtyValid
  <2>3. buf[i].blockno = Header => buf[i].data \in Headers
    BY <2>2 DEF Typed
  <2> QED
    BY <1>5, <2>1, <2>3, LogAssumption DEF Written
<1> QED
  BY <1>1, <1>5, <1>6

\* The disk's interrupt.
LEMMA IdeintrTyped ==
  ASSUME Typed, Cache, ideintr, UNCHANGED logVars
  PROVE  Typed'
<1>1. PICK i : i = Head(idequeue)
  OBVIOUS
<1>2. /\ idequeue # << >> /\ idequeue' = Tail(idequeue) /\ lru' = lru /\ code' = code
      /\ disk' = IF buf[i].dirty THEN Written(i) ELSE disk
      /\ buf' = [buf EXCEPT ![i].data = IF buf[i].dirty THEN @ ELSE disk[buf[i].blockno],
                            ![i].valid = TRUE, ![i].dirty = FALSE]
  BY <1>1 DEF ideintr
<1>3. /\ i \in Bufs /\ Tail(idequeue) \in Seq(Bufs) /\ buf[i].blockno \in Blocks
      /\ buf[i].dirty => Written(i) \in [Blocks -> Contents] /\ Written(i)[Header] \in Headers
  BY <1>1, <1>2, DiskTyped
<1>4. /\ buf \in [Bufs -> BufRecords] /\ HeadersCached /\ disk \in [Blocks -> Contents]
      /\ disk[Header] \in Headers
  BY DEF Typed, HeadersCached
<1>5. PICK data : data = IF buf[i].dirty THEN buf[i].data ELSE disk[buf[i].blockno]
  OBVIOUS
<1>6. data \in Contents /\ (buf[i].blockno = Header => data \in Headers)
  <2>1. buf[i].dirty => buf[i].valid
    BY <1>3 DEF Cache, DirtyValid
  <2>2. buf[i].data \in Contents
    BY <1>3, BufType
  <2>3. buf[i].valid /\ buf[i].blockno = Header => buf[i].data \in Headers
    BY <1>3, <1>4 DEF HeadersCached
  <2> QED
    BY <1>3, <1>4, <1>5, <2>1, <2>2, <2>3
<1>7. buf' = [buf EXCEPT ![i].data = data, ![i].valid = TRUE, ![i].dirty = FALSE]
  BY <1>2, <1>3, <1>4, <1>5
<1>8. /\ buf[i].blockno \in Blocks \cup {None} /\ buf[i].refcnt \in Int
      /\ buf[i].lock \in Procs \cup {None}
  BY <1>3, BufType
<1>9. buf' \in [Bufs -> BufRecords]
  BY <1>3, <1>4, <1>6, <1>7, BufsPut
<1>10. buf'[i].data = data /\ buf'[i].blockno = buf[i].blockno
       /\ \A j \in Bufs : j # i => buf'[j] = buf[j]
  BY <1>3, <1>4, <1>7 DEF BufRecords
<1>11. HeadersCached'
  BY <1>4, <1>6, <1>10 DEF HeadersCached
<1>12. disk' \in [Blocks -> Contents] /\ disk'[Header] \in Headers
  BY <1>2, <1>3, <1>4
<1>13. idequeue' \in Seq(Bufs)
  BY <1>2, <1>3
<1>14. lru' \in [Bufs -> Bufs] /\ code' \in [Procs -> Seq(Instrs)]
  BY <1>2 DEF Typed
<1>15. outstanding' \in Int /\ committing' \in BOOLEAN /\ lh' \in Headers
       /\ asleep' \subseteq Procs /\ up' \in BOOLEAN
  BY DEF Typed, logVars
<1>16. \A j \in Bufs : buf'[j].blockno = Header /\ buf'[j].valid => buf'[j].data \in Headers
  BY <1>11 DEF HeadersCached
<1> QED
  BY <1>9, <1>12, <1>13, <1>14, <1>15, <1>16 DEF Typed

-----------------------------------------------------------------------------
(* The invariant *)

\* Nothing happens.
LEMMA Stutter ==
  ASSUME LInv, UNCHANGED vars
  PROVE  LInv'
<1>1. /\ UNCHANGED <<buf, lru, idequeue, disk, code, outstanding, committing, lh, asleep, up>>
      /\ Typed /\ Programs /\ CopiesMatch /\ Cache /\ Counted /\ Cleared /\ SleepersJustified
  BY DEF LInv, vars, cacheVars
<1>2. \A q \in Procs :
        /\ \A b : Owes(q, b)' <=> Owes(q, b)
        /\ \A i : /\ Asks(q, i)' <=> Asks(q, i)
                  /\ Drops(q, i)' <=> Drops(q, i)
                  /\ Queues(q, i)' <=> Queues(q, i)
                  /\ Awaits(q, i)' <=> Awaits(q, i)
        /\ InOp(q)' <=> InOp(q)
        /\ Finishing(q)' <=> Finishing(q)
        /\ \A o : Has(q, o)' <=> Has(q, o)
  BY <1>1, Elsewhere
<1>3. \A q \in Procs : \A i : Uses(q, i)' <=> Uses(q, i)
  BY <1>1, <1>2 DEF Uses, Asks, Drops
<1>4. Typed' /\ Programs' /\ CopiesMatch'
  BY <1>1 DEF Typed, Programs, CopiesMatch
<1>5. Cache'
  <2>1. UniqueBlocks' /\ DirtyValid'
    BY <1>1 DEF Cache, UniqueBlocks, DirtyValid
  <2>2. Referenced'
    <3>1. \A i \in Bufs : {q \in Procs : Uses(q, i)'} = {q \in Procs : Uses(q, i)}
      BY <1>3
    <3>2. \A i \in Bufs : buf'[i].refcnt = Cardinality({q \in Procs : Uses(q, i)'})
      BY <1>1, <3>1 DEF Cache, Referenced
    <3> QED
      BY <3>2 DEF Referenced
  <2>3. OwedHeld' /\ HeldOwed' /\ Locked'
    BY <1>1, <1>2 DEF Cache, OwedHeld, HeldOwed, Locked, Ready
  <2>4. \A q \in Procs, j \in Bufs : Awaits(q, j)' <=> Awaits(q, j)
    BY <1>2
  <2>5. \A q \in Procs, j \in Bufs : Awaits(q, j) => (Ready(j)' <=> Ready(j))
    BY <1>1 DEF Ready
  <2>6. Queued'
    BY <1>1, <2>4, <2>5, QueuedKept DEF Cache
  <2> QED
    BY <2>1, <2>2, <2>3, <2>6 DEF Cache
<1>6. Counted'
  <2>1. {q \in Procs : InOp(q)'} = {q \in Procs : InOp(q)}
    BY <1>2
  <2>2. outstanding' = Cardinality({q \in Procs : InOp(q)'})
    BY <1>1, <2>1 DEF Counted
  <2> QED
    BY <1>1, <1>2, <2>2 DEF Counted
<1>7. Cleared' /\ SleepersJustified'
  BY <1>1, <1>2 DEF Cleared, SleepersJustified, MustWait
<1> QED
  BY <1>4, <1>5, <1>6, <1>7 DEF LInv

\* The disk's interrupt changes no program.
LEMMA IdeintrSound ==
  ASSUME LInv, ideintr, UNCHANGED logVars
  PROVE  LInv'
<1>1. /\ Typed /\ Programs /\ CopiesMatch /\ Cache /\ Counted /\ Cleared /\ SleepersJustified
      /\ code' = code /\ UNCHANGED <<outstanding, committing, lh, asleep, up>>
  BY DEF LInv, ideintr, logVars
<1>2. \A q \in Procs :
        /\ InOp(q)' <=> InOp(q)
        /\ LastOp(code'[q]) = LastOp(code[q])
        /\ Finishing(q)' <=> Finishing(q)
        /\ \A o : Has(q, o)' <=> Has(q, o)
  BY <1>1, Elsewhere
<1>3. Typed' /\ Cache'
  BY <1>1, IdeintrTyped, IdeintrCache
<1>4. Programs' /\ CopiesMatch'
  BY <1>1 DEF Programs, CopiesMatch
<1>5. Counted'
  BY <1>1, <1>2, CountedSame
<1>6. Cleared' /\ SleepersJustified'
  BY <1>1, <1>2 DEF Cleared, SleepersJustified, MustWait
<1> QED
  BY <1>3, <1>4, <1>5, <1>6 DEF LInv

\* Every step of a process.
LEMMA StepSound ==
  ASSUME LInv, NEW p \in Procs, Start(p) \/ Step(p)
  PROVE  LInv'
<1>1. /\ Typed /\ Programs /\ Cache /\ Counted /\ outstanding \in Int /\ committing \in BOOLEAN
      /\ lh \in Headers /\ asleep \subseteq Procs /\ up \in BOOLEAN
  BY DEF LInv, Typed
<1>2. SUFFICES Typed' /\ Sound'
  BY DEF LInv, Sound
<1>3. CASE CacheStep(p) /\ UNCHANGED logVars
  <2>1. Sound' /\ code' \in [Procs -> Seq(Instrs)]
    BY <1>3, CacheStepSound
  <2>2. Typed'
    BY <1>1, <1>3, <2>1, CacheTyped
  <2> QED
    BY <2>1, <2>2
<1>4. CASE Start(p) \/ Body(p) \/ write_log(p) \/ install_trans(p)
  <2>1. Sound' /\ code' \in [Procs -> Seq(Instrs)]
    BY <1>4, StartSound, LoopSound
  <2>2. UNCHANGED <<buf, lru, idequeue, disk, outstanding, committing, lh, asleep, up>>
    BY <1>4 DEF Start, Body, write_log, install_trans, logVars
  <2>3. Typed'
    BY <1>1, <2>1, <2>2, TypedQuiet
  <2> QED
    BY <2>1, <2>3
<1>5. CASE begin_op(p)
  <2>1. Sound' /\ code' \in [Procs -> Seq(Instrs)]
    BY <1>5, BeginSound
  <2>2. /\ UNCHANGED <<buf, lru, idequeue, disk, committing, lh, up>>
        /\ outstanding' \in Int /\ asleep' \subseteq Procs
    BY <1>1, <1>5 DEF begin_op
  <2>3. Typed'
    BY <1>1, <2>1, <2>2, TypedQuiet
  <2> QED
    BY <2>1, <2>3
<1>6. CASE end_op(p)
  <2>1. Sound' /\ code' \in [Procs -> Seq(Instrs)]
    BY <1>6, LastEndSound, EndSound
  <2>2. UNCHANGED <<buf, lru, idequeue, disk, lh, up>> /\ outstanding' = outstanding - 1
    BY <1>6 DEF end_op
  <2>3. committing' \in BOOLEAN /\ asleep' \subseteq Procs
    <3>1. (committing' = TRUE /\ asleep' = asleep) \/ (committing' = committing /\ asleep' = {})
      BY <1>6 DEF end_op, Woken
    <3> QED
      BY <1>1, <3>1
  <2>4. Typed'
    BY <1>1, <2>1, <2>2, <2>3, TypedQuiet
  <2> QED
    BY <2>1, <2>4
<1>7. CASE log_write(p)
  <2>1. Sound' /\ code' \in [Procs -> Seq(Instrs)] /\ lh' \in Headers
    BY <1>7, LogWriteSound
  <2>2. /\ At(p, "log_write") /\ UNCHANGED <<lru, idequeue, disk, outstanding, committing, asleep, up>>
    BY <1>7 DEF log_write
  <2>3. PICK b \in Homes, data \in Values : b = Arg(p) /\ data = Head(code[p])[3]
    BY <1>1, <2>2, ArgType
  <2>4. b \in Blocks /\ b # Header /\ data \in Contents
    BY LogAssumption DEF Contents
  <2>5. code[p] # << >> /\ \A i \in Bufs : ~Asks(p, i)
    BY <2>2 DEF At, Asks
  <2>6. Owes(p, b)
    BY <1>1, <2>2, <2>3, <2>4, <2>5, OwesNext
  <2>7. PICK i \in Bufs : i = Held(p, b) /\ buf[i].blockno = b
    BY <1>1, <2>4, <2>5, <2>6, HeldIs
  <2>8. StoreIn(i, data)
    BY <1>7, <2>3, <2>7 DEF log_write, StoreIn
  <2>9. Typed'
    BY <1>1, <2>1, <2>2, <2>4, <2>7, <2>8, StoreTyped
  <2> QED
    BY <2>1, <2>9
<1>8. CASE Copy(p) \/ WriteHead(p)
  <2>1. Sound' /\ code' \in [Procs -> Seq(Instrs)]
    BY <1>8, WriteSound
  <2>2. \A i \in Bufs : ~Asks(p, i)
    BY <1>8 DEF Copy, WriteHead, At, Asks
  <2>3. code[p] # << >> /\ Header \in Blocks
    BY <1>8, LogAssumption DEF Copy, WriteHead, At
  <2>4. PICK b \in Blocks, data \in Contents :
          /\ bwrite(p, b, data) /\ UNCHANGED logVars /\ (b = Header => data \in Headers)
          /\ Owes(p, b)
    <3>1. CASE Copy(p)
      <4>1. At(p, "copy")
        BY <3>1 DEF Copy
      <4>2. PICK to \in Blocks \ {Header}, from \in Blocks \ {Header} :
              to = Arg(p) /\ from = Head(code[p])[3]
        BY <1>1, <4>1, ArgType
      <4>3. from = code[p][1][3]
        BY <1>1, <2>3, <4>2, First
      <4>4. Owes(p, to) /\ Owes(p, from)
        BY <1>1, <2>3, <4>1, <4>2, <4>3, OwesNext
      <4>5. Held(p, from) \in Bufs
        BY <1>1, <2>2, <4>4, HeldIs
      <4>6. buf[Held(p, from)].data \in Contents
        BY <1>1, <4>5, BufType
      <4> QED
        BY <3>1, <4>2, <4>4, <4>6 DEF Copy
    <3>2. CASE WriteHead(p)
      <4>1. At(p, "write_head")
        BY <3>2 DEF WriteHead
      <4>2. Owes(p, Header)
        BY <1>1, <2>3, <4>1, OwesNext
      <4> QED
        BY <1>1, <2>3, <3>2, <4>2 DEF WriteHead, Contents
    <3> QED
      BY <1>8, <3>1, <3>2
  <2>5. PICK i \in Bufs : i = Held(p, b) /\ buf[i].blockno = b
    BY <1>1, <2>2, <2>4, HeldIs
  <2>6. StoreIn(i, data) /\ UNCHANGED <<lru, idequeue, disk>>
    BY <2>4, <2>5 DEF bwrite, StoreIn
  <2>7. UNCHANGED <<outstanding, committing, asleep, up>> /\ lh' \in Headers
    BY <1>1, <2>4 DEF logVars
  <2>8. Typed'
    BY <1>1, <2>1, <2>4, <2>5, <2>6, <2>7, StoreTyped
  <2> QED
    BY <2>1, <2>8
<1>9. CASE Clear(p) \/ Done(p) \/ read_head(p) \/ Recovered(p)
  <2>1. Sound' /\ code' \in [Procs -> Seq(Instrs)]
    BY <1>9, ClearSound, OverSound, ReadHeadSound
  <2>2. lh' \in Headers
    <3>1. CASE read_head(p)
      BY <3>1, ReadHeadSound
    <3>2. CASE Clear(p)
      <4>1. lh' = << >>
        BY <3>2 DEF Clear
      <4>2. << >> \in Headers
        <5>1. lh \in Seq(Homes) /\ Len(lh) <= Len(LogBlocks) /\ Len(lh) \in Nat
          BY <1>1, LenProperties DEF Headers
        <5>2. << >> \in Seq(Homes) /\ Len(<< >>) = 0 /\ Len(LogBlocks) \in Nat
          BY LogAssumption, LenProperties
        <5> QED
          BY <5>2 DEF Headers
      <4> QED
        BY <4>1, <4>2
    <3>3. CASE Done(p) \/ Recovered(p)
      BY <1>1, <3>3 DEF Done, Recovered
    <3> QED
      BY <1>9, <3>1, <3>2, <3>3
  <2>3. UNCHANGED <<buf, lru, idequeue, disk, outstanding>>
    BY <1>9 DEF Clear, Done, read_head, Recovered
  <2>4. /\ committing' = FALSE \/ committing' = committing
        /\ asleep' = {} \/ asleep' = asleep
        /\ up' = TRUE \/ up' = up
    BY <1>9 DEF Clear, Done, read_head, Recovered, Woken
  <2>5. committing' \in BOOLEAN /\ asleep' \subseteq Procs /\ up' \in BOOLEAN
    BY <1>1, <2>4
  <2>6. Typed'
    BY <1>1, <2>1, <2>2, <2>3, <2>5, TypedQuiet
  <2> QED
    BY <2>1, <2>6
<1> QED
  BY <1>3, <1>4, <1>5, <1>6, <1>7, <1>8, <1>9 DEF Step

\* The machine starts for the first time.
LEMMA InitBoots ==
  ASSUME Init
  PROVE  Booted
<1>1. << >> \in Headers
  <2>1. << >> \in Seq(Homes) /\ Len(<< >>) = 0 /\ Len(LogBlocks) \in Nat
    BY LogAssumption, LenProperties
  <2> QED
    BY <2>1 DEF Headers
<1>2. disk = [b \in Blocks |-> IF b = Header THEN << >> ELSE Zero]
  BY DEF Init
<1>3. << >> \in Contents /\ Zero \in Contents /\ Header \in Blocks
  BY <1>1, LogAssumption DEF Contents
<1>4. disk \in [Blocks -> Contents] /\ disk[Header] \in Headers
  BY <1>1, <1>2, <1>3
<1> QED
  BY <1>4 DEF Init, Booted, binit

\* A crash starts the machine again.
LEMMA CrashBoots ==
  ASSUME LInv, Crash
  PROVE  Booted'
<1>1. Typed /\ Cache
  BY DEF LInv
<1>2. disk' = disk \/ (idequeue # << >> /\ buf[Head(idequeue)].dirty
                       /\ disk' = Written(Head(idequeue)))
  BY DEF Crash
<1>3. disk' \in [Blocks -> Contents] /\ disk'[Header] \in Headers
  <2>1. disk \in [Blocks -> Contents] /\ disk[Header] \in Headers
    BY <1>1 DEF Typed
  <2> QED
    BY <1>1, <1>2, <2>1, DiskTyped
<1>4. /\ buf' = FreshBufs /\ lru' = FreshList /\ idequeue' = << >> /\ code' = BootCode
      /\ outstanding' = 0 /\ committing' = FALSE /\ lh' = << >> /\ asleep' = {} /\ up' = FALSE
  BY DEF Crash
<1>5. code' = BootCode'
  BY <1>4 DEF BootCode, recover_from_log, InstallAndErase, write_head
<1>6. FreshBufs' = FreshBufs /\ FreshList' = FreshList
  BY DEF FreshBufs, FreshList, EmptyBuf, Bufs
<1> QED
  BY <1>3, <1>4, <1>5, <1>6 DEF Booted

\* LInv is an invariant of the log.
LEMMA Invariant == Spec => []LInv
<1>1. Init => LInv
  BY InitBoots, BootSound
<1>2. (Booted => LInv)'
  BY BootSound, PTL
<1>3. LInv /\ [Next]_vars => LInv'
  <2> SUFFICES ASSUME LInv, [Next]_vars PROVE LInv'
    OBVIOUS
  <2>1. CASE \E p \in Procs : Start(p) \/ Step(p)
    BY <2>1, StepSound
  <2>2. CASE ideintr /\ UNCHANGED logVars
    BY <2>2, IdeintrSound
  <2>3. CASE Crash
    BY <1>2, <2>3, CrashBoots
  <2>4. CASE UNCHANGED vars
    BY <2>4, Stutter
  <2> QED
    BY <2>1, <2>2, <2>3, <2>4 DEF Next
<1> QED
  BY <1>1, <1>3, PTL DEF Spec

-----------------------------------------------------------------------------
(* The theorems *)

\* begin_op (log.c) loses no wakeup: whoever sleeps on &log has a reason to, and an
\* operation or a commit is under way that ends with a wakeup.
THEOREM SleepersWoken == Spec => []SleepersJustified
<1>1. LInv => SleepersJustified
  BY DEF LInv
<1> QED
  BY <1>1, Invariant, PTL

\* None of the panics of bio.c, ide.c and log.c that NoPanic lists is reached, for any
\* number of processes, buffers and blocks.
THEOREM PanicFree == Spec => []NoPanic
<1>1. LInv => NoPanic
  <2> SUFFICES ASSUME LInv, NEW p \in Procs
               PROVE  /\ At(p, "log_write") => ~OutsideTrans
                      /\ At(p, "end") => ~committing
                      /\ At(p, "brelse") \/ At(p, "log_write") \/ At(p, "copy") =>
                           \E i \in Bufs : buf[i].blockno = Arg(p) /\ buf[i].lock = p
                      /\ At(p, "iderw") =>
                           buf[Arg(p)].lock = p /\ (~buf[Arg(p)].valid \/ buf[Arg(p)].dirty)
    BY DEF NoPanic
  <2>1. Typed /\ Programs /\ Cache /\ Counted
    BY DEF LInv
  <2>2. At(p, "log_write") \/ At(p, "end") => InOp(p)
    <3>1. At(p, "log_write") => LastOp(code[p]) = "end"
      BY <2>1, FirstAt
    <3>2. At(p, "end") => LastOp(code[p]) = "end"
      BY <2>1, FirstAt
    <3> QED
      BY <3>1, <3>2 DEF InOp, At
  <2>3. InOp(p) => outstanding \in Nat /\ outstanding > 0 /\ ~committing
    <3>1. InOp(p) => outstanding \in Nat /\ outstanding > 0
      BY <2>1, Outstanding
    <3> QED
      BY <2>1, <3>1 DEF Counted
  <2>4. ASSUME At(p, "brelse") \/ At(p, "log_write") \/ At(p, "copy")
        PROVE  \E i \in Bufs : buf[i].blockno = Arg(p) /\ buf[i].lock = p
    <3>1. Arg(p) \in Blocks /\ code[p] # << >>
      BY <2>1, <2>4, ArgType, LogAssumption DEF At
    <3>2. Owes(p, Arg(p))
      BY <2>1, <2>4, <3>1, OwesNext
    <3>3. \A i \in Bufs : ~Asks(p, i)
      BY <2>4 DEF Asks, At
    <3> QED
      BY <2>1, <3>1, <3>2, <3>3 DEF Cache, OwedHeld
  <2>5. ASSUME At(p, "iderw")
        PROVE  buf[Arg(p)].lock = p /\ (~buf[Arg(p)].valid \/ buf[Arg(p)].dirty)
    <3>1. Arg(p) \in Bufs
      BY <2>1, <2>5, ArgType DEF Low
    <3>2. Queues(p, Arg(p))
      BY <2>5 DEF Queues
    <3> QED
      BY <2>1, <3>1, <3>2 DEF Cache, Locked, Ready
  <2> QED
    BY <2>2, <2>3, <2>4, <2>5 DEF OutsideTrans
<1> QED
  BY <1>1, Invariant, PTL

\* The buffer cache is sound: one buffer per block, reference counts that count their
\* users, and a disk queue that holds exactly the requests somebody waits for.
THEOREM CacheIsSound == Spec => []CacheSound
<1>1. LInv => CacheSound
  <2> SUFFICES ASSUME LInv PROVE CacheSound
    OBVIOUS
  <2>1. UniqueBlocks /\ Referenced /\ Locked /\ Queued /\ Typed
    BY DEF LInv, Cache
  <2>2. ASSUME NEW i \in Bufs
        PROVE  Cardinality({k \in 1 .. Len(idequeue) : idequeue[k] = i})
                 = Cardinality({p \in Procs : At(p, "wait") /\ Arg(p) = i
                                              /\ ~(buf[i].valid /\ ~buf[i].dirty)})
    <3>1. PICK A : A = {k \in 1 .. Len(idequeue) : idequeue[k] = i}
      OBVIOUS
    <3>2. PICK B : B = {p \in Procs : At(p, "wait") /\ Arg(p) = i
                                      /\ ~(buf[i].valid /\ ~buf[i].dirty)}
      OBVIOUS
    <3>3. B = {p \in Procs : Awaits(p, i) /\ ~Ready(i)}
      BY <3>2 DEF Awaits, Ready
    <3>4. \A x, y \in A : x = y
      BY <2>1, <3>1 DEF Queued
    <3>5. \A x, y \in B : x = y
      BY <2>1, <3>3 DEF Locked
    <3>6. A # {} <=> B # {}
      <4>1. ASSUME NEW k \in A PROVE B # {}
        BY <2>1, <3>1, <3>3 DEF Queued
      <4>2. ASSUME NEW q \in B PROVE A # {}
        BY <2>1, <3>1, <3>3 DEF Queued
      <4> QED
        BY <4>1, <4>2
    <3>7. CASE A = {}
      <4>1. B = {}
        BY <3>6, <3>7
      <4> QED
        BY <3>1, <3>2, <3>7, <4>1
    <3>8. CASE A # {}
      <4>1. PICK x, y : x \in A /\ y \in B
        BY <3>6, <3>8
      <4>2. A = {x} /\ B = {y}
        BY <3>4, <3>5, <4>1
      <4>3. Cardinality({x}) = 1 /\ Cardinality({y}) = 1
        BY FS_Singleton
      <4> QED
        BY <3>1, <3>2, <4>2, <4>3
    <3> QED
      BY <3>7, <3>8
  <2> QED
    BY <2>1, <2>2 DEF CacheSound, UniqueBlocks, Referenced
<1> QED
  BY <1>1, Invariant, PTL
=============================================================================
