----------------------------- MODULE RingProofs -----------------------------
(***************************************************************************)
(* Facts about the log buffer for any capacity and any width of its        *)
(* positions: where a write lands, what it overwrites, and what a range of *)
(* the double mapping shows.  LogCaptureProofs and LogServerProofs rest on *)
(* them.                                                                   *)
(***************************************************************************)
EXTENDS RingBuffer, SequenceTheorems, TLAPS

-----------------------------------------------------------------------------
(* Remainders *)

(* Quotient and remainder determine a number, and it determines them. *)
LEMMA DivModUnique ==
    ASSUME NEW c \in Nat \ {0}, NEW q \in Int, NEW r \in 0..(c - 1),
           NEW p \in Int, NEW s \in 0..(c - 1), c * q + r = c * p + s
    PROVE  r = s
<1>1. c * (q - p) = s - r /\ c * (p - q) = r - s
  OBVIOUS
<1>2. CASE q - p >= 1
  <2>1. c * (q - p) >= c
    BY <1>2
  <2> QED
    BY <1>1, <2>1
<1>3. CASE p - q >= 1
  <2>1. c * (p - q) >= c
    BY <1>3
  <2> QED
    BY <1>1, <2>1
<1>4. CASE q = p
  BY <1>4
<1> QED
  BY <1>2, <1>3, <1>4

(* Every number has a quotient and a remainder. *)
LEMMA Divides ==
    ASSUME NEW c \in Nat \ {0}, NEW x \in Int
    PROVE  \E q \in Int, r \in 0..(c - 1) : x = c * q + r /\ x % c = r
<1>1. /\ x = c * (x \div c) + (x % c)
      /\ x % c \in 0..(c - 1) /\ x \div c \in Int
  OBVIOUS
<1> QED
  BY <1>1, Zenon

(* The remainder, when a quotient is known. *)
LEMMA ModIs ==
    ASSUME NEW c \in Nat \ {0}, NEW q \in Int, NEW r \in 0..(c - 1),
           NEW x \in Int, x = c * q + r
    PROVE  x % c = r
<1>1. PICK p \in Int, s \in 0..(c - 1) : x = c * p + s /\ x % c = s
  BY Divides
<1>2. r = s
  BY <1>1, DivModUnique
<1> QED
  BY <1>1, <1>2

(* Positions before the end of the memory are next to each other in it. *)
LEMMA ModShift ==
    ASSUME NEW c \in Nat \ {0}, NEW x \in Nat, NEW k \in Nat, (x % c) + k < c
    PROVE  (x + k) % c = (x % c) + k
<1>1. PICK q \in Int, r \in 0..(c - 1) : x = c * q + r /\ x % c = r
  BY Divides
<1>2. /\ r + k \in 0..(c - 1) /\ x + k \in Int
      /\ x + k = c * q + (r + k)
  BY <1>1
<1>3. (x + k) % c = r + k
  BY <1>2, ModIs
<1> QED
  BY <1>1, <1>3

(* Positions that are less than the capacity apart have places of their own. *)
LEMMA ModApart ==
    ASSUME NEW c \in Nat \ {0}, NEW x \in Nat, NEW y \in Nat, x <= y, y - x < c,
           x % c = y % c
    PROVE  x = y
<1>0. x \in Int /\ y \in Int
  OBVIOUS
<1>1. PICK q \in Int, r \in 0..(c - 1) : x = c * q + r /\ x % c = r
  BY <1>0, Divides, Zenon
<1>2. PICK p \in Int, s \in 0..(c - 1) : y = c * p + s /\ y % c = s
  BY <1>0, Divides, Zenon
<1>3. y - x = c * (p - q)
  <2>1. r = s
    BY <1>1, <1>2
  <2>2. c * (p - q) = c * p - c * q
    OBVIOUS
  <2> QED
    BY <1>1, <1>2, <2>1, <2>2
<1>4. CASE p - q >= 1
  <2>1. c * (p - q) >= c
    BY <1>4
  <2> QED
    BY <1>3, <2>1
<1>5. CASE q - p >= 1
  <2>1. c * (p - q) <= -c
    BY <1>5
  <2> QED
    BY <1>3, <2>1
<1> QED
  BY <1>1, <1>2, <1>3, <1>4, <1>5

(* A number below a multiple p of c, and what is left of its block of c, stay
   within p. *)
LEMMA ModWithin ==
    ASSUME NEW c \in Nat \ {0}, NEW p \in Nat \ {0}, p % c = 0,
           NEW x \in 0..(p - 1), NEW n \in Nat, n <= c - (x % c)
    PROVE  x + n <= p
<1>1. PICK q \in Int, r \in 0..(c - 1) : x = c * q + r /\ x % c = r
  BY Divides
<1>2. PICK m \in Int, s \in 0..(c - 1) : p = c * m + s /\ p % c = s
  BY Divides
<1>3. CASE q + 1 <= m
  <2>1. c * (m - (q + 1)) >= 0
    BY <1>3
  <2>2. x + n <= c * q + c
    BY <1>1
  <2> QED
    BY <1>2, <2>1, <2>2
<1>4. CASE m <= q
  <2>1. c * (q - m) >= 0
    BY <1>4
  <2> QED
    BY <1>1, <1>2, <2>1
<1> QED
  BY <1>3, <1>4

(* Remainders may be taken early. *)
LEMMA ModAdd ==
    ASSUME NEW p \in Nat \ {0}, NEW x \in Nat, NEW n \in Nat
    PROVE  (x + n) % p = ((x % p) + n) % p
<1>0. x \in Int
  OBVIOUS
<1>1. PICK q \in Int, r \in 0..(p - 1) : x = p * q + r /\ x % p = r
  BY <1>0, Divides, Zenon
<1>2. r + n \in Int
  OBVIOUS
<1>3. PICK m \in Int, s \in 0..(p - 1) : r + n = p * m + s /\ (r + n) % p = s
  BY <1>2, Divides
<1>4. x + n = p * (q + m) + s /\ q + m \in Int /\ x + n \in Int
  <2>1. p * (q + m) = p * q + p * m
    OBVIOUS
  <2> QED
    BY <1>1, <1>3, <2>1
<1>5. (x + n) % p = s
  BY <1>4, ModIs, ZenonT(60)
<1> QED
  BY <1>1, <1>3, <1>5

(* Numbers below the divisor are their own remainders. *)
LEMMA ModSmall ==
    ASSUME NEW c \in Nat \ {0}, NEW x \in 0..(c - 1)
    PROVE  x % c = x
<1>1. x = c * 0 + x /\ x \in Int
  OBVIOUS
<1> QED
  BY <1>1, ModIs

-----------------------------------------------------------------------------
(* The buffer *)

(* A function on 1..n is a sequence of that length. *)
LEMMA IsSequence ==
    ASSUME NEW S, NEW n \in Nat, NEW f \in [1..n -> S]
    PROVE  f \in Seq(S) /\ Len(f) = n
OBVIOUS

(* A place in the memory for every position. *)
LEMMA Place ==
    ASSUME NEW i \in Nat
    PROVE  i % Capacity \in 0..(Capacity - 1)
BY CapacityAssumption

(* Clamp takes no more than was asked for, nothing past the end of the memory,
   and something unless nothing was asked for. *)
LEMMA ClampFacts ==
    ASSUME NEW pos \in Nat, NEW len \in Nat
    PROVE  /\ Clamp(pos, len) \in 0..len
           /\ Clamp(pos, len) <= Capacity - (pos % Capacity)
           /\ len > 0 => Clamp(pos, len) > 0
<1>1. pos % Capacity \in 0..(Capacity - 1) /\ Capacity \in Nat
  BY Place, CapacityAssumption
<1> QED
  BY <1>1 DEF Clamp

(* A range that does not pass the end of the memory shows the places of its
   positions. *)
LEMMA ViewFacts ==
    ASSUME NEW S, NEW m \in [0..(Capacity - 1) -> S], NEW pos \in Nat,
           NEW len \in Nat, len <= Capacity - (pos % Capacity)
    PROVE  /\ View(m, pos, len) \in Seq(S) /\ Len(View(m, pos, len)) = len
           /\ \A k \in 1..len : View(m, pos, len)[k] = m[(pos + k - 1) % Capacity]
<1>1. ASSUME NEW k \in 1..len
      PROVE  /\ Mapped(m, (pos % Capacity) + k - 1) = m[(pos + k - 1) % Capacity]
             /\ m[(pos + k - 1) % Capacity] \in S
  <2>0. /\ pos % Capacity \in 0..(Capacity - 1)
    BY Place, Zenon
  <2>1. /\ k - 1 \in Nat /\ (pos % Capacity) + (k - 1) < Capacity
        /\ Capacity \in Nat \ {0}
    BY <2>0, CapacityAssumption
  <2>2. (pos + (k - 1)) % Capacity = (pos % Capacity) + (k - 1)
    BY <2>1, ModShift
  <2>3. (pos % Capacity) + (k - 1) \in 0..(Capacity - 1)
    BY <2>0, <2>1
  <2>4. ((pos % Capacity) + (k - 1)) % Capacity = (pos % Capacity) + (k - 1)
    BY <2>1, <2>3, ModSmall
  <2>5. pos + k - 1 = pos + (k - 1) /\ (pos % Capacity) + k - 1 = (pos % Capacity) + (k - 1)
    BY <2>1
  <2> QED
    BY <2>2, <2>3, <2>4, <2>5 DEF Mapped
<1>2. View(m, pos, len) \in [1..len -> S]
  BY <1>1 DEF View
<1>3. \A k \in 1..len : View(m, pos, len)[k] = m[(pos + k - 1) % Capacity]
  BY <1>1 DEF View
<1> QED
  BY <1>2, <1>3, IsSequence

(* What a write leaves in the memory: the bytes at their places, and what was
   at the places of all older positions that are still retained. *)
LEMMA WriteFacts ==
    ASSUME NEW S, mem \in [0..(Capacity - 1) -> S], write_pos \in Nat,
           NEW bs \in Seq(S), Len(bs) <= Capacity - (write_pos % Capacity),
           RingWrite(bs)
    PROVE  /\ mem' \in [0..(Capacity - 1) -> S]
           /\ \A k \in 0..(Len(bs) - 1) :
                 mem'[(write_pos + k) % Capacity] = bs[k + 1]
           /\ \A i \in Nat : i < write_pos /\ i >= write_pos + Len(bs) - Capacity
                 => mem'[i % Capacity] = mem[i % Capacity]
<1> DEFINE off == write_pos % Capacity
<1>0. off \in 0..(Capacity - 1)
  BY Place, Zenon
<1>1. /\ off \in 0..(Capacity - 1) /\ Capacity \in Nat \ {0}
      /\ Len(bs) \in Nat /\ Len(bs) <= Capacity - off
  <2> HIDE DEF off
  <2>1. Len(bs) <= Capacity - off
    BY DEF off
  <2> QED
    BY <1>0, <2>1, CapacityAssumption
<1>2. mem' = [i \in 0..(Capacity - 1) |->
                 IF i - off \in 0..(Len(bs) - 1) THEN bs[i - off + 1] ELSE mem[i]]
  BY DEF RingWrite
<1>3. ASSUME NEW k \in 0..(Len(bs) - 1)
      PROVE  /\ (write_pos + k) % Capacity = off + k
             /\ off + k \in 0..(Capacity - 1)
  <2>1. off + k \in 0..(Capacity - 1) /\ k \in Nat /\ off + k < Capacity
    <3> HIDE DEF off
    <3> QED
      BY <1>1
  <2>2. (write_pos + k) % Capacity = off + k
    BY <1>1, <2>1, ModShift, Zenon
  <2> QED
    BY <2>1, <2>2, Zenon
<1>4. mem' \in [0..(Capacity - 1) -> S]
  <2> HIDE DEF off
  <2>1. ASSUME NEW i \in 0..(Capacity - 1)
        PROVE  (IF i - off \in 0..(Len(bs) - 1) THEN bs[i - off + 1] ELSE mem[i]) \in S
    <3>1. CASE i - off \in 0..(Len(bs) - 1)
      <4>1. i - off + 1 \in 1..Len(bs)
        BY <1>1, <3>1
      <4> QED
        BY <3>1, <4>1, ElementOfSeq
    <3> QED
      BY <3>1
  <2> QED
    BY <1>2, <2>1
<1>5. ASSUME NEW k \in 0..(Len(bs) - 1)
      PROVE  mem'[(write_pos + k) % Capacity] = bs[k + 1]
  <2>1. (write_pos + k) % Capacity = off + k /\ off + k \in 0..(Capacity - 1)
    BY <1>3
  <2> HIDE DEF off
  <2>2. (off + k) - off = k
    BY <1>1
  <2>3. mem'[off + k] = IF (off + k) - off \in 0..(Len(bs) - 1)
                        THEN bs[(off + k) - off + 1] ELSE mem[off + k]
    BY <1>2, <2>1, Zenon
  <2>4. mem'[off + k] = bs[k + 1]
    BY <2>2, <2>3, Zenon
  <2> QED
    BY <2>1, <2>4
<1>6. ASSUME NEW i \in Nat, i < write_pos, i >= write_pos + Len(bs) - Capacity
      PROVE  mem'[i % Capacity] = mem[i % Capacity]
  <2>1. i % Capacity \in 0..(Capacity - 1)
    BY Place
  <2>2. SUFFICES ASSUME (i % Capacity) - off \in 0..(Len(bs) - 1) PROVE FALSE
    <3> HIDE DEF off
    <3> QED
      BY <1>2, <2>1
  <2>3. PICK k \in 0..(Len(bs) - 1) : i % Capacity = off + k
    <3> HIDE DEF off
    <3> QED
      BY <1>1, <2>1, <2>2
  <2>4. i % Capacity = (write_pos + k) % Capacity
    BY <1>3, <2>3
  <2>5. i <= write_pos + k /\ (write_pos + k) - i < Capacity /\ write_pos + k \in Nat
    BY <1>1, <1>6
  <2>6. i = write_pos + k
    BY <1>1, <2>4, <2>5, ModApart
  <2> QED
    BY <1>6, <2>6
<1> QED
  BY <1>4, <1>5, <1>6
=============================================================================
