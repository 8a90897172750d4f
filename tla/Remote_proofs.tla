---------------------------- MODULE Remote_proofs ----------------------------
(***************************************************************************)
(* Theorems about Remote: its type invariant, and that a key taken out of  *)
(* RmtRec is the key of the last whole code, for bytes of every length,    *)
(* every set of keys and every number of presses.                          *)
(*                                                                         *)
(* The code that is being shifted in pushes the last one out, so in the    *)
(* middle of a code RmtRec is a window onto the two: RecInv says which bit *)
(* of which code each bit of RmtRec is, and WindowFails that the checks of *)
(* Remote_Scan reject every such window.                                   *)
(***************************************************************************)
EXTENDS Remote, TLAPS

\* Where a code is on the line.
LineInv ==
  /\ line.ph = "idle" => line.bits = Total \/ (line.bits = 0 /\ line.key = NoKey)
  /\ line.ph \in {"mark", "space"} => line.bits \in {0, Total}
  /\ line.ph = "high" => line.bits < Total
  /\ line.ph \in {"space", "high"} => polarity = "fall"
  /\ line.ph # "idle" \/ line.bits > 0 => line.key \in Key

MidCode == 0 < line.bits /\ line.bits < Total

\* V is what the last code left, with at most one bit wrong, or what RmtRec was
\* at the start.
OldCode(V, k) ==
  \/ k = NoKey /\ \A n \in 1..Total : V[n] = 0
  \/ k \in Key /\ \E e \in 1..Total : \A n \in 1..Total : n # e => V[n] = Code(k)[n]

\* The newest j bits of r are the first j of the code of k, all but the e-th,
\* and the bits before them are the last bits of V.
Newest(r, j, k, e) == \A n \in 1..j : n # e => r[(Total - j) + n] = Code(k)[n]
Pushed(r, j, V) == \A n \in 1..(Total - j) : r[n] = V[n + j]

\* RmtRec in the middle of a code and between codes.
NewInv ==
  MidCode /\ ~line.short /\ RmtSta.leader =>
    \E e \in 0..line.bits : (~line.odd => e = 0) /\ Newest(RmtRec, line.bits, line.key, e)
PushInv ==
  MidCode /\ ~slipped /\ RmtSta.leader =>
    \E V \in [1..Total -> Bit] : OldCode(V, last) /\ Pushed(RmtRec, line.bits, V)
StillInv == ~slipped /\ ~(MidCode /\ RmtSta.leader) => OldCode(RmtRec, last)
ShortInv == MidCode /\ line.short => slipped
RecInv == NewInv /\ PushInv /\ StillInv /\ ShortInv

\* What a call that no bit has disturbed knows of RmtRec.
ScanInv ==
  ~scan.moved =>
    /\ scan.pc = "idinv" => scan.t1 = ByteOf(RmtRec, 0)
    /\ scan.pc \in {"key", "keyinv"} =>
         ByteOf(RmtRec, 0) = NoKey /\ ByteOf(RmtRec, 1) = Inverse(NoKey)
    /\ scan.pc = "keyinv" => scan.t1 = ByteOf(RmtRec, 2)

KeyInv == TypeOK /\ LineInv /\ RecInv /\ ScanInv
-----------------------------------------------------------------------------
(* Bits, bytes and codes.                                                  *)

LEMMA Sizes == W \in Nat /\ W >= 1 /\ Total \in Nat /\ Total = 4 * W /\ Total >= 4
BY RemoteAssumption DEF Total

\* The bits of a code: address, inverse, key, inverse.
LEMMA CodeBits ==
  ASSUME NEW k \in Byte
  PROVE  /\ Code(k) \in [1..Total -> Bit]
         /\ \A n \in 1..W : Code(k)[n] = 0
         /\ \A n \in (W + 1)..(2 * W) : Code(k)[n] = 1
         /\ \A i \in 1..W : Code(k)[2 * W + i] = k[i]
         /\ \A i \in 1..W : Code(k)[3 * W + i] = 1 - k[i]
<1> DEFINE C == Code(k)
<1>1. \A i \in 1..W : k[i] \in Bit
  BY DEF Byte
<1>2. \A n \in 1..Total : C[n] = CASE n <= W                  -> 0
                                   [] W < n /\ n <= 2 * W     -> 1
                                   [] 2 * W < n /\ n <= 3 * W -> k[n - 2 * W]
                                   [] OTHER                   -> 1 - k[n - 3 * W]
  BY DEF Code
<1>3. DOMAIN C = 1..Total /\ C = [n \in 1..Total |-> C[n]]
  BY DEF Code
<1> HIDE DEF C
<1>4. ASSUME NEW n \in 1..W PROVE C[n] = 0
  <2>1. n \in 1..Total /\ n <= W
    BY Sizes
  <2> QED BY <2>1, <1>2, Sizes
<1>5. ASSUME NEW n \in (W + 1)..(2 * W) PROVE C[n] = 1
  <2>1. n \in 1..Total /\ ~(n <= W) /\ W < n /\ n <= 2 * W
    BY Sizes
  <2> QED BY <2>1, <1>2, Sizes
<1>6. ASSUME NEW i \in 1..W PROVE C[2 * W + i] = k[i]
  <2>1. 2 * W + i \in 1..Total /\ (2 * W + i) - 2 * W = i
    BY Sizes
  <2> QED BY <2>1, <1>2, Sizes
<1>7. ASSUME NEW i \in 1..W PROVE C[3 * W + i] = 1 - k[i]
  <2>1. 3 * W + i \in 1..Total /\ (3 * W + i) - 3 * W = i
    BY Sizes
  <2> QED BY <2>1, <1>2, Sizes
<1>8. ASSUME NEW n \in 1..Total PROVE C[n] \in Bit
  <2>1. CASE n <= 2 * W
    BY <2>1, <1>4, <1>5, Sizes DEF Bit
  <2>2. CASE 2 * W < n /\ n <= 3 * W
    <3>1. n - 2 * W \in 1..W /\ 2 * W + (n - 2 * W) = n
      BY <2>2, Sizes
    <3>2. C[n] = k[n - 2 * W]
      BY <3>1, <1>6
    <3> QED BY <3>1, <3>2, <1>1
  <2>3. CASE 3 * W < n
    <3>1. n - 3 * W \in 1..W /\ 3 * W + (n - 3 * W) = n
      BY <2>3, Sizes
    <3>2. C[n] = 1 - k[n - 3 * W]
      BY <3>1, <1>7
    <3> QED BY <3>1, <3>2, <1>1 DEF Bit
  <2> QED BY <2>1, <2>2, <2>3, Sizes
<1>9. C \in [1..Total -> Bit]
  BY <1>3, <1>8
<1> QED BY <1>4, <1>5, <1>6, <1>7, <1>9 DEF C

LEMMA ShiftedBits ==
  ASSUME NEW r \in [1..Total -> Bit], NEW b \in Bit
  PROVE  /\ Shifted(r, b) \in [1..Total -> Bit]
         /\ Shifted(r, b)[Total] = b
         /\ \A n \in 1..(Total - 1) : Shifted(r, b)[n] = r[n + 1]
<1> DEFINE R == Shifted(r, b)
<1>1. R = [n \in 1..Total |-> IF n = Total THEN b ELSE r[n + 1]]
  BY DEF Shifted
<1>2. \A n \in 1..(Total - 1) : n \in 1..Total /\ n # Total /\ n + 1 \in 1..Total
  BY Sizes
<1> HIDE DEF R
<1>3. R[Total] = b /\ \A n \in 1..(Total - 1) : R[n] = r[n + 1]
  <2>1. Total \in 1..Total
    BY Sizes
  <2>2. R[Total] = b
    BY <1>1, <2>1
  <2>3. ASSUME NEW n \in 1..(Total - 1) PROVE R[n] = r[n + 1]
    BY <1>1, <1>2
  <2> QED BY <2>2, <2>3
<1>4. ASSUME NEW n \in 1..Total PROVE (IF n = Total THEN b ELSE r[n + 1]) \in Bit
  BY <1>2, Sizes
<1>5. R \in [1..Total -> Bit]
  BY <1>1, <1>4
<1> QED BY <1>3, <1>5 DEF R

LEMMA ByteType ==
  ASSUME NEW r \in [1..Total -> Bit], NEW n \in 0..3
  PROVE  ByteOf(r, n) \in Byte
<1>1. ASSUME NEW i \in 1..W PROVE r[n * W + i] \in Bit
  <2>1. n = 0 \/ n = 1 \/ n = 2 \/ n = 3
    OBVIOUS
  <2>2. n * W + i \in 1..Total
    BY <2>1, Sizes
  <2> QED BY <2>2
<1> QED BY <1>1 DEF ByteOf, Byte

LEMMA NoKeyType == NoKey \in Byte
BY DEF NoKey, Byte, Bit

\* What the checks of Remote_Scan say of the bits of RmtRec.
Accepted(r) ==
  /\ ByteOf(r, 0) = NoKey /\ ByteOf(r, 1) = Inverse(NoKey)
  /\ ByteOf(r, 2) = Inverse(ByteOf(r, 3)) /\ ByteOf(r, 2) # NoKey

LEMMA AcceptedBits ==
  ASSUME NEW r \in [1..Total -> Bit], Accepted(r)
  PROVE  /\ \A i \in 1..W : r[i] = 0
         /\ \A i \in 1..W : r[W + i] = 1
         /\ \A i \in 1..W : r[2 * W + i] = 1 - r[3 * W + i]
         /\ \E i \in 1..W : r[2 * W + i] # 0
<1>1. ASSUME NEW i \in 1..W PROVE r[i] = 0
  <2>1. ByteOf(r, 0)[i] = r[0 * W + i] /\ NoKey[i] = 0 /\ 0 * W + i = i
    BY Sizes DEF ByteOf, NoKey
  <2> QED BY <2>1 DEF Accepted
<1>2. ASSUME NEW i \in 1..W PROVE r[W + i] = 1
  <2>1. ByteOf(r, 1)[i] = r[1 * W + i] /\ Inverse(NoKey)[i] = 1 /\ 1 * W + i = W + i
    BY Sizes DEF ByteOf, NoKey, Inverse
  <2> QED BY <2>1 DEF Accepted
<1>3. ASSUME NEW i \in 1..W PROVE r[2 * W + i] = 1 - r[3 * W + i]
  <2>1. ByteOf(r, 2)[i] = r[2 * W + i] /\ Inverse(ByteOf(r, 3))[i] = 1 - r[3 * W + i]
    BY DEF ByteOf, Inverse
  <2> QED BY <2>1 DEF Accepted
<1>4. ASSUME \A i \in 1..W : r[2 * W + i] = 0 PROVE FALSE
  <2>1. ByteOf(r, 2) = NoKey
    BY <1>4 DEF ByteOf, NoKey
  <2> QED BY <2>1 DEF Accepted
<1> QED BY <1>1, <1>2, <1>3, <1>4

\* Between two codes the checks pass only for the key of the last one, even if
\* one of its bits was taken wrong.
LEMMA OldKey ==
  ASSUME NEW r \in [1..Total -> Bit], NEW k \in Key \cup {NoKey}, OldCode(r, k),
         Accepted(r)
  PROVE  ByteOf(r, 2) = k
<1>1. CASE k = NoKey /\ \A n \in 1..Total : r[n] = 0
  <2>1. 1 \in 1..W /\ W + 1 \in 1..Total
    BY Sizes
  <2>2. r[W + 1] = 1
    BY <2>1, AcceptedBits
  <2> QED BY <1>1, <2>1, <2>2
<1>2. CASE k \in Key /\ \E e \in 1..Total : \A n \in 1..Total : n # e => r[n] = Code(k)[n]
  <2>1. PICK e \in 1..Total : \A n \in 1..Total : n # e => r[n] = Code(k)[n]
    BY <1>2
  <2>2. k \in Byte
    BY <1>2, RemoteAssumption
  <2>3. ASSUME NEW i \in 1..W PROVE r[2 * W + i] = k[i]
    <3>1. 2 * W + i \in 1..Total /\ 3 * W + i \in 1..Total /\ 2 * W + i # 3 * W + i
      BY Sizes
    <3>2. k[i] = 0 \/ k[i] = 1
      BY <2>2 DEF Byte, Bit
    <3>3. CASE 2 * W + i # e
      BY <3>1, <3>3, <2>1, <2>2, CodeBits
    <3>4. CASE 2 * W + i = e
      <4>1. r[3 * W + i] = 1 - k[i]
        BY <3>1, <3>4, <2>1, <2>2, CodeBits
      <4>2. r[2 * W + i] = 1 - r[3 * W + i]
        BY AcceptedBits
      <4> QED BY <4>1, <4>2, <3>2
    <3> QED BY <3>3, <3>4
  <2>4. k = [i \in 1..W |-> k[i]]
    BY <2>2 DEF Byte
  <2> QED BY <2>3, <2>4 DEF ByteOf
<1> QED BY <1>1, <1>2 DEF OldCode
\* In the middle of a code they pass for nothing: the newest j bits are the first
\* ones of the code of k and the others are the last ones of V.  The proof is by
\* how many bits of the new code have come.
LEMMA WindowFails ==
  ASSUME NEW r \in [1..Total -> Bit], NEW V \in [1..Total -> Bit],
         NEW j \in 1..(Total - 1), NEW k \in Key, NEW old \in Key \cup {NoKey},
         OldCode(V, old), Pushed(r, j, V), Newest(r, j, k, 0), Accepted(r)
  PROVE  FALSE
<1> DEFINE C == Code(k)
           D == Code(old)
<1>k. k \in Byte /\ old \in Byte
  BY RemoteAssumption, NoKeyType
<1>c. /\ \A n \in 1..W : C[n] = 0
      /\ \A n \in (W + 1)..(2 * W) : C[n] = 1
  BY <1>k, CodeBits
<1>d. /\ \A n \in 1..W : D[n] = 0
      /\ \A n \in (W + 1)..(2 * W) : D[n] = 1
      /\ \A i \in 1..W : D[2 * W + i] = old[i]
      /\ \A i \in 1..W : D[3 * W + i] = 1 - old[i]
  BY <1>k, CodeBits
<1>r. /\ \A i \in 1..W : r[i] = 0
      /\ \A i \in 1..W : r[W + i] = 1
      /\ \A i \in 1..W : r[2 * W + i] = 1 - r[3 * W + i]
      /\ \E i \in 1..W : r[2 * W + i] # 0
  BY AcceptedBits
<1>new. \A n \in (Total - j + 1)..Total : r[n] = C[n - (Total - j)]
  <2>1. ASSUME NEW n \in (Total - j + 1)..Total PROVE r[n] = C[n - (Total - j)]
    <3>1. n - (Total - j) \in 1..j /\ n - (Total - j) # 0
          /\ (Total - j) + (n - (Total - j)) = n
      BY Sizes
    <3> QED BY <3>1 DEF Newest
  <2> QED BY <2>1
<1>old. \A n \in 1..(Total - j) : r[n] = V[n + j]
  BY DEF Pushed
<1> HIDE DEF C, D
<1>1. CASE old = NoKey /\ \A n \in 1..Total : V[n] = 0
  <2>1. r[W + 1] = 1
    BY <1>r, Sizes
  <2>2. CASE W + 1 <= Total - j
    <3>1. r[W + 1] = V[W + 1 + j]
      BY <2>2, <1>old, Sizes
    <3>2. V[W + 1 + j] = 0
      BY <1>1, <2>2, Sizes
    <3> QED BY <3>1, <3>2, <2>1
  <2>3. CASE Total - j < W + 1
    <3>1. r[W + 1] = C[W + 1 - (Total - j)]
      BY <2>3, <1>new, Sizes
    <3>2. C[W + 1 - (Total - j)] = 0
      BY <2>3, <1>c, Sizes
    <3> QED BY <3>1, <3>2, <2>1
  <2> QED BY <2>2, <2>3, Sizes
<1>2. CASE old \in Key /\ \E e \in 1..Total : \A n \in 1..Total : n # e => V[n] = D[n]
  <2>1. PICK e \in 1..Total : \A n \in 1..Total : n # e => V[n] = D[n]
    BY <1>2
  <2>b. \A i \in 1..W : old[i] = 0 \/ old[i] = 1
    BY <1>k DEF Byte, Bit
  \* Two bits of the address that the old code holds inverted.
  <2>2. CASE 2 <= j /\ j <= W
    <3>1. r[W - 1] = 0 /\ r[W] = 0
      BY <2>2, <1>r, Sizes
    <3>2. r[W - 1] = V[W - 1 + j] /\ r[W] = V[W + j]
      BY <2>2, <1>old, Sizes
    <3>3. D[W - 1 + j] = 1 /\ D[W + j] = 1
      BY <2>2, <1>d, Sizes
    <3>4. W - 1 + j \in 1..Total /\ W + j \in 1..Total /\ W - 1 + j # W + j
      BY <2>2, Sizes
    <3> QED BY <3>1, <3>2, <3>3, <3>4, <2>1
  <2>3. CASE W < j /\ j < 2 * W - 1
    <3>1. r[1] = 0 /\ r[2] = 0
      BY <2>3, <1>r, Sizes
    <3>2. r[1] = V[1 + j] /\ r[2] = V[2 + j]
      BY <2>3, <1>old, Sizes
    <3>3. D[1 + j] = 1 /\ D[2 + j] = 1
      BY <2>3, <1>d, Sizes
    <3>4. 1 + j \in 1..Total /\ 2 + j \in 1..Total /\ 1 + j # 2 + j
      BY <2>3, Sizes
    <3> QED BY <3>1, <3>2, <3>3, <3>4, <2>1
  \* One bit of the address is inverted; then nothing else is wrong.
  <2>4. CASE j = 1
    <3>1. e = W + 1
      <4>1. r[W] = V[W + 1] /\ r[W] = 0
        BY <2>4, <1>old, <1>r, Sizes
      <4>2. D[W + 1] = 1
        BY <1>d, Sizes
      <4>3. W + 1 # e => V[W + 1] = D[W + 1]
        BY <2>1, Sizes
      <4> QED BY <4>1, <4>2, <4>3
    <3>2. V[2 * W + 1] = old[1] /\ V[3 * W + 1] = 1 - old[1]
      <4>1. /\ 2 * W + 1 \in 1..Total /\ 2 * W + 1 # W + 1
            /\ 3 * W + 1 \in 1..Total /\ 3 * W + 1 # W + 1
            /\ 1 \in 1..W
        BY Sizes
      <4> QED BY <4>1, <3>1, <2>1, <1>d
    <3>3. r[2 * W] = 1 /\ r[2 * W] = V[2 * W + 1]
      <4>1. W \in 1..W /\ W + W = 2 * W /\ 2 * W \in 1..(Total - j)
        BY <2>4, Sizes
      <4>2. r[W + W] = 1
        BY <4>1, <1>r
      <4> QED BY <4>1, <4>2, <2>4, <1>old
    <3>4. r[3 * W] = V[3 * W + 1]
      <4>1. 3 * W \in 1..(Total - j)
        BY <2>4, Sizes
      <4> QED BY <4>1, <2>4, <1>old
    <3>5. r[4 * W] = C[1] /\ C[1] = 0
      <4>1. 4 * W \in (Total - j + 1)..Total /\ 4 * W - (Total - j) = 1 /\ 1 \in 1..W
        BY <2>4, Sizes
      <4> QED BY <4>1, <1>new, <1>c
    <3>6. r[3 * W] = 1 - r[4 * W]
      <4>1. W \in 1..W /\ 2 * W + W = 3 * W /\ 3 * W + W = 4 * W
        BY Sizes
      <4>2. r[2 * W + W] = 1 - r[3 * W + W]
        BY <4>1, <1>r
      <4> QED BY <4>1, <4>2
    <3> QED BY <3>2, <3>3, <3>4, <3>5, <3>6
  <2>5. CASE j = 2 * W - 1 /\ W < j
    <3>1. W >= 2
      BY <2>5, Sizes
    <3>2. e = 2 * W
      <4>1. r[1] = V[2 * W] /\ r[1] = 0
        BY <2>5, <1>old, <1>r, Sizes
      <4>2. D[2 * W] = 1
        BY <3>1, <1>d, Sizes
      <4>3. 2 * W # e => V[2 * W] = D[2 * W]
        BY <2>1, Sizes
      <4> QED BY <4>1, <4>2, <4>3
    <3>3. old[W] = 1
      <4>1. /\ W + 1 \in 1..(Total - j) /\ W + 1 + j = 3 * W
            /\ 3 * W \in 1..Total /\ 3 * W # 2 * W /\ 2 * W + W = 3 * W
            /\ W \in 1..W /\ 1 \in 1..W
        BY <2>5, Sizes
      <4>2. r[W + 1] = V[3 * W]
        <5>1. r[W + 1] = V[W + 1 + j]
          BY <4>1, <1>old
        <5> QED BY <5>1, <4>1
      <4>3. D[2 * W + W] = old[W]
        BY <4>1, <1>d
      <4> QED BY <4>1, <4>2, <4>3, <3>2, <2>1, <1>r
    <3>4. r[2 * W + 1] = 0
      <4>1. /\ 2 * W + 1 \in 1..(Total - j) /\ 2 * W + 1 + j = 4 * W
            /\ 4 * W \in 1..Total /\ 4 * W # 2 * W /\ 3 * W + W = 4 * W /\ W \in 1..W
        BY <2>5, Sizes
      <4>2. r[2 * W + 1] = V[4 * W]
        <5>1. r[2 * W + 1] = V[2 * W + 1 + j]
          BY <4>1, <1>old
        <5> QED BY <5>1, <4>1
      <4>3. D[3 * W + W] = 1 - old[W]
        BY <4>1, <1>d
      <4>4. V[4 * W] = D[4 * W]
        BY <4>1, <3>2, <2>1
      <4>5. D[4 * W] = 1 - old[W]
        BY <4>1, <4>3
      <4> QED BY <4>2, <4>4, <4>5, <3>3
    <3>5. ASSUME NEW i \in 2..W PROVE r[2 * W + i] = 0
      <4>1. /\ 2 * W + i \in (Total - j + 1)..Total /\ i - 1 \in 1..W
            /\ (2 * W + i) - (Total - j) = i - 1
        BY <2>5, Sizes
      <4> QED BY <4>1, <1>new, <1>c
    <3>6. ASSUME NEW i \in 1..W PROVE i = 1 \/ i \in 2..W
      BY Sizes
    <3> QED BY <3>4, <3>5, <3>6, <1>r
  \* The address of the new code has come: the key would be its bits.
  <2>6. CASE j = 2 * W
    <3>1. ASSUME NEW i \in 1..W PROVE r[2 * W + i] = 0
      <4>1. /\ 2 * W + i \in (Total - j + 1)..Total
            /\ (2 * W + i) - (Total - j) = i
        BY <2>6, Sizes
      <4> QED BY <4>1, <1>new, <1>c
    <3> QED BY <3>1, <1>r
  <2>7. CASE 2 * W < j /\ j <= 3 * W
    <3>1. /\ 2 * W \in (Total - j + 1)..Total /\ 2 * W - (Total - j) \in 1..W
          /\ W \in 1..W /\ W + W = 2 * W
      BY <2>7, Sizes
    <3>2. r[W + W] = 1
      BY <3>1, <1>r
    <3> QED BY <3>1, <3>2, <1>new, <1>c
  <2>8. CASE 3 * W < j
    <3>1. /\ W + 1 \in (Total - j + 1)..Total /\ (W + 1) - (Total - j) \in 1..W
          /\ 1 \in 1..W
      BY <2>8, Sizes
    <3> QED BY <3>1, <1>r, <1>new, <1>c
  <2> QED BY <2>2, <2>3, <2>4, <2>5, <2>6, <2>7, <2>8, Sizes
<1> QED BY <1>1, <1>2 DEF OldCode, D
-----------------------------------------------------------------------------
(* Types.                                                                  *)

LEMMA QuietSizes == MaxRepeatQuiet \in Nat /\ MinQuiet \in Nat /\ HOLD \in Nat
                    /\ QuietCap = MaxRepeatQuiet + 1 /\ MaxRepeats \in Nat
                    /\ MaxPresses \in Nat /\ MaxRepeatQuiet < HOLD
BY RemoteAssumption DEF QuietCap

\* What the receiver's variables are.
ReceiverType ==
  /\ RmtSta \in StaType /\ RmtRec \in [1..Total -> Bit] /\ RmtCnt \in 0..255
  /\ polarity \in {"rise", "fall"}

LEMMA RiseType == TypeOK /\ CaptureRise => ReceiverType'
BY DEF TypeOK, CaptureRise, ReceiverType, StaType

LEMMA FallType ==
  ASSUME NEW d \in Length, TypeOK, CaptureFall(d)
  PROVE  ReceiverType'
<1>s. RmtSta \in StaType /\ 0 \in 0..HOLD
  BY QuietSizes DEF TypeOK
<1>1. RmtSta' \in StaType
  <2>1. PICK l \in BOOLEAN, o \in 0..HOLD :
          \/ RmtSta' = RmtSta
          \/ RmtSta' = [RmtSta EXCEPT !.rise = FALSE, !.leader = l, !.ovf = o]
    <3>1. CASE polarity = "rise"
      BY <3>1, <1>s DEF CaptureFall
    <3>2. CASE polarity # "rise"
      <4>1. RmtSta.leader \in BOOLEAN /\ RmtSta.ovf \in 0..HOLD
        BY <1>s DEF StaType
      <4> QED BY <3>2, <4>1, <1>s DEF CaptureFall
    <3> QED BY <3>1, <3>2
  <2> QED BY <2>1, <1>s DEF StaType
<1>2. RmtRec' \in [1..Total -> Bit]
  <2>1. (IF d = "one" THEN 1 ELSE 0) \in Bit
    BY DEF Bit
  <2>2. Shifted(RmtRec, IF d = "one" THEN 1 ELSE 0) \in [1..Total -> Bit]
    BY <2>1, ShiftedBits DEF TypeOK
  <2> QED BY <2>2 DEF TypeOK, CaptureFall
<1>3. RmtCnt' \in 0..255
  <2>1. RmtCnt \in 0..255
    BY DEF TypeOK
  <2>2. (RmtCnt + 1) % 256 \in 0..255
    BY <2>1
  <2> QED BY <2>1, <2>2 DEF CaptureFall
<1> QED BY <1>1, <1>2, <1>3 DEF TypeOK, CaptureFall, ReceiverType

LEMMA OverflowType == TypeOK /\ Overflow => ReceiverType'
<1> SUFFICES ASSUME TypeOK, Overflow PROVE ReceiverType'
  OBVIOUS
<1>1. RmtSta \in StaType /\ 0 \in 0..HOLD
  BY QuietSizes DEF TypeOK
<1>2. RmtSta.ovf < HOLD => RmtSta.ovf + 1 \in 0..HOLD
  BY <1>1, QuietSizes DEF StaType
<1>3. PICK l \in BOOLEAN, c \in BOOLEAN, o \in 0..HOLD :
        \/ RmtSta' = RmtSta
        \/ RmtSta' = [RmtSta EXCEPT !.rise = FALSE, !.leader = l, !.complete = c, !.ovf = o]
  <2>1. CASE ~RmtSta.leader
    BY <2>1, <1>1 DEF Overflow
  <2>2. CASE RmtSta.leader /\ RmtSta.ovf < HOLD
    <3>1. (RmtSta.complete \/ RmtSta.ovf = 0) \in BOOLEAN /\ RmtSta.leader \in BOOLEAN
      BY <1>1 DEF StaType
    <3>2. RmtSta' = [RmtSta EXCEPT !.rise = FALSE, !.complete = (@ \/ RmtSta.ovf = 0),
                                   !.ovf = @ + 1]
      BY <2>2 DEF Overflow
    <3>3. RmtSta' = [RmtSta EXCEPT !.rise = FALSE, !.leader = RmtSta.leader,
                                   !.complete = (RmtSta.complete \/ RmtSta.ovf = 0),
                                   !.ovf = RmtSta.ovf + 1]
      BY <3>2, <1>1 DEF StaType
    <3> QED BY <3>1, <3>3, <2>2, <1>2
  <2>3. CASE RmtSta.leader /\ ~(RmtSta.ovf < HOLD)
    <3>1. RmtSta' = [RmtSta EXCEPT !.rise = FALSE, !.leader = FALSE, !.ovf = 0]
      BY <2>3 DEF Overflow
    <3>2. RmtSta' = [RmtSta EXCEPT !.rise = FALSE, !.leader = FALSE,
                                   !.complete = RmtSta.complete, !.ovf = 0]
      BY <3>1, <1>1 DEF StaType
    <3>3. RmtSta.complete \in BOOLEAN
      BY <1>1 DEF StaType
    <3> QED BY <3>2, <3>3, <1>1
  <2> QED BY <2>1, <2>2, <2>3
<1>4. RmtSta' \in StaType
  BY <1>1, <1>3 DEF StaType
<1> QED BY <1>4 DEF TypeOK, Overflow, ReceiverType

LEMMA InterruptsType ==
  ASSUME TypeOK, Interrupts
  PROVE  scan' \in ScanType
BY DEF TypeOK, Interrupts, ScanType

BaseInv == TypeOK /\ LineInv

LEMMA BaseInit == Init => BaseInv
<1> SUFFICES ASSUME Init PROVE BaseInv
  OBVIOUS
<1>1. RmtSta \in StaType /\ Rest \in StaType
  BY QuietSizes DEF Init, StaType, Rest
<1>2. RmtRec \in [1..Total -> Bit]
  BY DEF Init, Bit
<1>3. line \in LineType /\ quiet \in 0..QuietCap
  BY QuietSizes, Sizes DEF Init, LineType
<1>4. scan \in ScanType
  BY <1>1, NoKeyType, QuietSizes DEF Init, ScanType
<1>5. RmtCnt \in 0..255 /\ polarity \in {"rise", "fall"} /\ presses \in 0..MaxPresses
      /\ last \in Key \cup {NoKey}
  BY QuietSizes DEF Init
<1>b. slipped \in BOOLEAN /\ owed \in BOOLEAN /\ seen \in BOOLEAN
  BY DEF Init
<1>c. TypeOK
  BY <1>1, <1>2, <1>3, <1>4, <1>5, <1>b DEF TypeOK
<1>6. LineInv
  BY DEF Init, LineInv
<1> QED BY <1>c, <1>6 DEF BaseInv

\* What the steps of Remote_Scan leave alone; its store changes the history.
LEMMA ScanLeaves ==
  ASSUME Scan
  PROVE  /\ UNCHANGED <<RmtRec, polarity, last>>
         /\ \/ UNCHANGED <<RmtSta, line, slipped>>
            \/ /\ ScanStore
               /\ \E h \in BOOLEAN : line' = [line EXCEPT !.short = (@ \/ h)]
BY DEF Scan, ScanBegin, ScanFirst, ScanIdInv, ScanKeyInv, ScanTest, ScanLoad, ScanStore,
   ScanCount, receiver, history

LEMMA BaseNext == BaseInv /\ [Next]_vars => BaseInv'
<1> SUFFICES ASSUME BaseInv, [Next]_vars PROVE BaseInv'
  OBVIOUS
<1> USE DEF BaseInv
<1>t. line \in LineType /\ scan \in ScanType /\ quiet \in 0..QuietCap
      /\ presses \in 0..MaxPresses
  BY DEF TypeOK
<1>1. ASSUME NEW k \in Key, Press(k) PROVE BaseInv'
  <2>1. ReceiverType' /\ polarity' = "rise"
    BY <1>1, FallType DEF Press, StartCode, CaptureFall
  <2>2. line' = [line EXCEPT !.key = k, !.again = 0, !.bits = 0, !.odd = FALSE,
                             !.ph = "mark", !.ticked = FALSE]
    BY <1>1, <1>t DEF Press, StartCode, LineType
  <2>3. line' \in LineType
    <3>1. 0 \in 0..MaxRepeats /\ 0 \in 0..Total
      BY QuietSizes, Sizes
    <3> QED BY <3>1, <2>2, <1>t DEF LineType
  <2>i. LineInv'
    <3>1. line'.ph = "mark" /\ line'.bits = 0 /\ line'.key = k
      BY <2>2, <1>t DEF LineType
    <3> QED BY <3>1 DEF LineInv
  <2>4. scan' \in ScanType
    BY <1>1, InterruptsType DEF Press
  <2>5. quiet' \in 0..QuietCap /\ presses' \in 0..MaxPresses
    BY <1>1, <1>t, QuietSizes DEF Press, StartCode
  <2>6. slipped' \in BOOLEAN /\ owed' \in BOOLEAN /\ seen' \in BOOLEAN /\ last' = last
    BY <1>1 DEF Press, TypeOK
  <2> QED BY <2>1, <2>3, <2>i, <2>4, <2>5, <2>6 DEF TypeOK, ReceiverType
<1>2. ASSUME Repeat PROVE BaseInv'
  <2>1. ReceiverType' /\ polarity' = "rise"
    BY <1>2, FallType DEF Repeat, StartCode, CaptureFall
  <2>2. line' = [line EXCEPT !.again = line.again + 1, !.ph = "mark", !.ticked = FALSE]
        /\ line.again + 1 \in 0..MaxRepeats /\ line.key # NoKey /\ line.ph = "idle"
    BY <1>2, <1>t, QuietSizes DEF Repeat, StartCode, LineType
  <2>3. line' \in LineType /\ LineInv'
    BY <2>1, <2>2, <1>t, Sizes DEF LineType, LineInv
  <2>4. scan' \in ScanType
    BY <1>2, InterruptsType DEF Repeat
  <2>5. quiet' \in 0..QuietCap /\ presses' = presses
    BY <1>2, QuietSizes DEF Repeat, StartCode
  <2>6. slipped' \in BOOLEAN /\ owed' \in BOOLEAN /\ seen' = seen /\ last' = last
    BY <1>2 DEF Repeat, TypeOK
  <2> QED BY <2>1, <2>3, <2>4, <2>5, <2>6 DEF TypeOK, ReceiverType
<1>3. ASSUME Tick PROVE BaseInv'
  <2>1. ReceiverType' /\ polarity' = polarity
    BY <1>3, OverflowType DEF Tick, Overflow
  <2>2. line' \in LineType /\ LineInv'
    BY <2>1, <1>3, <1>t, Sizes DEF Tick, LineType, LineInv
  <2>3. scan' \in ScanType
    BY <1>3, InterruptsType DEF Tick
  <2>4. quiet' \in 0..QuietCap
    BY <1>3, <1>t, QuietSizes DEF Tick
  <2> QED BY <1>3, <2>1, <2>2, <2>3, <2>4 DEF TypeOK, ReceiverType, Tick, history
<1>4. ASSUME Rise PROVE BaseInv'
  <2>1. ReceiverType' /\ polarity' = "fall"
    BY <1>4, RiseType DEF Rise, CaptureRise
  <2>2. line' \in LineType
    BY <1>4, <1>t DEF Rise, LineType
  <2>3. LineInv'
    BY <2>1, <1>4, <1>t, Sizes DEF Rise, LineType, LineInv
  <2>4. scan' \in ScanType
    BY <1>4, InterruptsType DEF Rise
  <2>5. quiet' \in 0..QuietCap
    BY <1>4, <1>t, QuietSizes DEF Rise
  <2> QED BY <1>4, <2>1, <2>2, <2>3, <2>4, <2>5 DEF TypeOK, ReceiverType, Rise, history
<1>5. ASSUME NEW d \in Length, LeaderEnds(d) PROVE BaseInv'
  <2>1. ReceiverType' /\ polarity' = "rise"
    BY <1>5, FallType DEF LeaderEnds, CaptureFall
  <2>2. line' \in LineType /\ LineInv'
    BY <2>1, <1>5, <1>t, Sizes DEF LeaderEnds, LineType, LineInv
  <2>3. scan' \in ScanType
    BY <1>5, InterruptsType DEF LeaderEnds
  <2>4. owed' \in BOOLEAN /\ slipped' \in BOOLEAN
    BY <1>5 DEF LeaderEnds, TypeOK, StaType
  <2> QED BY <1>5, <2>1, <2>2, <2>3, <2>4 DEF TypeOK, ReceiverType, LeaderEnds
<1>6. ASSUME NEW d \in Length, BitEnds(d) PROVE BaseInv'
  <2>1. ReceiverType' /\ polarity' = "rise"
    BY <1>6, FallType DEF BitEnds, CaptureFall
  <2>2. line.ph = "high" /\ line.bits + 1 \in 1..Total /\ line.key \in Key
    BY <1>6, <1>t, Sizes DEF BitEnds, LineInv, LineType
  <2>3. line' \in LineType
    <3>1. PICK o \in BOOLEAN, h \in BOOLEAN :
            line' = [line EXCEPT !.ph = "low", !.bits = line.bits + 1, !.odd = o, !.short = h]
      BY <1>6, <1>t DEF BitEnds, LineType
    <3>2. line.bits + 1 \in 0..Total
      BY <2>2, Sizes
    <3> QED BY <3>1, <3>2, <1>t DEF LineType
  <2>4. line'.ph = "low" /\ line'.bits = line.bits + 1 /\ line'.key = line.key
    BY <1>6, <1>t DEF BitEnds, LineType
  <2>5. LineInv'
    BY <2>1, <2>2, <2>4, Sizes DEF LineInv
  <2>6. scan' \in ScanType
    BY <1>6, InterruptsType DEF BitEnds
  <2>7. last' \in Key \cup {NoKey} /\ owed' \in BOOLEAN /\ slipped' \in BOOLEAN
    BY <1>6, <2>2 DEF BitEnds, TypeOK, StaType
  <2> QED BY <1>6, <2>1, <2>3, <2>5, <2>6, <2>7 DEF TypeOK, ReceiverType, BitEnds
<1>7. ASSUME Scan PROVE BaseInv'
  <2>b. /\ ByteOf(RmtRec, 0) \in Byte /\ ByteOf(RmtRec, 2) \in Byte
        /\ NoKey \in Byte /\ Rest \in StaType
    BY ByteType, NoKeyType, QuietSizes DEF TypeOK, StaType, Rest
  <2>1. scan' \in ScanType
    <3>1. CASE ScanBegin
      BY <3>1, <1>t, <2>b DEF ScanBegin, ScanType
    <3>2. CASE ScanFirst
      BY <3>2, <1>t, <2>b DEF ScanFirst, ScanType
    <3>3. CASE ScanIdInv
      BY <3>3, <1>t, <2>b DEF ScanIdInv, ScanType
    <3>4. CASE ScanKeyInv
      BY <3>4, <1>t, <2>b DEF ScanKeyInv, ScanType
    <3>5. CASE ScanTest
      BY <3>5, <1>t DEF ScanTest, Return, ScanType
    <3>6. CASE ScanLoad
      BY <3>6, <1>t DEF ScanLoad, ScanType, TypeOK
    <3>7. CASE ScanStore
      BY <3>7, <1>t, <2>b DEF ScanStore, ScanType
    <3>8. CASE ScanCount
      BY <3>8, <1>t DEF ScanCount, Return, ScanType
    <3> QED BY <1>7, <3>1, <3>2, <3>3, <3>4, <3>5, <3>6, <3>7, <3>8 DEF Scan
  <2>2. RmtSta' \in StaType /\ RmtCnt' \in 0..255 /\ UNCHANGED <<RmtRec, polarity>>
    <3>1. CASE ScanStore
      BY <3>1, <1>t DEF ScanStore, TypeOK, ScanType, StaType
    <3>2. CASE ScanCount
      BY <3>2 DEF ScanCount, TypeOK
    <3>3. CASE UNCHANGED receiver
      BY <3>3 DEF receiver, TypeOK
    <3> QED BY <1>7, <3>1, <3>2, <3>3 DEF Scan, ScanBegin, ScanFirst, ScanIdInv, ScanKeyInv,
              ScanTest, ScanLoad
  <2>3. /\ UNCHANGED <<quiet, presses, last>>
        /\ owed' \in BOOLEAN /\ seen' \in BOOLEAN /\ slipped' \in BOOLEAN
    BY <1>7 DEF Scan, ScanBegin, ScanFirst, ScanIdInv, ScanKeyInv, ScanTest, ScanLoad,
       ScanStore, ScanCount, Return, history, TypeOK
  <2>4. \E h \in BOOLEAN : line' = [line EXCEPT !.short = h]
    BY <1>7, <1>t, ScanLeaves DEF LineType
  <2>5. line' \in LineType /\ LineInv'
    BY <2>2, <2>4, <1>t DEF LineType, LineInv
  <2> QED BY <2>1, <2>2, <2>3, <2>5 DEF TypeOK
<1>8. CASE UNCHANGED vars
  BY <1>8 DEF vars, receiver, history, TypeOK, LineInv
<1> QED BY <1>1, <1>2, <1>3, <1>4, <1>5, <1>6, <1>7, <1>8 DEF Next, CodeGoesOn

\* The variables keep their types: in particular the overflow count stays within
\* its four bits and the bits of a code within Total.
THEOREM TypeCorrect == Spec => []TypeOK
<1>1. BaseInv => TypeOK
  BY DEF BaseInv
<1> QED BY <1>1, BaseInit, BaseNext, PTL DEF Spec
-----------------------------------------------------------------------------
(* The handlers and the call they interrupt.                               *)

LEMMA FallBits ==
  ASSUME NEW d \in Length, TypeOK, CaptureFall(d)
  PROVE  /\ RmtSta.leader => RmtSta'.leader
         /\ ~RmtSta.leader => RmtRec' = RmtRec
         /\ RmtSta.leader /\ polarity = "fall" /\ RmtSta.rise /\ d \in {"zero", "one"}
              => RmtRec' = Shifted(RmtRec, IF d = "one" THEN 1 ELSE 0)
BY DEF CaptureFall, TypeOK, StaType

LEMMA InterruptBits ==
  ASSUME TypeOK, Interrupts
  PROVE  /\ scan'.pc = scan.pc /\ scan'.t1 = scan.t1 /\ scan'.sta = scan.sta
         /\ scan'.reg = scan.reg
         /\ scan.pc # "out" /\ ~scan'.moved => ~scan.moved /\ RmtRec' = RmtRec
BY DEF Interrupts, TypeOK, ScanType

LEMMA ScanKept ==
  ASSUME TypeOK, ScanInv, Interrupts
  PROVE  ScanInv'
<1>1. CASE scan.pc = "out"
  BY <1>1, InterruptBits DEF ScanInv
<1>2. CASE scan.pc # "out"
  <2>1. ASSUME ~scan'.moved PROVE ~scan.moved /\ RmtRec' = RmtRec
    BY <1>2, <2>1, InterruptBits
  <2> QED BY <2>1, InterruptBits DEF ScanInv
<1> QED BY <1>1, <1>2

LEMMA ScanNext == BaseInv /\ ScanInv /\ [Next]_vars => ScanInv'
<1> SUFFICES ASSUME BaseInv, ScanInv, [Next]_vars PROVE ScanInv'
  OBVIOUS
<1>t. TypeOK /\ scan \in ScanType
  BY DEF BaseInv, TypeOK
<1>1. CASE Interrupts
  BY <1>1, <1>t, ScanKept
<1>2. CASE Scan
  <2>r. RmtRec' = RmtRec
    BY <1>2, ScanLeaves
  <2>1. CASE ScanBegin
    BY <2>1, <1>t DEF ScanBegin, ScanInv, ScanType
  <2>2. CASE ScanFirst
    BY <2>2, <2>r, <1>t DEF ScanFirst, ScanInv, ScanType
  <2>3. CASE ScanIdInv
    <3>1. ASSUME ~scan'.moved, scan'.pc = "key"
          PROVE  ByteOf(RmtRec, 0) = NoKey /\ ByteOf(RmtRec, 1) = Inverse(NoKey)
      <4>1. ~scan.moved /\ scan.pc = "idinv"
            /\ scan.t1 = Inverse(ByteOf(RmtRec, 1)) /\ scan.t1 = NoKey
        BY <2>3, <3>1, <1>t DEF ScanIdInv, ScanType
      <4>2. scan.t1 = ByteOf(RmtRec, 0)
        BY <4>1 DEF ScanInv
      <4>3. ASSUME NEW i \in 1..W PROVE ByteOf(RmtRec, 1)[i] = 1
        <5>1. NoKey[i] = 1 - ByteOf(RmtRec, 1)[i] /\ NoKey[i] = 0
          BY <4>1 DEF Inverse, NoKey
        <5>2. ByteOf(RmtRec, 1) \in Byte
          BY <1>t, ByteType DEF TypeOK
        <5>3. ByteOf(RmtRec, 1)[i] \in Bit
          BY <5>2 DEF Byte
        <5> QED BY <5>1, <5>3 DEF Bit
      <4>4. ByteOf(RmtRec, 1) = [i \in 1..W |-> 1]
        BY <4>3 DEF ByteOf
      <4>5. Inverse(NoKey) = [i \in 1..W |-> 1]
        BY DEF Inverse, NoKey
      <4> QED BY <4>1, <4>2, <4>4, <4>5
    <3>2. scan'.pc \in {"key", "test"}
      BY <2>3, <1>t DEF ScanIdInv, ScanType
    <3> QED BY <3>1, <3>2, <2>r DEF ScanInv
  <2>4. CASE ScanKeyInv
    BY <2>4, <1>t DEF ScanKeyInv, ScanInv, ScanType
  <2>5. CASE ScanTest
    BY <2>5, <1>t DEF ScanTest, Return, ScanInv, ScanType
  <2>6. CASE ScanLoad
    BY <2>6, <1>t DEF ScanLoad, ScanInv, ScanType
  <2>7. CASE ScanStore
    BY <2>7, <1>t DEF ScanStore, ScanInv, ScanType
  <2>8. CASE ScanCount
    BY <2>8, <1>t DEF ScanCount, Return, ScanInv, ScanType
  <2> QED BY <1>2, <2>1, <2>2, <2>3, <2>4, <2>5, <2>6, <2>7, <2>8 DEF Scan
<1>3. CASE UNCHANGED vars
  BY <1>3 DEF vars, receiver, ScanInv
<1> QED BY <1>1, <1>2, <1>3 DEF Next, CodeGoesOn, Press, Repeat, Tick, Rise, LeaderEnds, BitEnds

-----------------------------------------------------------------------------
(* What RmtRec holds.                                                      *)

\* Between two codes nothing is shifted in without slipped being set.
LEMMA RecBetween ==
  ASSUME RecInv, line.bits \in {0, Total}, line'.bits \in {0, Total}, last' = last,
         ~slipped' => ~slipped /\ RmtRec' = RmtRec
  PROVE  RecInv'
<1>1. ~MidCode
  BY Sizes DEF MidCode
<1>2. ~(0 < line'.bits /\ line'.bits < Total)
  BY Sizes
<1>3. ~slipped' => OldCode(RmtRec', last')
  BY <1>1 DEF RecInv, StillInv
<1> QED BY <1>2, <1>3 DEF RecInv, NewInv, PushInv, StillInv, ShortInv, MidCode

LEMMA RecSame ==
  ASSUME RecInv, UNCHANGED <<RmtRec, last, slipped>>, RmtSta'.leader = RmtSta.leader,
         line'.bits = line.bits, line'.key = line.key, line'.odd = line.odd,
         line'.short = line.short
  PROVE  RecInv'
BY DEF RecInv, NewInv, PushInv, StillInv, ShortInv, MidCode

\* The store of Remote_Scan may undo the beginning or the end of a hold; in the
\* middle of a code that is noted.
LEMMA RecStore ==
  ASSUME BaseInv, RecInv, ScanStore
  PROVE  RecInv'
<1> DEFINE splits == line.bits \in 1..(Total - 1) /\ RmtSta'.leader # RmtSta.leader
<1>1. /\ UNCHANGED <<RmtRec, last>> /\ slipped' = (slipped \/ splits)
      /\ line' = [line EXCEPT !.short = (@ \/ splits)] /\ line \in LineType
  BY DEF ScanStore, BaseInv, TypeOK
<1>2. /\ line'.bits = line.bits /\ line'.key = line.key /\ line'.odd = line.odd
      /\ line'.short = (line.short \/ splits)
  BY <1>1 DEF LineType
<1>b. line.short \in BOOLEAN /\ slipped \in BOOLEAN
  BY <1>1 DEF BaseInv, TypeOK, LineType
<1>3. CASE RmtSta'.leader = RmtSta.leader
  <2>1. line'.short = line.short /\ slipped' = slipped
    BY <1>1, <1>2, <1>3, <1>b
  <2> QED BY <1>1, <1>2, <1>3, <2>1, RecSame
<1>4. CASE RmtSta'.leader # RmtSta.leader
  <2>1. MidCode <=> line.bits \in 1..(Total - 1)
    BY <1>1, Sizes DEF MidCode, LineType
  <2>2. CASE MidCode
    <3>1. line'.short /\ slipped'
      BY <1>1, <1>2, <1>4, <2>1, <2>2
    <3> QED BY <3>1 DEF RecInv, NewInv, PushInv, StillInv, ShortInv
  <2>3. CASE ~MidCode
    <3>1. ~MidCode'
      BY <1>2, <2>3 DEF MidCode
    <3>2. slipped' = slipped
      BY <1>1, <1>b, <2>1, <2>3
    <3>3. ~slipped => OldCode(RmtRec, last)
      BY <2>3 DEF RecInv, StillInv
    <3> QED BY <3>1, <3>2, <3>3, <1>1 DEF RecInv, NewInv, PushInv, StillInv, ShortInv
  <2> QED BY <2>2, <2>3
<1> QED BY <1>3, <1>4

\* One more bit of a code.
LEMMA RecBit ==
  ASSUME NEW d \in Length, BaseInv, RecInv, BitEnds(d)
  PROVE  RecInv'
<1> DEFINE j == line.bits
           k == line.key
           ends == j + 1 = Total
           clean == j = 0 \/ ~line.short
           taken == RmtSta.rise /\ d \in {"zero", "one"}
           slip == \/ RmtSta.leader /\ ~taken
                   \/ RmtSta'.leader # RmtSta.leader
           b == IF d = "one" THEN 1 ELSE 0
<1>t. /\ TypeOK /\ LineInv /\ RmtRec \in [1..Total -> Bit] /\ j \in Nat /\ j < Total
      /\ k \in Key /\ k \in Byte /\ polarity = "fall" /\ line \in LineType
      /\ b \in Bit
  BY RemoteAssumption, Sizes DEF BaseInv, TypeOK, LineInv, LineType, BitEnds, Bit
<1>f. CaptureFall(d)
  BY DEF BitEnds
<1>1. /\ line'.bits = j + 1 /\ line'.key = k
      /\ line'.odd = (line.odd \/ d # BitOf(k, j))
      /\ line'.short = (~ends /\ (~clean \/ slip))
      /\ line.odd => d = BitOf(k, j)
      /\ last' = IF ends /\ RmtSta.leader THEN k ELSE last
      /\ slipped' = IF ends /\ RmtSta.leader THEN ~clean \/ slip ELSE slipped \/ slip
  BY <1>t DEF BitEnds, LineType, Measured
<1>2. ~RmtSta.leader => RmtRec' = RmtRec
  BY <1>t, <1>f, FallBits
<1>3. RmtSta.leader /\ ~slip => RmtRec' = Shifted(RmtRec, b)
  BY <1>t, <1>f, FallBits
<1>b. /\ d = BitOf(k, j) /\ d \in {"zero", "one"} => b = Code(k)[j + 1]
      /\ j + 1 \in 1..Total
  <2>1. j + 1 \in 1..Total
    BY <1>t, Sizes
  <2>2. Code(k)[j + 1] = 0 \/ Code(k)[j + 1] = 1
    <3>1. Code(k) \in [1..Total -> Bit]
      BY <1>t, CodeBits
    <3>2. Code(k)[j + 1] \in Bit
      BY <3>1, <2>1
    <3> QED BY <3>2 DEF Bit
  <2> QED BY <2>1, <2>2 DEF BitOf
<1> HIDE DEF slip, b
<1>s. RmtSta.leader /\ ~slip => d \in {"zero", "one"} /\ RmtSta'.leader
  BY DEF slip
\* The newest bits, whether the code ends or not.
<1>4. ASSUME RmtSta.leader, ~slip, clean
      PROVE  \E e \in 0..(j + 1) : (~line'.odd => e = 0) /\ Newest(RmtRec', j + 1, k, e)
  <2>1. PICK e \in 0..j : (~line.odd => e = 0) /\ Newest(RmtRec, j, k, e)
    <3>1. CASE j = 0
      <4>1. Newest(RmtRec, j, k, 0) /\ 0 \in 0..j
        BY <3>1 DEF Newest
      <4> QED BY <4>1
    <3>2. CASE j # 0
      <4>1. MidCode /\ ~line.short
        BY <3>2, <1>t, <1>4 DEF MidCode
      <4> QED BY <4>1, <1>4 DEF RecInv, NewInv
    <3> QED BY <3>1, <3>2
  <2>2. /\ \A n \in 1..(Total - 1) : RmtRec'[n] = RmtRec[n + 1]
        /\ RmtRec'[Total] = b
    <3>1. RmtRec' = Shifted(RmtRec, b)
      BY <1>3, <1>4
    <3>2. RmtRec \in [1..Total -> Bit] /\ b \in Bit
      BY <1>t
    <3> QED BY <3>1, <3>2, ShiftedBits
  <2>3. ASSUME NEW n \in 1..j, n # e
        PROVE  RmtRec'[(Total - (j + 1)) + n] = Code(k)[n]
    <3>1. (Total - (j + 1)) + n \in 1..(Total - 1) /\ ((Total - (j + 1)) + n) + 1 = (Total - j) + n
      BY <1>t, Sizes
    <3> QED BY <3>1, <2>1, <2>2, <2>3 DEF Newest
  <2>4. (Total - (j + 1)) + (j + 1) = Total
    BY <1>t, Sizes
  <2>5. \A n \in 1..(j + 1) : n \in 1..j \/ n = j + 1
    BY <1>t
  <2>6. CASE d = BitOf(k, j)
    <3>1. RmtRec'[(Total - (j + 1)) + (j + 1)] = Code(k)[j + 1]
      BY <2>2, <2>4, <2>6, <1>b, <1>s, <1>4
    <3>2. Newest(RmtRec', j + 1, k, e)
      BY <3>1, <2>3, <2>5 DEF Newest
    <3>3. e \in 0..(j + 1)
      BY <2>1, <1>t
    <3>4. ~line'.odd => e = 0
      BY <2>1, <1>1
    <3> QED BY <3>2, <3>3, <3>4
  <2>7. CASE d # BitOf(k, j)
    <3>1. ~line.odd /\ line'.odd
      BY <2>7, <1>1
    <3>2. e = 0 /\ j + 1 \in 0..(j + 1)
      BY <3>1, <2>1, <1>t
    <3>3. \A n \in 1..j : n # 0
      OBVIOUS
    <3>4. Newest(RmtRec', j + 1, k, j + 1)
      BY <3>2, <3>3, <2>3, <2>5 DEF Newest
    <3> QED BY <3>1, <3>2, <3>4
  <2> QED BY <2>6, <2>7
<1>5. NewInv'
  <2> SUFFICES ASSUME MidCode', ~line'.short, RmtSta'.leader
               PROVE  \E e \in 0..line'.bits :
                        (~line'.odd => e = 0) /\ Newest(RmtRec', line'.bits, line'.key, e)
    BY DEF NewInv
  <2>1. ~ends
    BY <1>1, <1>t, Sizes DEF MidCode
  <2>2. clean /\ ~slip
    BY <2>1, <1>1
  <2>3. RmtSta.leader
    BY <2>2 DEF slip
  <2> QED BY <2>2, <2>3, <1>1, <1>4
<1>6. PushInv'
  <2> SUFFICES ASSUME MidCode', ~slipped', RmtSta'.leader
               PROVE  \E V \in [1..Total -> Bit] :
                        OldCode(V, last') /\ Pushed(RmtRec', line'.bits, V)
    BY DEF PushInv
  <2>1. ~ends
    BY <1>1, <1>t, Sizes DEF MidCode
  <2>2. ~slip /\ ~slipped /\ last' = last
    BY <2>1, <1>1
  <2>3. RmtSta.leader
    BY <2>2 DEF slip
  <2>4. PICK V \in [1..Total -> Bit] : OldCode(V, last) /\ Pushed(RmtRec, j, V)
    <3>1. CASE j = 0
      <4>1. OldCode(RmtRec, last)
        BY <3>1, <2>2, <1>t DEF RecInv, StillInv, MidCode
      <4>2. Pushed(RmtRec, j, RmtRec)
        BY <3>1, Sizes DEF Pushed
      <4> QED BY <4>1, <4>2, <1>t
    <3>2. CASE j # 0
      <4>1. MidCode
        BY <3>2, <1>t DEF MidCode
      <4> QED BY <4>1, <2>2, <2>3 DEF RecInv, PushInv
    <3> QED BY <3>1, <3>2
  <2>5. \A n \in 1..(Total - 1) : RmtRec'[n] = RmtRec[n + 1]
    <3>1. RmtRec' = Shifted(RmtRec, b)
      BY <1>3, <2>2, <2>3
    <3>2. RmtRec \in [1..Total -> Bit] /\ b \in Bit
      BY <1>t
    <3> QED BY <3>1, <3>2, ShiftedBits
  <2>6. ASSUME NEW n \in 1..(Total - (j + 1)) PROVE RmtRec'[n] = V[n + (j + 1)]
    <3>1. n \in 1..(Total - 1) /\ n + 1 \in 1..(Total - j) /\ (n + 1) + j = n + (j + 1)
      BY <1>t, Sizes
    <3> QED BY <3>1, <2>4, <2>5 DEF Pushed
  <2>7. Pushed(RmtRec', line'.bits, V)
    BY <2>6, <1>1 DEF Pushed
  <2> QED BY <2>4, <2>7, <2>2
<1>7. StillInv'
  <2> SUFFICES ASSUME ~slipped', ~(MidCode' /\ RmtSta'.leader)
               PROVE  OldCode(RmtRec', last')
    BY DEF StillInv
  <2>1. CASE RmtSta.leader
    <3>1. ~slip
      BY <2>1, <1>1
    <3>2. ends
      BY <3>1, <2>1, <1>s, <1>1, <1>t, Sizes DEF MidCode
    <3>3. clean /\ last' = k
      BY <3>2, <2>1, <1>1
    <3>4. PICK e \in 0..(j + 1) : Newest(RmtRec', j + 1, k, e)
      BY <2>1, <3>1, <3>3, <1>4
    <3>5. \A n \in 1..Total : n # e => RmtRec'[n] = Code(k)[n]
      <4>1. ASSUME NEW n \in 1..Total, n # e PROVE RmtRec'[n] = Code(k)[n]
        <5>1. n \in 1..(j + 1) /\ (Total - (j + 1)) + n = n
          BY <3>2, Sizes
        <5> QED BY <5>1, <4>1, <3>4 DEF Newest
      <4> QED BY <4>1
    <3>6. CASE e = 0
      <4>1. 1 \in 1..Total /\ \A n \in 1..Total : n # 0
        BY Sizes
      <4> QED BY <4>1, <3>3, <3>5, <3>6, <1>t DEF OldCode
    <3>7. CASE e # 0
      <4>1. e \in 1..Total
        BY <3>7, <3>2, <1>t, Sizes
      <4> QED BY <4>1, <3>3, <3>5, <1>t DEF OldCode
    <3> QED BY <3>6, <3>7
  <2>2. CASE ~RmtSta.leader
    <3>1. ~slipped /\ last' = last /\ RmtRec' = RmtRec
      BY <2>2, <1>1, <1>2
    <3> QED BY <3>1, <2>2 DEF RecInv, StillInv
  <2> QED BY <2>1, <2>2
<1>8. ShortInv'
  <2> SUFFICES ASSUME MidCode', line'.short PROVE slipped'
    BY DEF ShortInv
  <2>1. ~ends /\ (~clean \/ slip)
    BY <1>1
  <2>2. ~clean => slipped
    BY <1>t DEF RecInv, ShortInv, MidCode
  <2> QED BY <2>1, <2>2, <1>1
<1> QED BY <1>5, <1>6, <1>7, <1>8 DEF RecInv

LEMMA RecInit == Init => RecInv
<1> SUFFICES ASSUME Init PROVE RecInv
  OBVIOUS
<1>1. ~MidCode
  BY DEF Init, MidCode
<1>2. OldCode(RmtRec, last)
  BY DEF Init, OldCode
<1> QED BY <1>1, <1>2 DEF RecInv, NewInv, PushInv, StillInv, ShortInv

LEMMA RecNext == BaseInv /\ RecInv /\ [Next]_vars => RecInv'
<1> SUFFICES ASSUME BaseInv, RecInv, [Next]_vars PROVE RecInv'
  OBVIOUS
<1>t. TypeOK /\ LineInv /\ line \in LineType
  BY DEF BaseInv, TypeOK
<1>i. line.ph \in {"idle", "mark", "space"} => line.bits \in {0, Total}
  BY <1>t DEF LineInv
<1>1. ASSUME NEW k \in Key, Press(k) PROVE RecInv'
  <2>1. /\ line.ph = "idle" /\ line'.bits = 0 /\ last' = last
        /\ ~slipped' => ~slipped /\ RmtRec' = RmtRec
    BY <1>1, <1>t DEF Press, StartCode, LineType, TypeOK
  <2> QED BY <2>1, <1>i, RecBetween
<1>2. ASSUME Repeat PROVE RecInv'
  <2>1. /\ line.ph = "idle" /\ line'.bits = line.bits /\ last' = last
        /\ ~slipped' => ~slipped /\ RmtRec' = RmtRec
    BY <1>2, <1>t DEF Repeat, StartCode, LineType, TypeOK
  <2> QED BY <2>1, <1>i, RecBetween
<1>3. ASSUME Tick PROVE RecInv'
  <2>1. /\ line.ph \in {"idle", "mark"} /\ line'.bits = line.bits
        /\ UNCHANGED <<last, slipped, RmtRec>>
    BY <1>3, <1>t DEF Tick, Overflow, LineType, history
  <2> QED BY <2>1, <1>i, RecBetween
<1>4. ASSUME Rise PROVE RecInv'
  <2>1. /\ UNCHANGED <<RmtRec, last, slipped>> /\ RmtSta'.leader = RmtSta.leader
        /\ line'.bits = line.bits /\ line'.key = line.key /\ line'.odd = line.odd
        /\ line'.short = line.short
    BY <1>4, <1>t DEF Rise, CaptureRise, LineType, history, TypeOK, StaType
  <2> QED BY <2>1, RecSame
<1>5. ASSUME NEW d \in Length, LeaderEnds(d) PROVE RecInv'
  <2>1. /\ line.ph = "space" /\ line'.bits = line.bits /\ last' = last
        /\ ~slipped' => ~slipped /\ RmtRec' = RmtRec
    BY <1>5, <1>t DEF LeaderEnds, LineType, TypeOK
  <2> QED BY <2>1, <1>i, RecBetween
<1>6. ASSUME NEW d \in Length, BitEnds(d) PROVE RecInv'
  BY <1>6, RecBit
<1>7. ASSUME Scan PROVE RecInv'
  <2>1. CASE ScanStore
    BY <2>1, RecStore
  <2>2. CASE UNCHANGED <<RmtSta, line, slipped>>
    BY <2>2, <1>7, ScanLeaves, RecSame
  <2> QED BY <1>7, <2>1, <2>2, ScanLeaves
<1>8. CASE UNCHANGED vars
  BY <1>8, RecSame DEF vars, receiver, history
<1> QED BY <1>1, <1>2, <1>3, <1>4, <1>5, <1>6, <1>7, <1>8 DEF Next, CodeGoesOn
-----------------------------------------------------------------------------
(* The key that is reported.                                               *)

LEMMA KeyNext == KeyInv /\ [Next]_vars => KeyInv'
<1>1. KeyInv /\ [Next]_vars => BaseInv'
  BY BaseNext DEF KeyInv, BaseInv
<1>2. KeyInv /\ [Next]_vars => RecInv'
  BY RecNext DEF KeyInv, BaseInv
<1>3. KeyInv /\ [Next]_vars => ScanInv'
  BY ScanNext DEF KeyInv, BaseInv
<1> QED BY <1>1, <1>2, <1>3 DEF KeyInv, BaseInv

LEMMA KeyInit == Init => KeyInv
<1>1. Init => ScanInv
  BY DEF Init, ScanInv
<1> QED BY <1>1, BaseInit, RecInit DEF KeyInv, BaseInv

\* What ReportedKeyIsLast says of one step.
KeyStep ==
  scan'.sta # scan.sta /\ scan'.sta # NoKey /\ ~scan.moved /\ ~slipped
    /\ (line.bits < Total => ~line.odd) => scan'.sta = last

\* RmtRec passes the checks: the last of the four reads takes the key from it.
LEMMA TakenKey ==
  ASSUME KeyInv, ~slipped, line.bits < Total => ~line.odd, Accepted(RmtRec)
  PROVE  ByteOf(RmtRec, 2) = last
<1>t. /\ RmtRec \in [1..Total -> Bit] /\ last \in Key \cup {NoKey} /\ RecInv
      /\ line.bits \in 0..Total
  BY DEF KeyInv, TypeOK, LineType
<1>1. CASE ~(MidCode /\ RmtSta.leader)
  <2>1. OldCode(RmtRec, last)
    BY <1>1, <1>t DEF RecInv, StillInv
  <2> QED BY <2>1, <1>t, OldKey
<1>2. CASE MidCode /\ RmtSta.leader
  <2>1. ~line.short /\ ~line.odd /\ line.bits \in 1..(Total - 1) /\ line.key \in Key
    BY <1>2, <1>t, Sizes DEF RecInv, ShortInv, MidCode, KeyInv, LineInv
  <2>2. Newest(RmtRec, line.bits, line.key, 0)
    BY <2>1, <1>2, <1>t DEF RecInv, NewInv
  <2>3. PICK V \in [1..Total -> Bit] : OldCode(V, last) /\ Pushed(RmtRec, line.bits, V)
    BY <1>2, <1>t DEF RecInv, PushInv
  <2> QED BY <2>1, <2>2, <2>3, <1>t, WindowFails
<1> QED BY <1>1, <1>2

LEMMA KeyReported == KeyInv /\ [Next]_vars => KeyStep
<1> SUFFICES ASSUME KeyInv, [Next]_vars, scan'.sta # scan.sta, scan'.sta # NoKey,
                    ~scan.moved, ~slipped, line.bits < Total => ~line.odd
             PROVE  scan'.sta = last
  BY DEF KeyStep
<1>t. TypeOK /\ scan \in ScanType
  BY DEF KeyInv, TypeOK
<1>1. ~Interrupts
  BY <1>t, InterruptBits
<1>2. Scan
  BY <1>1 DEF Next, CodeGoesOn, Press, Repeat, Tick, Rise, LeaderEnds, BitEnds, vars
<1>3. ScanKeyInv
  BY <1>2, <1>t DEF Scan, ScanBegin, ScanFirst, ScanIdInv, ScanTest, ScanLoad, ScanStore,
     ScanCount, Return, ScanType
<1>4. /\ scan.pc = "keyinv" /\ scan'.sta = scan.t1
      /\ scan.t1 = Inverse(ByteOf(RmtRec, 3)) /\ scan.t1 # NoKey
  BY <1>3, <1>t DEF ScanKeyInv, ScanType
<1>5. /\ scan.t1 = ByteOf(RmtRec, 2)
      /\ ByteOf(RmtRec, 0) = NoKey /\ ByteOf(RmtRec, 1) = Inverse(NoKey)
  BY <1>4 DEF KeyInv, ScanInv
<1>6. Accepted(RmtRec)
  BY <1>4, <1>5 DEF Accepted
<1> QED BY <1>4, <1>5, <1>6, TakenKey

\* Whatever Remote_Scan takes out of RmtRec, in one piece and with no bit slipped, is
\* the key of the last code whose bits were all taken: for every length of a byte and
\* every set of keys, with a wrong bit in each press, and however many interrupts
\* come during a call.
THEOREM KeyIsLast == Spec => ReportedKeyIsLast
<1>1. KeyInv /\ [Next]_vars => KeyInv' /\ [KeyStep]_vars
  BY KeyNext, KeyReported
<1>2. Spec => [][KeyStep]_vars
  BY <1>1, KeyInit, PTL DEF Spec
<1> QED BY <1>2 DEF ReportedKeyIsLast, KeyStep
=============================================================================
