----------------------------- MODULE CodecProofs -----------------------------
(***************************************************************************)
(* Numbers, values, frames and messages come out as they went in, for      *)
(* bytes of any size, any values, any texts of JSON and any loss.          *)
(*                                                                         *)
(* Numbers first: the digits WriteVQL takes off a word, multiplied again,  *)
(* are the word.  Values by induction on how deep their arrays nest, which *)
(* says that the elements of an array are read one behind the other.  Then *)
(* what is torn: a buffer that lacks its end is read as the whole one, or  *)
(* not at all.  Frames by the four bytes of a word.  With these, IInv says *)
(* of every moment where in the message, and in the payload, the next      *)
(* frame and the next value stand.                                         *)
(***************************************************************************)
EXTENDS Codec, SequenceTheorems, WellFoundedInduction, TLAPS

-----------------------------------------------------------------------------
(* Numbers                                                                 *)

LEMMA Divides ==
    ASSUME NEW n \in Nat, NEW d \in Nat, d > 0
    PROVE  n \div d \in Nat /\ n % d \in 0 .. d - 1 /\ n = d * (n \div d) + (n % d)
<1>1. n % d \in 0 .. d - 1
    <2>1. n % d \in Int /\ n % d >= 0
        OBVIOUS
    <2>2. n % d < d
        OBVIOUS
    <2> QED  BY <2>1, <2>2
<1>2. n \div d \in Nat /\ n = d * (n \div d) + (n % d)
    OBVIOUS
<1> QED  BY <1>1, <1>2

LEMMA DivideBound ==
    ASSUME NEW n \in Nat, NEW d \in Nat, d > 0, NEW b \in Nat, n < d * b
    PROVE  n \div d < b
<1>1. n \div d \in Nat /\ n % d \in 0 .. d - 1 /\ n = d * (n \div d) + (n % d)
    BY Divides
<1>2. ASSUME n \div d >= b PROVE FALSE
    <2>1. PICK q \in Nat : q = n \div d
        BY <1>1
    <2>2. PICK x \in Nat : q = b + x
        <3>1. q - b \in Nat /\ q = b + (q - b)
            BY <2>1, <1>2
        <3> QED  BY <3>1
    <2>3. d * q = d * b + d * x /\ d * x \in Nat
        BY <2>2
    <2> QED  BY <1>1, <2>1, <2>3
<1> QED  BY <1>1, <1>2

LEMMA Small ==
    ASSUME NEW n \in Nat, NEW d \in Nat, n < d
    PROVE  n \div d = 0 /\ n % d = n
OBVIOUS

LEMMA Digits ==
    /\ Digit \in Nat /\ Digit >= 16 /\ Byte \in Nat /\ Byte = 2 * Digit
    /\ Word \in Nat /\ Word > 65536 /\ Word = 16 * (Digit * (Digit * (Digit * Digit)))
<1>1. Digit \in Nat /\ Digit >= 16 /\ Byte \in Nat /\ Byte = 2 * Digit
    BY DigitAssumption DEF Byte
<1>2. Word = (2 * Digit) * (2 * Digit) * (2 * Digit) * (2 * Digit)
    BY <1>1 DEF Word
<1>3. Word = 16 * (Digit * (Digit * (Digit * Digit)))
    BY <1>1, <1>2
<1>4. PICK s \in Nat : s = Digit * Digit /\ s >= 256
    <2>1. PICK x \in Nat : Digit = 16 + x
        BY <1>1
    <2>2. Digit * Digit = 256 + 32 * x + x * x /\ x * x \in Nat
        BY <2>1
    <2> QED  BY <2>2
<1>5. PICK x \in Nat : s = 256 + x
    BY <1>4
<1>6. Digit * (Digit * (Digit * Digit)) = s * s
    BY <1>1, <1>4
<1>7. s * s = 65536 + 512 * x + x * x /\ x * x \in Nat
    BY <1>5
<1> QED  BY <1>1, <1>3, <1>6, <1>7

(* The rests of a number, one after the other.                             *)
LEMMA Rests ==
    ASSUME NEW n
    PROVE  /\ Rest(n)[0] = n
           /\ \A k \in 1 .. 5 : Rest(n)[k] = Rest(n)[k - 1] \div Digit
<1> DEFINE f0 == n
           f1 == f0 \div Digit
           f2 == f1 \div Digit
           f3 == f2 \div Digit
           f4 == f3 \div Digit
           f5 == f4 \div Digit
           f == [k \in 0 .. 5 |-> CASE k = 0 -> f0 [] k = 1 -> f1 [] k = 2 -> f2 [] k = 3 -> f3 [] k = 4 -> f4 [] k = 5 -> f5]
           Right(g) == g = [k \in 0 .. 5 |-> IF k = 0 THEN n ELSE g[k - 1] \div Digit]
<1>1. Right(f)
    <2> DEFINE h == [k \in 0 .. 5 |-> IF k = 0 THEN n ELSE f[k - 1] \div Digit]
    <2>1. \A k \in 0 .. 5 : k = 0 \/ k = 1 \/ k = 2 \/ k = 3 \/ k = 4 \/ k = 5
        OBVIOUS
    <2>2. f[0] = f0 /\ f[1] = f1 /\ f[2] = f2 /\ f[3] = f3 /\ f[4] = f4 /\ f[5] = f5
        <3> HIDE DEF f0, f1, f2, f3, f4, f5
        <3> QED  OBVIOUS
    <2>3. \A k \in 0 .. 5 : f[k] = h[k]
        <3> SUFFICES ASSUME NEW k \in 0 .. 5 PROVE f[k] = h[k]
            OBVIOUS
        <3>1. h[k] = IF k = 0 THEN n ELSE f[k - 1] \div Digit
            OBVIOUS
        <3> HIDE DEF f, h
        <3> QED  BY <2>1, <2>2, <3>1
    <2>4. f = [k \in 0 .. 5 |-> f[k]] /\ h = [k \in 0 .. 5 |-> h[k]]
        OBVIOUS
    <2>5. f = h
        <3> HIDE DEF f, h
        <3> QED  BY <2>3, <2>4
    <2> QED  BY <2>5
<1>2. Right(Rest(n))
    <2> HIDE DEF f
    <2>1. Rest(n) = CHOOSE g : Right(g)
        BY DEF Rest
    <2> HIDE DEF Right
    <2> QED  BY <1>1, <2>1
<1>3. \A k \in 0 .. 5 : Rest(n)[k] = IF k = 0 THEN n ELSE Rest(n)[k - 1] \div Digit
    BY <1>2
<1> QED  BY <1>3

-----------------------------------------------------------------------------
(* VQL                                                                     *)

LEMMA RestsDecrease ==
    ASSUME NEW n \in 0 .. Word - 1
    PROVE  /\ \A k \in 0 .. 5 : Rest(n)[k] \in Nat
           /\ Rest(n)[5] = 0
           /\ \A k \in 0 .. 4 : Rest(n)[k] = 0 => Rest(n)[k + 1] = 0
<1> DEFINE r == Rest(n)
           D == Digit
<1>1. r[0] = n /\ r[1] = r[0] \div D /\ r[2] = r[1] \div D /\ r[3] = r[2] \div D
      /\ r[4] = r[3] \div D /\ r[5] = r[4] \div D
    BY Rests
<1>2. D \in Nat /\ D >= 16 /\ Word = 16 * (D * (D * (D * D))) /\ n \in Nat
    BY Digits
<1> HIDE DEF r, D
<1>3. D * (D * D) \in Nat /\ D * D \in Nat /\ n < D * (16 * (D * (D * D)))
    BY <1>2 DEF D
<1>4. r[1] \in Nat /\ r[1] < 16 * (D * (D * D))
    BY <1>1, <1>2, <1>3, Divides, DivideBound
<1>5. r[1] < D * (16 * (D * D))
    BY <1>2, <1>3, <1>4
<1>6. r[2] \in Nat /\ r[2] < 16 * (D * D)
    BY <1>1, <1>2, <1>3, <1>4, <1>5, Divides, DivideBound
<1>7. r[2] < D * (16 * D)
    BY <1>2, <1>3, <1>6
<1>8. r[3] \in Nat /\ r[3] < 16 * D
    BY <1>1, <1>2, <1>3, <1>6, <1>7, Divides, DivideBound
<1>9. r[4] \in Nat /\ r[4] < 16
    <2>1. r[3] < D * 16
        BY <1>2, <1>8
    <2> QED  BY <1>1, <1>2, <1>8, <2>1, Divides, DivideBound
<1>10. r[5] = 0
    BY <1>1, <1>2, <1>9, Small
<1>11. \A k \in 0 .. 5 : r[k] \in Nat
    <2>1. \A k \in 0 .. 5 : k = 0 \/ k = 1 \/ k = 2 \/ k = 3 \/ k = 4 \/ k = 5
        OBVIOUS
    <2> QED  BY <1>1, <1>2, <1>4, <1>6, <1>8, <1>9, <1>10, <2>1
<1>12. ASSUME NEW k \in 0 .. 4, r[k] = 0 PROVE r[k + 1] = 0
    <2>1. k + 1 \in 1 .. 5 /\ (k + 1) - 1 = k
        OBVIOUS
    <2>2. r[k + 1] = r[k] \div D
        BY <2>1, Rests DEF r, D
    <2> QED  BY <1>2, <1>12, <2>2, Small
<1> QED  BY <1>10, <1>11, <1>12 DEF r

(* How many bytes it takes.                                                *)
Size(n) == CHOOSE k \in 1 .. 5 : Rest(n)[k] = 0 /\ \A j \in 1 .. k - 1 : Rest(n)[j] > 0

LEMMA Sizes ==
    ASSUME NEW n \in 0 .. Word - 1
    PROVE  /\ Size(n) \in 1 .. 5 /\ Rest(n)[Size(n)] = 0
           /\ \A j \in 1 .. Size(n) - 1 : Rest(n)[j] > 0
           /\ \A j \in Size(n) .. 5 : Rest(n)[j] = 0
<1> DEFINE r == Rest(n)
           P(k) == r[k] = 0 /\ \A j \in 1 .. k - 1 : r[j] > 0
<1>1. \A k \in 0 .. 5 : r[k] \in Nat
    BY RestsDecrease
<1>2. r[5] = 0 /\ \A k \in 0 .. 4 : r[k] = 0 => r[k + 1] = 0
    BY RestsDecrease
<1>3. (r[1] = 0 => r[2] = 0) /\ (r[2] = 0 => r[3] = 0) /\ (r[3] = 0 => r[4] = 0)
    BY <1>2
<1> HIDE DEF r
<1>4. \A j : /\ ~ (j \in 1 .. 1 - 1) /\ (j \in 1 .. 2 - 1 => j = 1)
             /\ (j \in 1 .. 3 - 1 => j = 1 \/ j = 2)
             /\ (j \in 1 .. 4 - 1 => j = 1 \/ j = 2 \/ j = 3)
             /\ (j \in 1 .. 5 - 1 => j = 1 \/ j = 2 \/ j = 3 \/ j = 4)
    OBVIOUS
<1>5. r[1] \in Nat /\ r[2] \in Nat /\ r[3] \in Nat /\ r[4] \in Nat
    BY <1>1
<1>6. P(1) \/ P(2) \/ P(3) \/ P(4) \/ P(5)
    BY <1>2, <1>3, <1>4, <1>5
<1>7. PICK s \in 1 .. 5 : P(s) /\ s = Size(n)
    <2>1. \E k \in 1 .. 5 : P(k)
        BY <1>6
    <2>2. Size(n) = CHOOSE k \in 1 .. 5 : P(k)
        BY DEF Size, r
    <2> HIDE DEF P
    <2> QED  BY <2>1, <2>2
<1>8. \A j \in s .. 5 : r[j] = 0
    <2>1. \A j : j \in s .. 5 => j \in 1 .. 5 /\ j >= s
        OBVIOUS
    <2>2. s = 1 \/ s = 2 \/ s = 3 \/ s = 4 \/ s = 5
        OBVIOUS
    <2>3. \A j \in 1 .. 5 : j = 1 \/ j = 2 \/ j = 3 \/ j = 4 \/ j = 5
        OBVIOUS
    <2>4. r[4] = 0 => r[5] = 0
        BY <1>2
    <2>5. r[s] = 0
        BY <1>7
    <2> QED  BY <1>3, <2>1, <2>2, <2>3, <2>4, <2>5
<1> QED  BY <1>7, <1>8 DEF r

LEMMA WrittenVQL ==
    ASSUME NEW n \in 0 .. Word - 1
    PROVE  /\ WriteVQL(n) \in Seq(Nat)
           /\ Len(WriteVQL(n)) = Size(n)
           /\ \A k \in 0 .. Size(n) - 1 :
                 /\ WriteVQL(n)[k + 1] % Digit = Rest(n)[k] % Digit
                 /\ WriteVQL(n)[k + 1] >= Digit <=> k < Size(n) - 1
<1> DEFINE r == Rest(n)
           s == Size(n)
           d(k) == (r[k - 1] % Digit) + (IF r[k] > 0 THEN Digit ELSE 0)
           w == WriteVQL(n)
<1>1. w = [k \in 1 .. s |-> d(k)]
    BY DEF WriteVQL, Size
<1>2. Digit \in Nat /\ Digit >= 16
    BY Digits
<1>3. /\ s \in 1 .. 5 /\ r[s] = 0
      /\ \A j \in 1 .. s - 1 : r[j] > 0
      /\ \A k \in 0 .. 5 : r[k] \in Nat
    BY Sizes, RestsDecrease
<1> HIDE DEF r, s, w
<1>4. ASSUME NEW k \in 0 .. s - 1
      PROVE  /\ k + 1 \in 1 .. s
             /\ w[k + 1] \in Nat /\ w[k + 1] % Digit = r[k] % Digit
             /\ w[k + 1] >= Digit <=> k < s - 1
    <2>1. k + 1 \in 1 .. s /\ (k + 1) - 1 = k /\ k \in 0 .. 5 /\ k + 1 \in 0 .. 5
        BY <1>3
    <2>2. w[k + 1] = (r[k] % Digit) + (IF r[k + 1] > 0 THEN Digit ELSE 0)
        BY <1>1, <2>1
    <2>3. PICK x \in 0 .. Digit - 1 : x = r[k] % Digit
        BY <1>2, <1>3, <2>1, Divides
    <2>4. x % Digit = x /\ (x + Digit) % Digit = x
        BY <1>2
    <2>5. r[k + 1] > 0 <=> k < s - 1
        <3>1. CASE k = s - 1
            BY <1>3, <2>1, <3>1
        <3>2. CASE k # s - 1
            <4>1. k + 1 \in 1 .. s - 1 /\ k < s - 1
                BY <1>3, <3>2
            <4> QED  BY <1>3, <4>1
        <3> QED  BY <3>1, <3>2
    <2>6. CASE k < s - 1
        <3>1. w[k + 1] = x + Digit
            BY <2>2, <2>3, <2>5, <2>6
        <3> QED  BY <1>2, <2>1, <2>3, <2>4, <2>6, <3>1
    <2>7. CASE ~(k < s - 1)
        <3>1. w[k + 1] = x
            BY <2>2, <2>3, <2>5, <2>7
        <3> QED  BY <1>2, <2>1, <2>3, <2>4, <2>7, <3>1
    <2> QED  BY <2>6, <2>7
<1>5. \A i \in 1 .. s : d(i) \in Nat
    <2> SUFFICES ASSUME NEW i \in 1 .. s PROVE d(i) \in Nat
        OBVIOUS
    <2>1. i - 1 \in 0 .. s - 1 /\ (i - 1) + 1 = i
        BY <1>3
    <2>2. w[i] \in Nat
        BY <1>4, <2>1
    <2>3. w[i] = d(i)
        BY <1>1
    <2> HIDE DEF d
    <2> QED  BY <2>2, <2>3
<1>6. w \in Seq(Nat) /\ Len(w) = s
    <2> HIDE DEF d
    <2> QED  BY <1>1, <1>3, <1>5
<1> QED  BY <1>4, <1>6 DEF w, r, s

LEMMA Shifts ==
    /\ Shift[0] = 1
    /\ \A k \in 1 .. 5 : Shift[k] = Shift[k - 1] * Digit
<1> DEFINE f0 == 1
           f1 == f0 * Digit
           f2 == f1 * Digit
           f3 == f2 * Digit
           f4 == f3 * Digit
           f5 == f4 * Digit
           f == [k \in 0 .. 5 |-> CASE k = 0 -> f0 [] k = 1 -> f1 [] k = 2 -> f2
                                    [] k = 3 -> f3 [] k = 4 -> f4 [] k = 5 -> f5]
           Right(g) == g = [k \in 0 .. 5 |-> IF k = 0 THEN 1 ELSE g[k - 1] * Digit]
<1>1. Right(f)
    <2> DEFINE h == [k \in 0 .. 5 |-> IF k = 0 THEN 1 ELSE f[k - 1] * Digit]
    <2>1. \A k \in 0 .. 5 : k = 0 \/ k = 1 \/ k = 2 \/ k = 3 \/ k = 4 \/ k = 5
        OBVIOUS
    <2>2. f[0] = f0 /\ f[1] = f1 /\ f[2] = f2 /\ f[3] = f3 /\ f[4] = f4 /\ f[5] = f5
        <3> HIDE DEF f0, f1, f2, f3, f4, f5
        <3> QED  OBVIOUS
    <2>3. \A k \in 0 .. 5 : f[k] = h[k]
        <3> SUFFICES ASSUME NEW k \in 0 .. 5 PROVE f[k] = h[k]
            OBVIOUS
        <3>1. h[k] = IF k = 0 THEN 1 ELSE f[k - 1] * Digit
            OBVIOUS
        <3> HIDE DEF f, h
        <3> QED  BY <2>1, <2>2, <3>1
    <2>4. f = [k \in 0 .. 5 |-> f[k]] /\ h = [k \in 0 .. 5 |-> h[k]]
        OBVIOUS
    <2>5. f = h
        <3> HIDE DEF f, h
        <3> QED  BY <2>3, <2>4
    <2> QED  BY <2>5
<1>2. Right(Shift)
    <2> HIDE DEF f
    <2>1. Shift = CHOOSE g : Right(g)
        BY DEF Shift
    <2> HIDE DEF Right
    <2> QED  BY <1>1, <2>1
<1>3. \A k \in 0 .. 5 : Shift[k] = IF k = 0 THEN 1 ELSE Shift[k - 1] * Digit
    BY <1>2
<1> QED  BY <1>3

(* The sum s of some digits of n, and r, which they leave, make up n.      *)
MakesUp(s, r, shift, n) == s \in Nat /\ s + r * shift = n

LEMMA OneDigit ==
    ASSUME NEW n \in 0 .. Word - 1, NEW s, NEW r \in Nat, NEW shift \in Nat,
           MakesUp(s, r, shift, n)
    PROVE  MakesUp((s + (r % Digit) * shift) % Word, r \div Digit, shift * Digit, n)
<1>0. s \in Nat /\ s + r * shift = n
    BY DEF MakesUp
<1>1. Digit \in Nat /\ Digit > 0 /\ Word \in Nat /\ Word > 0
    BY Digits
<1>2. PICK q \in Nat, d \in Nat : q = r \div Digit /\ d = r % Digit /\ r = Digit * q + d
    BY <1>1, Divides
<1>3. PICK D \in Nat : D = Digit
    BY <1>1
<1>4. r * shift = q * (shift * D) + d * shift
    <2>1. r = D * q + d
        BY <1>2, <1>3
    <2>2. (D * q + d) * shift = (D * q) * shift + d * shift
        OBVIOUS
    <2>3. (D * q) * shift = q * (shift * D)
        OBVIOUS
    <2> QED  BY <2>1, <2>2, <2>3
<1>5. q * (shift * D) \in Nat /\ d * shift \in Nat
    BY <1>3
<1>6. PICK x \in Nat, y \in Nat : x = q * (shift * D) /\ y = d * shift
    BY <1>5
<1>7. s + y + x = n
    BY <1>0, <1>4, <1>6
<1>8. s + y \in 0 .. Word - 1
    BY <1>0, <1>1, <1>6, <1>7
<1>9. (s + y) % Word = s + y
    BY <1>1, <1>8, Small
<1>10. (s + (r % Digit) * shift) % Word = s + y
    BY <1>2, <1>6, <1>9
<1>11. (r \div Digit) * (shift * Digit) = x
    BY <1>2, <1>3, <1>6
<1>12. s + y \in Nat /\ (s + y) + x = n
    BY <1>0, <1>6, <1>7
<1> QED  BY <1>10, <1>11, <1>12, Zenon DEF MakesUp

LEMMA Sums ==
    ASSUME NEW digit
    PROVE  \E sum : /\ sum[0] = (0 + digit[0] * Shift[0]) % Word
                   /\ \A k \in 1 .. 5 : sum[k] = (sum[k - 1] + digit[k] * Shift[k]) % Word
                   /\ sum[5] = Sum(digit)
<1> DEFINE f0 == (0 + digit[0] * Shift[0]) % Word
           f1 == (f0 + digit[1] * Shift[1]) % Word
           f2 == (f1 + digit[2] * Shift[2]) % Word
           f3 == (f2 + digit[3] * Shift[3]) % Word
           f4 == (f3 + digit[4] * Shift[4]) % Word
           f5 == (f4 + digit[5] * Shift[5]) % Word
           f == [k \in 0 .. 5 |-> CASE k = 0 -> f0 [] k = 1 -> f1 [] k = 2 -> f2
                                    [] k = 3 -> f3 [] k = 4 -> f4 [] k = 5 -> f5]
           Next1(g, k) == ((IF k = 0 THEN 0 ELSE g[k - 1]) + digit[k] * Shift[k]) % Word
           Right(g) == g = [k \in 0 .. 5 |-> Next1(g, k)]
<1>1. Right(f)
    <2> DEFINE h == [k \in 0 .. 5 |-> Next1(f, k)]
    <2>1. \A k \in 0 .. 5 : k = 0 \/ k = 1 \/ k = 2 \/ k = 3 \/ k = 4 \/ k = 5
        OBVIOUS
    <2>2. f[0] = f0 /\ f[1] = f1 /\ f[2] = f2 /\ f[3] = f3 /\ f[4] = f4 /\ f[5] = f5
        <3> HIDE DEF f0, f1, f2, f3, f4, f5
        <3> QED  OBVIOUS
    <2>3. \A k \in 0 .. 5 : f[k] = h[k]
        <3> SUFFICES ASSUME NEW k \in 0 .. 5 PROVE f[k] = h[k]
            OBVIOUS
        <3>1. h[k] = Next1(f, k)
            OBVIOUS
        <3>2. /\ Next1(f, 0) = f0 /\ Next1(f, 1) = f1 /\ Next1(f, 2) = f2
              /\ Next1(f, 3) = f3 /\ Next1(f, 4) = f4 /\ Next1(f, 5) = f5
            <4> HIDE DEF f
            <4>1. 1 - 1 = 0 /\ 2 - 1 = 1 /\ 3 - 1 = 2 /\ 4 - 1 = 3 /\ 5 - 1 = 4
                OBVIOUS
            <4>2. f1 = (f[0] + digit[1] * Shift[1]) % Word /\ f2 = (f[1] + digit[2] * Shift[2]) % Word
                  /\ f3 = (f[2] + digit[3] * Shift[3]) % Word /\ f4 = (f[3] + digit[4] * Shift[4]) % Word
                  /\ f5 = (f[4] + digit[5] * Shift[5]) % Word
                BY <2>2
            <4>3. 1 # 0 /\ 2 # 0 /\ 3 # 0 /\ 4 # 0 /\ 5 # 0
                OBVIOUS
            <4> HIDE DEF f1, f2, f3, f4, f5
            <4> QED  BY <4>1, <4>2, <4>3, Zenon
        <3> HIDE DEF f, h, Next1
        <3> QED  BY <2>1, <2>2, <3>1, <3>2, Zenon
    <2>4. f = [k \in 0 .. 5 |-> f[k]] /\ h = [k \in 0 .. 5 |-> h[k]]
        OBVIOUS
    <2>5. f = h
        <3> HIDE DEF f, h
        <3> QED  BY <2>3, <2>4
    <2> QED  BY <2>5
<1>2. PICK sum : Right(sum) /\ sum[5] = Sum(digit)
    <2> HIDE DEF f
    <2>1. Sum(digit) = (CHOOSE g : Right(g))[5]
        BY DEF Sum
    <2> HIDE DEF Right
    <2> QED  BY <1>1, <2>1
<1>3. \A k \in 0 .. 5 : sum[k] = Next1(sum, k)
    <2> HIDE DEF Next1
    <2> QED  BY <1>2
<1>4. sum[0] = (0 + digit[0] * Shift[0]) % Word
    <2>1. sum[0] = Next1(sum, 0)
        BY <1>3
    <2> QED  BY <2>1
<1>5. \A k \in 1 .. 5 : sum[k] = (sum[k - 1] + digit[k] * Shift[k]) % Word
    <2> SUFFICES ASSUME NEW k \in 1 .. 5
                 PROVE  sum[k] = (sum[k - 1] + digit[k] * Shift[k]) % Word
        OBVIOUS
    <2>1. k # 0 /\ k \in 0 .. 5
        OBVIOUS
    <2>2. sum[k] = Next1(sum, k)
        BY <1>3, <2>1
    <2> QED  BY <2>1, <2>2, Zenon
<1> QED  BY <1>2, <1>4, <1>5

(* The digits of a number add up to it.                                    *)
LEMMA SumOfDigits ==
    ASSUME NEW n \in 0 .. Word - 1, NEW digit, \A k \in 0 .. 5 : digit[k] = Rest(n)[k] % Digit
    PROVE  Sum(digit) = n
<1>1. PICK sum : /\ sum[0] = (0 + digit[0] * Shift[0]) % Word
                 /\ \A k \in 1 .. 5 : sum[k] = (sum[k - 1] + digit[k] * Shift[k]) % Word
                 /\ sum[5] = Sum(digit)
    BY Sums
<1> DEFINE r == Rest(n)
           S == Shift
           Right(k) == MakesUp(sum[k], r[k + 1], S[k + 1], n)
<1>2. /\ S[0] = 1 /\ \A k \in 1 .. 5 : S[k] = S[k - 1] * Digit
    BY Shifts
<1>3. Digit \in Nat /\ Word \in Nat /\ n \in Nat
    BY Digits
<1>4. /\ r[0] = n /\ r[5] = 0 /\ \A k \in 0 .. 5 : r[k] \in Nat
      /\ \A k \in 1 .. 5 : r[k] = r[k - 1] \div Digit
    BY Rests, RestsDecrease
<1> HIDE DEF r, S
<1>5. S[0] \in Nat /\ S[1] \in Nat /\ S[2] \in Nat /\ S[3] \in Nat /\ S[4] \in Nat /\ S[5] \in Nat
    <2>1. S[1] = S[0] * Digit /\ S[2] = S[1] * Digit /\ S[3] = S[2] * Digit
          /\ S[4] = S[3] * Digit /\ S[5] = S[4] * Digit
        BY <1>2
    <2>2. \A x \in Nat : x * Digit \in Nat
        BY <1>3
    <2> QED  BY <1>2, <2>1, <2>2
<1>6. \A k \in 0 .. 5 : S[k] \in Nat
    <2>1. \A k \in 0 .. 5 : k = 0 \/ k = 1 \/ k = 2 \/ k = 3 \/ k = 4 \/ k = 5
        OBVIOUS
    <2> QED  BY <1>5, <2>1
<1>7. Right(0)
    <2>1. 0 + r[0] * S[0] = n
        BY <1>2, <1>3, <1>4
    <2>2. MakesUp((0 + (r[0] % Digit) * S[0]) % Word, r[0] \div Digit, S[0] * Digit, n)
        <3>1. MakesUp(0, r[0], S[0], n)
            BY <2>1 DEF MakesUp
        <3>2. r[0] \in Nat /\ S[0] \in Nat
            BY <1>4, <1>5
        <3> QED  BY <3>1, <3>2, OneDigit
    <2>3. sum[0] = (0 + (r[0] % Digit) * S[0]) % Word
        <3>1. digit[0] = r[0] % Digit
            BY DEF r
        <3> QED  BY <1>1, <3>1 DEF S
    <2>4. r[0 + 1] = r[0] \div Digit /\ S[0 + 1] = S[0] * Digit
        <3>1. 0 + 1 \in 1 .. 5 /\ (0 + 1) - 1 = 0
            OBVIOUS
        <3> QED  BY <1>2, <1>4, <3>1
    <2> QED  BY <2>2, <2>3, <2>4, Zenon
<1>8. ASSUME NEW k \in 1 .. 4, Right(k - 1) PROVE Right(k)
    <2>1. k - 1 \in 0 .. 4 /\ (k - 1) + 1 = k /\ k + 1 \in 1 .. 5 /\ (k + 1) - 1 = k
          /\ k \in 0 .. 5 /\ k \in 1 .. 5
        OBVIOUS
    <2>2. MakesUp(sum[k - 1], r[k], S[k], n)
        BY <1>8, <2>1, Zenon
    <2>3. r[k] \in Nat /\ S[k] \in Nat
        BY <1>4, <1>6, <2>1
    <2>4. MakesUp((sum[k - 1] + (r[k] % Digit) * S[k]) % Word, r[k] \div Digit, S[k] * Digit, n)
        BY <2>2, <2>3, OneDigit
    <2>5. sum[k] = (sum[k - 1] + (r[k] % Digit) * S[k]) % Word
        <3>1. digit[k] = r[k] % Digit
            BY <2>1 DEF r
        <3> QED  BY <1>1, <2>1, <3>1 DEF S
    <2>6. r[k + 1] = r[k] \div Digit /\ S[k + 1] = S[k] * Digit
        BY <1>2, <1>4, <2>1
    <2> QED  BY <2>4, <2>5, <2>6, Zenon
<1>9. Right(4)
    <2>1. 1 - 1 = 0 /\ 2 - 1 = 1 /\ 3 - 1 = 2 /\ 4 - 1 = 3
          /\ 1 \in 1 .. 4 /\ 2 \in 1 .. 4 /\ 3 \in 1 .. 4 /\ 4 \in 1 .. 4
        OBVIOUS
    <2> HIDE DEF Right
    <2>2. Right(1)
        BY <1>7, <1>8, <2>1
    <2>3. Right(2)
        BY <2>2, <1>8, <2>1
    <2>4. Right(3)
        BY <2>3, <1>8, <2>1
    <2> QED  BY <2>4, <1>8, <2>1
<1>10. sum[4] = n
    <2>1. 4 + 1 = 5
        OBVIOUS
    <2>2. sum[4] \in Nat /\ sum[4] + r[5] * S[5] = n
        BY <1>9, <2>1 DEF MakesUp
    <2>3. r[5] * S[5] = 0
        BY <1>4, <1>5
    <2> QED  BY <1>3, <2>2, <2>3
<1>11. sum[5] = n
    <2>1. digit[5] = 0
        <3>1. 0 % Digit = 0
            BY <1>3, Digits
        <3> QED  BY <1>4, <3>1 DEF r
    <2>2. sum[5] = (sum[5 - 1] + digit[5] * S[5]) % Word
        BY <1>1 DEF S
    <2>3. sum[5] = (n + 0 * S[5]) % Word
        BY <1>10, <2>1, <2>2
    <2>4. n + 0 * S[5] = n
        BY <1>3, <1>5
    <2> QED  BY <1>3, <2>3, <2>4, Small
<1> QED  BY <1>1, <1>11

(* The bytes s are in a buffer, from a position on.                        *)
Stands(s, buf, pos) ==
    /\ pos + Len(s) <= Len(buf) + 1
    /\ \A i \in 0 .. Len(s) - 1 : buf[pos + i] = s[i + 1]

(* What has been torn off a buffer is at its end.                          *)
Torn(torn, buf) ==
    /\ torn \in Seq(Nat) /\ buf \in Seq(Nat) /\ Len(torn) <= Len(buf)
    /\ \A i \in 1 .. Len(torn) : torn[i] = buf[i]

LEMMA EndsOnce ==
    ASSUME NEW buf \in Seq(Nat), NEW pos \in Nat \ {0}, NEW j \in 0 .. 5, NEW k \in 0 .. 5,
           EndsWith(buf, pos, j), EndsWith(buf, pos, k)
    PROVE  j = k
<1>1. ASSUME NEW x \in 0 .. 5, NEW y \in 0 .. 5, EndsWith(buf, pos, x), EndsWith(buf, pos, y), x < y
      PROVE  FALSE
    <2>1. buf[pos + x] < Digit /\ pos + x <= Len(buf)
        BY <1>1 DEF EndsWith
    <2>2. x \in 0 .. y - 1
        BY <1>1
    <2>3. buf[pos + x] >= Digit
        BY <1>1, <2>2 DEF EndsWith
    <2>4. pos + x \in 1 .. Len(buf)
        BY <2>1, LenProperties
    <2>5. buf[pos + x] \in Nat
        BY <2>4
    <2> QED  BY <2>1, <2>3, <2>5, Digits
<1>2. j < k \/ k < j \/ j = k
    OBVIOUS
<1> QED  BY <1>1, <1>2

(* The digits of a VQL that ends with byte last.                           *)
DigitsRead(buf, pos, last) == [k \in 0 .. 5 |-> IF k <= last THEN buf[pos + k] % Digit ELSE 0]

LEMMA ReadVQLEnds ==
    ASSUME NEW buf \in Seq(Nat), NEW pos \in Nat \ {0}, NEW k \in 0 .. 5, EndsWith(buf, pos, k)
    PROVE  ReadVQL(buf, pos) = Found(Sum(DigitsRead(buf, pos, k)), pos + k + 1)
<1>1. PICK last : last = CHOOSE j \in 0 .. 5 : EndsWith(buf, pos, j)
    OBVIOUS
<1>2. last \in 0 .. 5 /\ EndsWith(buf, pos, last)
    <2> HIDE DEF EndsWith
    <2> QED  BY <1>1
<1>3. last = k
    BY <1>2, EndsOnce
<1>4. ReadVQL(buf, pos) = Found(Sum(DigitsRead(buf, pos, last)), pos + last + 1)
    BY <1>1 DEF ReadVQL, DigitsRead
<1> QED  BY <1>3, <1>4

LEMMA ReadVQLOk ==
    ASSUME NEW buf \in Seq(Nat), NEW pos \in Nat \ {0}
    PROVE  \/ ReadVQL(buf, pos) = Failed /\ ~ReadVQL(buf, pos).ok
           \/ \E k \in 0 .. 5 : EndsWith(buf, pos, k)
<1>1. ~Failed.ok
    BY DEF Failed
<1> QED  BY <1>1 DEF ReadVQL

LEMMA SumIsWord == ASSUME NEW digit \in [0 .. 5 -> Nat]  PROVE Sum(digit) \in 0 .. Word - 1
<1>1. PICK sum : /\ sum[0] = (0 + digit[0] * Shift[0]) % Word
                 /\ \A k \in 1 .. 5 : sum[k] = (sum[k - 1] + digit[k] * Shift[k]) % Word
                 /\ sum[5] = Sum(digit)
    BY Sums
<1>2. Word \in Nat /\ Word > 0 /\ Digit \in Nat
    BY Digits
<1>3. \A x \in Nat : x % Word \in Nat /\ x % Word \in 0 .. Word - 1
    BY <1>2, Divides
<1>4. Shift[0] \in Nat /\ Shift[1] \in Nat /\ Shift[2] \in Nat /\ Shift[3] \in Nat /\ Shift[4] \in Nat
      /\ Shift[5] \in Nat
    <2>1. Shift[1] = Shift[0] * Digit /\ Shift[2] = Shift[1] * Digit /\ Shift[3] = Shift[2] * Digit
          /\ Shift[4] = Shift[3] * Digit /\ Shift[5] = Shift[4] * Digit
        BY Shifts
    <2>2. \A x \in Nat : x * Digit \in Nat
        BY <1>2
    <2> QED  BY <2>1, <2>2, Shifts
<1>5. \A s, d, h \in Nat : s + d * h \in Nat
    OBVIOUS
<1>6. digit[0] \in Nat /\ digit[1] \in Nat /\ digit[2] \in Nat /\ digit[3] \in Nat /\ digit[4] \in Nat
      /\ digit[5] \in Nat
    OBVIOUS
<1>7. /\ sum[1] = (sum[0] + digit[1] * Shift[1]) % Word
      /\ sum[2] = (sum[1] + digit[2] * Shift[2]) % Word
      /\ sum[3] = (sum[2] + digit[3] * Shift[3]) % Word
      /\ sum[4] = (sum[3] + digit[4] * Shift[4]) % Word
      /\ sum[5] = (sum[4] + digit[5] * Shift[5]) % Word
    BY <1>1
<1>8. sum[0] \in Nat
    <2>1. 0 + digit[0] * Shift[0] \in Nat
        BY <1>4, <1>6
    <2> QED  BY <1>1, <1>3, <2>1
<1>9. \A s, d, h \in Nat : (s + d * h) % Word \in Nat /\ (s + d * h) % Word \in 0 .. Word - 1
    BY <1>3, <1>5
<1>10. sum[1] \in Nat
    <2>1. (sum[0] + digit[1] * Shift[1]) % Word \in Nat
        BY <1>4, <1>6, <1>8, <1>9
    <2> QED  BY <1>7, <2>1
<1>11. sum[2] \in Nat
    <2>1. (sum[1] + digit[2] * Shift[2]) % Word \in Nat
        BY <1>4, <1>6, <1>10, <1>9
    <2> QED  BY <1>7, <2>1
<1>12. sum[3] \in Nat
    <2>1. (sum[2] + digit[3] * Shift[3]) % Word \in Nat
        BY <1>4, <1>6, <1>11, <1>9
    <2> QED  BY <1>7, <2>1
<1>13. sum[4] \in Nat
    <2>1. (sum[3] + digit[4] * Shift[4]) % Word \in Nat
        BY <1>4, <1>6, <1>12, <1>9
    <2> QED  BY <1>7, <2>1
<1>14. sum[5] \in 0 .. Word - 1
    <2>1. (sum[4] + digit[5] * Shift[5]) % Word \in 0 .. Word - 1
        BY <1>4, <1>6, <1>9, <1>13
    <2> QED  BY <1>7, <2>1
<1> QED  BY <1>1, <1>14

(* What it is to read something: the position moves on, not too far.       *)
Reads(found, buf, pos) ==
    \/ found = Failed /\ found.ok = FALSE
    \/ found.ok = TRUE /\ found.next \in pos + 1 .. Len(buf) + 1

LEMMA ReadVQLType ==
    ASSUME NEW buf \in Seq(Nat), NEW pos \in Nat \ {0}
    PROVE  /\ Reads(ReadVQL(buf, pos), buf, pos)
           /\ ReadVQL(buf, pos).ok => ReadVQL(buf, pos).value \in 0 .. Word - 1
<1>1. CASE ReadVQL(buf, pos) = Failed /\ ~ReadVQL(buf, pos).ok
    <2>1. Failed.ok = FALSE
        BY DEF Failed
    <2> QED  BY <1>1, <2>1 DEF Reads
<1>2. CASE \E k \in 0 .. 5 : EndsWith(buf, pos, k)
    <2>1. PICK k \in 0 .. 5 : EndsWith(buf, pos, k)
        BY <1>2
    <2>2. PICK value : value = Sum(DigitsRead(buf, pos, k))
        OBVIOUS
    <2>3. ReadVQL(buf, pos) = Found(value, pos + k + 1)
        BY <2>1, <2>2, ReadVQLEnds
    <2>4. pos + k <= Len(buf) /\ Len(buf) \in Nat
        BY <2>1 DEF EndsWith
    <2>5. pos + k + 1 \in pos + 1 .. Len(buf) + 1
        BY <2>4
    <2>6. value \in 0 .. Word - 1
        <3>1. ASSUME NEW j \in 0 .. 5
              PROVE  (IF j <= k THEN buf[pos + j] % Digit ELSE 0) \in Nat
            <4>1. CASE j <= k
                <5>1. pos + j \in 1 .. Len(buf)
                    BY <2>4, <4>1
                <5>2. buf[pos + j] \in Nat
                    BY <5>1
                <5>3. buf[pos + j] % Digit \in Nat
                    BY <5>2, Digits, Divides
                <5> QED  BY <4>1, <5>3
            <4> QED  BY <4>1
        <3>2. DigitsRead(buf, pos, k) \in [0 .. 5 -> Nat]
            BY <3>1 DEF DigitsRead
        <3> QED  BY <2>2, <3>2, SumIsWord
    <2> QED  BY <2>3, <2>5, <2>6 DEF Reads, Found
<1> QED  BY <1>1, <1>2, ReadVQLOk

(* A VQL that is read from a torn buffer is the one that was there.        *)
LEMMA ReadVQLTorn ==
    ASSUME NEW torn, NEW buf, Torn(torn, buf), NEW pos \in Nat \ {0}, ReadVQL(torn, pos).ok
    PROVE  ReadVQL(buf, pos) = ReadVQL(torn, pos)
<1>1. torn \in Seq(Nat) /\ buf \in Seq(Nat)
    BY DEF Torn
<1>2. PICK k \in 0 .. 5 : EndsWith(torn, pos, k)
    BY <1>1, ReadVQLOk
<1>3. /\ pos + k <= Len(torn) /\ torn[pos + k] < Digit
      /\ \A j \in 0 .. k - 1 : torn[pos + j] >= Digit /\ ~TooLong(j)
    BY <1>2 DEF EndsWith
<1>4. \A j \in 0 .. k : torn[pos + j] = buf[pos + j]
    <2> SUFFICES ASSUME NEW j \in 0 .. k PROVE torn[pos + j] = buf[pos + j]
        OBVIOUS
    <2>1. pos + j \in 1 .. Len(torn)
        BY <1>1, <1>3, LenProperties
    <2> QED  BY <2>1 DEF Torn
<1>5. EndsWith(buf, pos, k)
    <2>1. pos + k <= Len(buf)
        BY <1>1, <1>3, LenProperties DEF Torn
    <2>2. k \in 0 .. k /\ \A j \in 0 .. k - 1 : j \in 0 .. k
        OBVIOUS
    <2> QED  BY <1>3, <1>4, <2>1, <2>2 DEF EndsWith
<1>6. DigitsRead(buf, pos, k) = DigitsRead(torn, pos, k)
    <2>1. \A j \in 0 .. 5 : j <= k => j \in 0 .. k
        OBVIOUS
    <2> QED  BY <1>4, <2>1 DEF DigitsRead
<1> QED  BY <1>1, <1>2, <1>5, <1>6, ReadVQLEnds

(* ReadVQL gives what WriteVQL wrote, for every word, wherever it stands   *)
(* in a buffer, and ends where the next thing begins.                      *)
THEOREM VQLRoundTrip ==
    ASSUME NEW n \in 0 .. Word - 1, NEW buf \in Seq(Nat), NEW pos \in Nat \ {0},
           Stands(WriteVQL(n), buf, pos)
    PROVE  ReadVQL(buf, pos) = Found(n, pos + Len(WriteVQL(n)))
<1> DEFINE r == Rest(n)
           w == WriteVQL(n)
<1>1. PICK s \in 1 .. 5 : /\ s = Size(n)
                          /\ \A j \in s .. 5 : r[j] = 0
    BY Sizes
<1>2. /\ w \in Seq(Nat) /\ Len(w) = s
      /\ \A k \in 0 .. s - 1 : /\ w[k + 1] % Digit = r[k] % Digit
                               /\ w[k + 1] >= Digit <=> k < s - 1
    BY <1>1, WrittenVQL
<1> HIDE DEF r, w
<1>3. /\ pos + s <= Len(buf) + 1
      /\ \A i \in 0 .. s - 1 : buf[pos + i] = w[i + 1]
    BY <1>2 DEF Stands, w
<1>4. PICK k \in 0 .. 4 : s = k + 1
    <2>1. s - 1 \in 0 .. 4 /\ s = (s - 1) + 1
        OBVIOUS
    <2> QED  BY <2>1
<1>5. \A i : i \in 0 .. s - 1 <=> i \in 0 .. k
    BY <1>4
<1>6. \A i \in 0 .. k : /\ buf[pos + i] \in Nat /\ buf[pos + i] % Digit = r[i] % Digit
                        /\ buf[pos + i] >= Digit <=> i < k
    <2> SUFFICES ASSUME NEW i \in 0 .. k
                 PROVE  /\ buf[pos + i] \in Nat /\ buf[pos + i] % Digit = r[i] % Digit
                        /\ buf[pos + i] >= Digit <=> i < k
        OBVIOUS
    <2>1. i \in 0 .. s - 1 /\ i + 1 \in 1 .. s /\ s - 1 = k
        BY <1>4
    <2>2. buf[pos + i] = w[i + 1]
        BY <1>3, <2>1
    <2>3. w[i + 1] \in Nat
        <3>1. w \in Seq(Nat) /\ Len(w) = s
            BY <1>2
        <3> QED  BY <2>1, <3>1
    <2>4. w[i + 1] % Digit = r[i] % Digit /\ (w[i + 1] >= Digit <=> i < s - 1)
        BY <1>2, <2>1
    <2> QED  BY <2>1, <2>2, <2>3, <2>4
<1>7. EndsWith(buf, pos, k)
    <2>1. pos + k <= Len(buf)
        BY <1>3, <1>4, LenProperties
    <2>2. buf[pos + k] < Digit
        <3>1. k \in 0 .. k /\ ~(k < k)
            OBVIOUS
        <3>2. buf[pos + k] \in Nat /\ ~(buf[pos + k] >= Digit)
            BY <1>6, <3>1
        <3> QED  BY <3>2, Digits
    <2>3. \A j \in 0 .. k - 1 : buf[pos + j] >= Digit /\ ~TooLong(j)
        <3> SUFFICES ASSUME NEW j \in 0 .. k - 1 PROVE buf[pos + j] >= Digit /\ ~TooLong(j)
            OBVIOUS
        <3>1. j \in 0 .. k /\ j < k
            OBVIOUS
        <3>2. ~TooLong(j)
            BY DEF TooLong
        <3> QED  BY <1>6, <3>1, <3>2
    <2> QED  BY <2>1, <2>2, <2>3 DEF EndsWith
<1>8. Sum(DigitsRead(buf, pos, k)) = n
    <2>1. PICK d : d = DigitsRead(buf, pos, k)
        OBVIOUS
    <2>2. \A j \in 0 .. 5 : d[j] = r[j] % Digit
        <3> SUFFICES ASSUME NEW j \in 0 .. 5 PROVE d[j] = r[j] % Digit
            OBVIOUS
        <3>1. d[j] = IF j <= k THEN buf[pos + j] % Digit ELSE 0
            BY <2>1 DEF DigitsRead
        <3>2. CASE j <= k
            <4>1. j \in 0 .. k
                BY <3>2
            <4>2. buf[pos + j] % Digit = r[j] % Digit
                BY <1>6, <4>1
            <4> QED  BY <3>1, <3>2, <4>2
        <3>3. CASE ~(j <= k)
            <4>1. j \in s .. 5
                BY <1>4, <3>3
            <4>2. r[j] = 0 /\ d[j] = 0
                BY <1>1, <3>1, <3>3, <4>1
            <4>3. 0 % Digit = 0
                BY Digits
            <4> QED  BY <4>2, <4>3
        <3> QED  BY <3>2, <3>3
    <2> QED  BY <2>1, <2>2, SumOfDigits DEF r
<1>9. ReadVQL(buf, pos) = Found(n, pos + k + 1)
    BY <1>7, <1>8, ReadVQLEnds
<1>10. pos + k + 1 = pos + Len(w)
    BY <1>2, <1>4
<1> QED  BY <1>9, <1>10 DEF w

-----------------------------------------------------------------------------
(* Induction                                                               *)

LEMMA Least ==
    ASSUME NEW T \in SUBSET Nat, T # {}
    PROVE  \E n \in T : \A m \in T : n <= m
<1> DEFINE R == OpToRel(<, Nat)
<1>1. \A x, y \in Nat : y < x => <<y, x>> \in R
    BY DEF OpToRel
<1>2. IsWellFoundedOn(R, Nat)
    BY NatLessThanWellFounded
<1> HIDE DEF R
<1>3. PICK n \in T : \A y \in T : ~ (<<y, n>> \in R)
    BY <1>2, WFMin
<1>4. \A y \in T : ~(y < n)
    BY <1>1, <1>3
<1> QED  BY <1>4

LEMMA EveryNumber ==
    ASSUME NEW S, 0 \in S, \A m \in Nat : m \in S => m + 1 \in S
    PROVE  \A m \in Nat : m \in S
<1> DEFINE T == {m \in Nat : m \notin S}
<1>1. SUFFICES ASSUME T # {} PROVE FALSE
    OBVIOUS
<1>2. PICK n \in T : \A m \in T : n <= m
    BY <1>1, Least
<1>3. n \in Nat /\ n \notin S
    OBVIOUS
<1>4. n - 1 \in Nat /\ (n - 1) + 1 = n
    BY <1>3
<1>5. n - 1 \notin T
    <2> HIDE DEF T
    <2> QED  BY <1>2, <1>3, <1>4
<1>6. n - 1 \in S
    BY <1>4, <1>5
<1> QED  BY <1>3, <1>4, <1>6

-----------------------------------------------------------------------------
(* Sequences one behind the other                                          *)

(* Where each of the first m starts, and then where they end.              *)
Laid(seqs, m, at, flat) ==
    /\ at \in [1 .. m + 1 -> Nat \ {0}]
    /\ at[1] = 1 /\ at[m + 1] = Len(flat) + 1
    /\ \A i \in 1 .. m : at[i + 1] = at[i] + Len(seqs[i]) /\ Stands(seqs[i], flat, at[i])

(* The first m of them, and so on: flatten is the function in FlattenSeq.  *)
Flattens(seqs, flatten, m) ==
    /\ flatten = [i \in 1 .. m |-> flatten[i]]
    /\ \A i \in 1 .. m : flatten[i] = IF i = 1 THEN seqs[i] ELSE flatten[i - 1] \o seqs[i]

LEMMA FlattenExists == ASSUME NEW seqs  PROVE \A m \in Nat : \E f : Flattens(seqs, f, m)
<1> DEFINE S == {m \in Nat : \E f : Flattens(seqs, f, m)}
<1>1. 0 \in S
    <2> DEFINE f == [i \in 1 .. 0 |-> i]
    <2>1. f = [i \in 1 .. 0 |-> f[i]] /\ ~ \E i : i \in 1 .. 0
        OBVIOUS
    <2>2. Flattens(seqs, f, 0)
        <3> HIDE DEF f
        <3> QED  BY <2>1 DEF Flattens
    <2> HIDE DEF f
    <2> QED  BY <2>2
<1>2. ASSUME NEW m \in Nat, m \in S PROVE m + 1 \in S
    <2>1. PICK f : Flattens(seqs, f, m)
        BY <1>2
    <2>2. PICK last : last = IF m + 1 = 1 THEN seqs[m + 1] ELSE f[m] \o seqs[m + 1]
        OBVIOUS
    <2> DEFINE g == [i \in 1 .. m + 1 |-> IF i = m + 1 THEN last ELSE f[i]]
    <2>3. \A i \in 1 .. m + 1 : g[i] = IF i = m + 1 THEN last ELSE f[i]
        OBVIOUS
    <2>4. g = [i \in 1 .. m + 1 |-> g[i]]
        OBVIOUS
    <2> HIDE DEF g
    <2>5. ASSUME NEW i \in 1 .. m + 1
          PROVE  g[i] = IF i = 1 THEN seqs[i] ELSE g[i - 1] \o seqs[i]
        <3>1. CASE i = m + 1
            <4>1. CASE i = 1
                BY <2>2, <2>3, <3>1, <4>1
            <4>2. CASE i # 1
                <5>1. i - 1 = m /\ i - 1 \in 1 .. m + 1 /\ i - 1 # m + 1
                    BY <3>1, <4>2
                <5>2. g[i - 1] = f[m]
                    BY <2>3, <5>1
                <5>3. g[i] = last
                    BY <2>3, <3>1
                <5> QED  BY <2>2, <3>1, <4>2, <5>2, <5>3
            <4> QED  BY <4>1, <4>2
        <3>2. CASE i # m + 1
            <4>1. i \in 1 .. m
                BY <3>2
            <4>2. f[i] = IF i = 1 THEN seqs[i] ELSE f[i - 1] \o seqs[i]
                BY <2>1, <4>1 DEF Flattens
            <4>3. g[i] = f[i]
                BY <2>3, <3>2
            <4>4. CASE i = 1
                BY <4>2, <4>3, <4>4
            <4>5. CASE i # 1
                <5>1. i - 1 \in 1 .. m + 1 /\ i - 1 # m + 1
                    BY <4>1, <4>5
                <5>2. g[i - 1] = f[i - 1]
                    BY <2>3, <5>1
                <5> QED  BY <4>2, <4>3, <4>5, <5>2
            <4> QED  BY <4>4, <4>5
        <3> QED  BY <3>1, <3>2
    <2>6. Flattens(seqs, g, m + 1)
        BY <2>4, <2>5 DEF Flattens
    <2> QED  BY <2>6
<1>3. \A m \in Nat : m \in S
    <2> HIDE DEF S
    <2> QED  BY <1>1, <1>2, EveryNumber
<1> QED  BY <1>3

LEMMA FlattenSeqFlattens ==
    ASSUME NEW seqs, Len(seqs) \in Nat, Len(seqs) # 0
    PROVE  \E f : Flattens(seqs, f, Len(seqs)) /\ FlattenSeq(seqs) = f[Len(seqs)]
<1>1. PICK n \in Nat : n = Len(seqs)
    OBVIOUS
<1> DEFINE Right(f) == f = [i \in 1 .. n |-> IF i = 1 THEN seqs[i] ELSE f[i - 1] \o seqs[i]]
<1>2. PICK f : Flattens(seqs, f, n)
    BY FlattenExists
<1>3. Right(f)
    BY <1>2 DEF Flattens
<1>4. PICK g : g = CHOOSE h : Right(h)
    OBVIOUS
<1>5. Right(g)
    <2> HIDE DEF Right
    <2> QED  BY <1>3, <1>4
<1>6. Flattens(seqs, g, n)
    BY <1>5 DEF Flattens
<1>7. FlattenSeq(seqs) = g[n]
    BY <1>1, <1>4 DEF FlattenSeq
<1> QED  BY <1>1, <1>6, <1>7

LEMMA StandsFirst ==
    ASSUME NEW a \in Seq(Nat), NEW b \in Seq(Nat), NEW s \in Seq(Nat), NEW pos \in Nat \ {0},
           Stands(s, a, pos)
    PROVE  Stands(s, a \o b, pos)
<1>1. a \o b \in Seq(Nat) /\ Len(a \o b) = Len(a) + Len(b) /\ Len(a) \in Nat /\ Len(b) \in Nat
      /\ Len(s) \in Nat
    BY ConcatProperties, LenProperties
<1>2. pos + Len(s) <= Len(a) + 1
    BY DEF Stands
<1>3. \A i \in 0 .. Len(s) - 1 : (a \o b)[pos + i] = s[i + 1]
    <2> SUFFICES ASSUME NEW i \in 0 .. Len(s) - 1 PROVE (a \o b)[pos + i] = s[i + 1]
        OBVIOUS
    <2>1. pos + i \in 1 .. Len(a)
        BY <1>1, <1>2
    <2>2. (a \o b)[pos + i] = a[pos + i]
        BY <2>1, ConcatProperties
    <2> QED  BY <2>2 DEF Stands
<1> QED  BY <1>1, <1>2, <1>3 DEF Stands

LEMMA StandsBehind ==
    ASSUME NEW a \in Seq(Nat), NEW b \in Seq(Nat), NEW s \in Seq(Nat), NEW pos \in Nat \ {0},
           Stands(s, b, pos)
    PROVE  Stands(s, a \o b, Len(a) + pos)
<1>1. a \o b \in Seq(Nat) /\ Len(a \o b) = Len(a) + Len(b) /\ Len(a) \in Nat /\ Len(b) \in Nat
      /\ Len(s) \in Nat
    BY ConcatProperties, LenProperties
<1>2. pos + Len(s) <= Len(b) + 1
    BY DEF Stands
<1>3. \A i \in 0 .. Len(s) - 1 : (a \o b)[Len(a) + pos + i] = s[i + 1]
    <2> SUFFICES ASSUME NEW i \in 0 .. Len(s) - 1 PROVE (a \o b)[Len(a) + pos + i] = s[i + 1]
        OBVIOUS
    <2>1. PICK k \in Len(a) + 1 .. Len(a) + Len(b) : k = Len(a) + pos + i
        <3>1. pos + i \in 1 .. Len(b)
            BY <1>1, <1>2
        <3>2. Len(a) + pos + i \in Len(a) + 1 .. Len(a) + Len(b)
            BY <1>1, <3>1
        <3> QED  BY <3>2
    <2>2. (a \o b)[k] = b[k - Len(a)]
        BY <2>1, ConcatProperties
    <2>3. k - Len(a) = pos + i
        BY <1>1, <2>1
    <2>4. b[pos + i] = s[i + 1]
        BY DEF Stands
    <2> QED  BY <2>1, <2>2, <2>3, <2>4
<1>4. Len(a) + pos + Len(s) <= Len(a \o b) + 1
    BY <1>1, <1>2
<1> QED  BY <1>3, <1>4 DEF Stands

LEMMA StandsWhole == ASSUME NEW s \in Seq(Nat)  PROVE Stands(s, s, 1)
<1>1. \A i \in 0 .. Len(s) - 1 : 1 + i = i + 1
    BY LenProperties
<1>2. 1 + Len(s) <= Len(s) + 1
    BY LenProperties
<1> QED  BY <1>1, <1>2 DEF Stands

(* What stands in something that stands in a buffer.                       *)
LEMMA StandsIn ==
    ASSUME NEW s \in Seq(Nat), NEW t \in Seq(Nat), NEW buf \in Seq(Nat),
           NEW p \in Nat \ {0}, NEW q \in Nat \ {0}, Stands(s, t, p), Stands(t, buf, q)
    PROVE  Stands(s, buf, q + p - 1)
<1>1. Len(s) \in Nat /\ Len(t) \in Nat /\ Len(buf) \in Nat
    BY LenProperties
<1>2. p + Len(s) <= Len(t) + 1 /\ q + Len(t) <= Len(buf) + 1
    BY DEF Stands
<1>3. q + p - 1 + Len(s) <= Len(buf) + 1
    BY <1>1, <1>2
<1>4. ASSUME NEW i \in 0 .. Len(s) - 1 PROVE buf[q + p - 1 + i] = s[i + 1]
    <2>1. t[p + i] = s[i + 1]
        BY DEF Stands
    <2>2. PICK k \in 0 .. Len(t) - 1 : k = p + i - 1
        BY <1>1, <1>2
    <2>3. buf[q + k] = t[k + 1]
        BY DEF Stands
    <2>4. q + k = q + p - 1 + i /\ k + 1 = p + i
        BY <2>2
    <2> QED  BY <2>1, <2>3, <2>4
<1> QED  BY <1>3, <1>4 DEF Stands

(* One more behind the others.                                             *)
LEMMA LaidAppend ==
    ASSUME NEW seqs, NEW k \in Nat, NEW at, NEW flat \in Seq(Nat), NEW s \in Seq(Nat),
           Laid(seqs, k, at, flat), seqs[k + 1] = s, \A i \in 1 .. k : seqs[i] \in Seq(Nat)
    PROVE  \E to : /\ Laid(seqs, k + 1, to, flat \o s)
                   /\ \A i \in 1 .. k + 1 : to[i] = at[i]
<1>1. PICK more \in Seq(Nat) : more = flat \o s /\ Len(more) = Len(flat) + Len(s)
    BY ConcatProperties
<1>2. Len(flat) \in Nat /\ Len(s) \in Nat
    BY LenProperties
<1> DEFINE to == [i \in 1 .. (k + 1) + 1 |-> IF i = (k + 1) + 1 THEN Len(more) + 1 ELSE at[i]]
<1>3. at \in [1 .. k + 1 -> Nat \ {0}] /\ at[1] = 1 /\ at[k + 1] = Len(flat) + 1
      /\ \A i \in 1 .. k : at[i + 1] = at[i] + Len(seqs[i]) /\ Stands(seqs[i], flat, at[i])
    BY DEF Laid
<1>4. to \in [1 .. (k + 1) + 1 -> Nat \ {0}]
    <2>1. \A i \in 1 .. (k + 1) + 1 : i # (k + 1) + 1 => i \in 1 .. k + 1
        OBVIOUS
    <2>2. PICK end \in Nat \ {0} : end = Len(more) + 1
        BY <1>1, <1>2
    <2>3. to = [i \in 1 .. (k + 1) + 1 |-> IF i = (k + 1) + 1 THEN end ELSE at[i]]
        BY <2>2
    <2> HIDE DEF to
    <2> QED  BY <1>3, <2>1, <2>3
<1>5. /\ to[(k + 1) + 1] = Len(more) + 1
      /\ \A i \in 1 .. k + 1 : to[i] = at[i]
    <2>1. (k + 1) + 1 \in 1 .. (k + 1) + 1
        OBVIOUS
    <2>2. \A i \in 1 .. k + 1 : i \in 1 .. (k + 1) + 1 /\ i # (k + 1) + 1
        OBVIOUS
    <2> QED  BY <2>1, <2>2
<1> HIDE DEF to
<1>6. to[1] = 1
    <2>1. 1 \in 1 .. k + 1
        OBVIOUS
    <2> QED  BY <1>3, <1>5, <2>1
<1>7. ASSUME NEW i \in 1 .. k + 1
      PROVE  to[i + 1] = to[i] + Len(seqs[i]) /\ Stands(seqs[i], more, to[i])
    <2>1. CASE i = k + 1
        <3>1. PICK x \in Nat, y \in Nat : x = Len(flat) /\ y = Len(s) /\ Len(more) = x + y
            BY <1>1, <1>2
        <3>2. seqs[i] = s /\ to[i] = x + 1 /\ to[i + 1] = x + y + 1
            BY <1>3, <1>5, <2>1, <3>1
        <3>3. to[i + 1] = to[i] + Len(seqs[i])
            BY <3>1, <3>2
        <3>4. Stands(s, flat \o s, Len(flat) + 1)
            BY StandsWhole, StandsBehind
        <3> QED  BY <1>1, <3>1, <3>2, <3>3, <3>4
    <2>2. CASE i # k + 1
        <3>1. i \in 1 .. k /\ i + 1 \in 1 .. k + 1
            BY <2>2
        <3>2. to[i] = at[i] /\ to[i + 1] = at[i + 1] /\ at[i] \in Nat \ {0}
            BY <1>3, <1>5, <3>1
        <3>3. seqs[i] \in Seq(Nat) /\ Stands(seqs[i], flat, at[i]) /\ at[i + 1] = at[i] + Len(seqs[i])
            BY <1>3, <3>1
        <3>4. Stands(seqs[i], flat \o s, at[i])
            BY <3>2, <3>3, StandsFirst
        <3> QED  BY <1>1, <3>2, <3>3, <3>4
    <2> QED  BY <2>1, <2>2
<1>8. Laid(seqs, k + 1, to, more)
    BY <1>4, <1>5, <1>6, <1>7 DEF Laid
<1> QED  BY <1>1, <1>5, <1>8

LEMMA FlattenLaid ==
    ASSUME NEW seqs \in Seq(Seq(Nat))
    PROVE  /\ FlattenSeq(seqs) \in Seq(Nat)
           /\ \E at : Laid(seqs, Len(seqs), at, FlattenSeq(seqs))
<1>1. PICK n \in Nat : n = Len(seqs)
    BY LenProperties
<1>2. CASE n = 0
    <2>1. FlattenSeq(seqs) = <<>>
        <3>1. seqs = <<>>
            BY <1>1, <1>2, EmptySeq
        <3> QED  BY <1>1, <1>2, <3>1 DEF FlattenSeq
    <2> DEFINE at == [i \in 1 .. 0 + 1 |-> 1]
    <2>2. at \in [1 .. 0 + 1 -> Nat \ {0}] /\ at[1] = 1 /\ at[0 + 1] = 0 + 1
        OBVIOUS
    <2>3. Len(<<>>) = 0 /\ ~ \E i : i \in 1 .. 0
        OBVIOUS
    <2>4. Laid(seqs, 0, at, <<>>)
        <3> HIDE DEF at
        <3> QED  BY <2>2, <2>3 DEF Laid
    <2> QED  BY <1>1, <1>2, <2>1, <2>4
<1>3. CASE n # 0
    <2>1. PICK f : Flattens(seqs, f, n) /\ FlattenSeq(seqs) = f[n]
        BY <1>1, <1>3, FlattenSeqFlattens
    <2>2. \A i \in 1 .. n : f[i] = IF i = 1 THEN seqs[i] ELSE f[i - 1] \o seqs[i]
        BY <2>1 DEF Flattens
    <2>3. \A i \in 1 .. n : seqs[i] \in Seq(Nat) /\ Len(seqs[i]) \in Nat
        BY <1>1, LenProperties
    <2> DEFINE Good(m) == f[m] \in Seq(Nat) /\ \E at : Laid(seqs, m, at, f[m])
               S == {m \in Nat : m + 1 <= n => Good(m + 1)}
    <2>4. 0 \in S
        <3>1. 1 \in 1 .. n
            BY <1>3
        <3>2. f[1] = seqs[1] /\ f[1] \in Seq(Nat) /\ Len(f[1]) \in Nat
            BY <2>2, <2>3, <3>1
        <3> DEFINE at == [i \in 1 .. 1 + 1 |-> IF i = 1 THEN 1 ELSE Len(f[1]) + 1]
        <3>3. at \in [1 .. 1 + 1 -> Nat \ {0}] /\ at[1] = 1 /\ at[1 + 1] = Len(f[1]) + 1
            BY <3>2
        <3> HIDE DEF at
        <3>4. Stands(seqs[1], f[1], 1)
            BY <3>2, StandsWhole
        <3>5. Laid(seqs, 1, at, f[1])
            <4>1. \A i \in 1 .. 1 : i = 1
                OBVIOUS
            <4>2. at[1 + 1] = at[1] + Len(seqs[1])
                BY <3>2, <3>3
            <4> QED  BY <3>3, <3>4, <4>1, <4>2 DEF Laid
        <3>6. Good(0 + 1)
            BY <3>2, <3>5
        <3> HIDE DEF Good
        <3> QED  BY <3>6
    <2>5. ASSUME NEW m \in Nat, m \in S PROVE m + 1 \in S
        <3>1. SUFFICES ASSUME (m + 1) + 1 <= n PROVE Good((m + 1) + 1)
            <4> HIDE DEF Good
            <4> QED  OBVIOUS
        <3>2. PICK k \in Nat : k = m + 1 /\ k >= 1 /\ k + 1 \in 1 .. n /\ k \in 1 .. n
            BY <3>1
        <3>3. Good(k)
            <4>1. m + 1 <= n
                BY <3>1
            <4> HIDE DEF Good
            <4> QED  BY <2>5, <3>2, <4>1
        <3>4. f[k] \in Seq(Nat) /\ Len(f[k]) \in Nat
            BY <3>3, LenProperties
        <3>5. PICK at : Laid(seqs, k, at, f[k])
            BY <3>3
        <3>6. PICK s \in Seq(Nat) : s = seqs[k + 1] /\ Len(s) \in Nat
            BY <2>3, <3>2
        <3>7. f[k + 1] = f[k] \o s
            <4>1. k + 1 # 1 /\ (k + 1) - 1 = k
                BY <3>2
            <4> QED  BY <2>2, <3>2, <3>6, <4>1
        <3>8. f[k + 1] \in Seq(Nat)
            BY <3>4, <3>6, <3>7, ConcatProperties
        <3>9. PICK to : Laid(seqs, k + 1, to, f[k] \o s)
            <4>1. \A i \in 1 .. k : seqs[i] \in Seq(Nat)
                BY <2>3, <3>2
            <4> QED  BY <3>2, <3>4, <3>5, <3>6, <4>1, LaidAppend
        <3> QED  BY <3>2, <3>7, <3>8, <3>9
    <2>6. n - 1 \in Nat /\ (n - 1) + 1 = n
        BY <1>3
    <2>7. \A m \in Nat : m \in S
        <3> HIDE DEF S
        <3> QED  BY <2>4, <2>5, EveryNumber
    <2>8. n - 1 \in S
        <3> HIDE DEF S
        <3> QED  BY <2>6, <2>7
    <2>9. Good(n)
        <3> HIDE DEF Good
        <3> QED  BY <2>6, <2>8
    <2> QED  BY <1>1, <2>1, <2>9
<1> QED  BY <1>2, <1>3

-----------------------------------------------------------------------------
(* Values                                                                  *)

LEMMA Kinds ==
    ASSUME NEW v \in Values
    PROVE  /\ v = <<v[1], v[2]>>
           /\ \/ v[1] = "nil" /\ v[2] = 0
              \/ v[1] \in {"string", "bytes"} /\ v[2] \in Seq(0 .. Byte - 1)
              \/ v[1] \in {"int", "float"} /\ v[2] \in Int
              \/ v[1] = "array" /\ v[2] \in Seq(Values)
              \/ v[1] = "other"
<1>1. \/ v \in {<<"nil", 0>>} \/ v \in {"string", "bytes"} \X Seq(0 .. Byte - 1)
      \/ v \in {"int", "float"} \X Int \/ v \in {"array"} \X Seq(Values)
      \/ v \in {"other"} \X STRING
    BY ValuesAssumption
<1> QED  BY <1>1

LEMMA Elements ==
    ASSUME NEW v \in Values, v[1] = "array"
    PROVE  /\ v[2] \in Seq(Values) /\ Len(v[2]) \in Nat
           /\ \A i \in 1 .. Len(v[2]) :
                 /\ v[2][i] \in Values
                 /\ Depth[v[2][i]] \in Nat /\ Depth[v] \in Nat /\ Depth[v[2][i]] < Depth[v]
<1>1. v[2] \in Seq(Values)
    BY Kinds
<1>2. PICK c \in Seq(Values) : c = v[2]
    BY <1>1
<1>3. Len(c) \in Nat /\ DOMAIN c = 1 .. Len(c) /\ \A i \in 1 .. Len(c) : c[i] \in Values
    BY LenProperties
<1>4. \A i \in 1 .. Len(c) : Depth[c[i]] < Depth[v]
    BY <1>2, <1>3, ValuesAssumption
<1>5. \A w \in Values : Depth[w] \in Nat
    BY ValuesAssumption
<1> QED  BY <1>2, <1>3, <1>4, <1>5

(* What becomes of a value, given what becomes of its elements.            *)
Made(which, f, v) == IF which = "bytes" THEN Written(f, v) ELSE Reduced(f, v)

Agree(f, g, n) == \A v \in Values : Depth[v] < n => f[v] = g[v]

MadeTo(which, f, n) == \A v \in Values : Depth[v] < n => f[v] = Made(which, f, v)

LEMMA MadeOfElements ==
    ASSUME NEW which, NEW f, NEW g, NEW v \in Values, Agree(f, g, Depth[v])
    PROVE  Made(which, f, v) = Made(which, g, v)
<1>1. CASE v[1] = "array"
    <2>1. \A i \in 1 .. Len(v[2]) : f[v[2][i]] = g[v[2][i]]
        BY <1>1, Elements DEF Agree
    <2>2. /\ [i \in 1 .. Len(v[2]) |-> f[v[2][i]]] = [i \in 1 .. Len(v[2]) |-> g[v[2][i]]]
        BY <2>1
    <2>3. Written(f, v) = <<DTArray>> \o WriteVQL(Len(v[2]) % Word)
                              \o FlattenSeq([i \in 1 .. Len(v[2]) |-> f[v[2][i]]])
        BY <1>1 DEF Written
    <2>4. Written(g, v) = <<DTArray>> \o WriteVQL(Len(v[2]) % Word)
                              \o FlattenSeq([i \in 1 .. Len(v[2]) |-> g[v[2][i]]])
        BY <1>1 DEF Written
    <2>5. Reduced(f, v) = <<"array", [i \in 1 .. Len(v[2]) |-> f[v[2][i]]]>>
        BY <1>1 DEF Reduced
    <2>6. Reduced(g, v) = <<"array", [i \in 1 .. Len(v[2]) |-> g[v[2][i]]]>>
        BY <1>1 DEF Reduced
    <2> QED  BY <2>2, <2>3, <2>4, <2>5, <2>6, Zenon DEF Made
<1>2. CASE v[1] # "array"
    <2>1. Written(f, v) = Written(g, v)
        BY <1>2 DEF Written
    <2>2. Reduced(f, v) = Reduced(g, v)
        BY <1>2 DEF Reduced
    <2> QED  BY <2>1, <2>2 DEF Made
<1> QED  BY <1>1, <1>2

LEMMA MadeExists == ASSUME NEW which  PROVE \A n \in Nat : \E f : MadeTo(which, f, n)
<1> DEFINE S == {n \in Nat : \E f : MadeTo(which, f, n)}
<1>1. \A v \in Values : Depth[v] \in Nat
    BY ValuesAssumption
<1>2. 0 \in S
    <2>1. MadeTo(which, Depth, 0)
        BY <1>1 DEF MadeTo
    <2> QED  BY <2>1
<1>3. ASSUME NEW n \in Nat, n \in S PROVE n + 1 \in S
    <2>1. PICK f : MadeTo(which, f, n)
        BY <1>3
    <2> DEFINE g == [v \in Values |-> Made(which, f, v)]
    <2>2. \A v \in Values : g[v] = Made(which, f, v)
        OBVIOUS
    <2> HIDE DEF g
    <2>3. \A v \in Values : Depth[v] < n => g[v] = f[v]
        BY <2>1, <2>2 DEF MadeTo
    <2>4. ASSUME NEW v \in Values, Depth[v] < n + 1 PROVE g[v] = Made(which, g, v)
        <3>1. \A w \in Values : Depth[w] < Depth[v] => Depth[w] < n
            BY <1>1, <2>4
        <3>2. Agree(f, g, Depth[v])
            BY <2>3, <3>1 DEF Agree
        <3>3. Made(which, f, v) = Made(which, g, v)
            BY <3>2, MadeOfElements
        <3> QED  BY <2>2, <3>3
    <2>5. MadeTo(which, g, n + 1)
        BY <2>4 DEF MadeTo
    <2> QED  BY <2>5
<1> HIDE DEF S
<1>4. \A n \in Nat : n \in S
    BY <1>2, <1>3, EveryNumber
<1> QED  BY <1>4 DEF S

LEMMA MadeAgree ==
    ASSUME NEW which, NEW f, NEW g, NEW m \in Nat, NEW n \in Nat,
           MadeTo(which, f, m), MadeTo(which, g, n)
    PROVE  \A k \in Nat : k <= m /\ k <= n => Agree(f, g, k)
<1> DEFINE S == {k \in Nat : k <= m /\ k <= n => Agree(f, g, k)}
<1>1. \A v \in Values : Depth[v] \in Nat
    BY ValuesAssumption
<1>2. 0 \in S
    <2>1. Agree(f, g, 0)
        BY <1>1 DEF Agree
    <2> QED  BY <2>1
<1>3. ASSUME NEW k \in Nat, k \in S PROVE k + 1 \in S
    <2>1. SUFFICES ASSUME k + 1 <= m, k + 1 <= n PROVE Agree(f, g, k + 1)
        OBVIOUS
    <2>2. Agree(f, g, k)
        <3>1. k <= m /\ k <= n
            BY <2>1
        <3> QED  BY <1>3, <3>1
    <2>3. ASSUME NEW v \in Values, Depth[v] < k + 1 PROVE f[v] = g[v]
        <3>1. \A w \in Values : Depth[w] < Depth[v] => Depth[w] < k
            BY <1>1, <2>3
        <3>2. Agree(f, g, Depth[v])
            BY <2>2, <3>1 DEF Agree
        <3>3. Depth[v] < m /\ Depth[v] < n
            BY <1>1, <2>1, <2>3
        <3>4. f[v] = Made(which, f, v) /\ g[v] = Made(which, g, v)
            BY <3>3 DEF MadeTo
        <3>5. Made(which, f, v) = Made(which, g, v)
            BY <3>2, MadeOfElements
        <3> QED  BY <3>4, <3>5
    <2> QED  BY <2>3 DEF Agree
<1> HIDE DEF S
<1>4. \A k \in Nat : k \in S
    BY <1>2, <1>3, EveryNumber
<1> QED  BY <1>4 DEF S

LEMMA MadeForAll ==
    ASSUME NEW which
    PROVE  \E f : f = [v \in Values |-> Made(which, f, v)]
<1> DEFINE some(n) == CHOOSE f : MadeTo(which, f, n)
           all == [v \in Values |-> some(Depth[v] + 1)[v]]
<1>1. \A v \in Values : Depth[v] \in Nat
    BY ValuesAssumption
<1>2. \A n \in Nat : MadeTo(which, some(n), n)
    <2> SUFFICES ASSUME NEW n \in Nat PROVE MadeTo(which, some(n), n)
        OBVIOUS
    <2>1. \E f : MadeTo(which, f, n)
        BY MadeExists
    <2> QED  BY <2>1, Zenon
<1>3. \A v \in Values : all[v] = some(Depth[v] + 1)[v]
    OBVIOUS
<1>4. all = [v \in Values |-> all[v]]
    OBVIOUS
<1> HIDE DEF all, some
<1>5. ASSUME NEW v \in Values PROVE all[v] = Made(which, all, v)
    <2>1. PICK n \in Nat : n = Depth[v] + 1
        BY <1>1
    <2>2. PICK f : f = some(n)
        OBVIOUS
    <2>3. MadeTo(which, f, n)
        BY <1>2, <2>2
    <2>4. all[v] = f[v]
        BY <1>3, <2>1, <2>2
    <2>5. f[v] = Made(which, f, v)
        <3>1. Depth[v] < n
            BY <1>1, <2>1
        <3> QED  BY <2>3, <3>1 DEF MadeTo
    <2>6. ASSUME NEW w \in Values, Depth[w] < Depth[v] PROVE f[w] = all[w]
        <3>1. PICK m \in Nat : m = Depth[w] + 1 /\ m <= n /\ m <= m /\ Depth[w] < m
            BY <1>1, <2>1, <2>6
        <3>2. PICK g : g = some(m)
            OBVIOUS
        <3>3. MadeTo(which, g, m)
            BY <1>2, <3>2
        <3>4. Agree(f, g, m)
            BY <2>3, <3>1, <3>3, MadeAgree
        <3>5. f[w] = g[w]
            BY <3>1, <3>4 DEF Agree
        <3>6. all[w] = g[w]
            BY <1>3, <3>1, <3>2
        <3> QED  BY <3>5, <3>6
    <2>7. Agree(f, all, Depth[v])
        BY <2>6 DEF Agree
    <2>8. Made(which, f, v) = Made(which, all, v)
        BY <2>7, MadeOfElements
    <2> QED  BY <2>4, <2>5, <2>8
<1>6. all = [v \in Values |-> Made(which, all, v)]
    BY <1>4, <1>5
<1> QED  BY <1>6

LEMMA Serialized == \A v \in Values : Serialize[v] = Written(Serialize, v)
<1> DEFINE Right(f) == f = [v \in Values |-> Written(f, v)]
<1>1. PICK f : f = [v \in Values |-> Made("bytes", f, v)]
    BY MadeForAll
<1>2. Right(f)
    <2>1. \A v \in Values : Made("bytes", f, v) = Written(f, v)
        BY DEF Made
    <2>2. [v \in Values |-> Made("bytes", f, v)] = [v \in Values |-> Written(f, v)]
        BY <2>1
    <2> QED  BY <1>1, <2>2
<1>3. Right(Serialize)
    <2>1. Serialize = CHOOSE g : Right(g)
        BY DEF Serialize
    <2> HIDE DEF Right
    <2> QED  BY <1>2, <2>1
<1> QED  BY <1>3

LEMMA Normalized == \A v \in Values : Normal[v] = Reduced(Normal, v)
<1> DEFINE Right(f) == f = [v \in Values |-> Reduced(f, v)]
<1>1. PICK f : f = [v \in Values |-> Made("value", f, v)]
    BY MadeForAll
<1>2. Right(f)
    <2>1. \A v \in Values : Made("value", f, v) = Reduced(f, v)
        BY DEF Made
    <2>2. [v \in Values |-> Made("value", f, v)] = [v \in Values |-> Reduced(f, v)]
        BY <2>1
    <2> QED  BY <1>1, <2>2
<1>3. Right(Normal)
    <2>1. Normal = CHOOSE g : Right(g)
        BY DEF Normal
    <2> HIDE DEF Right
    <2> QED  BY <1>2, <2>1
<1> QED  BY <1>3

-----------------------------------------------------------------------------
(* Arrays                                                                  *)

(* One more element.                                                       *)
Element(parse, before) ==
    LET el == parse[before.next]
    IN  IF before.ok /\ el.ok THEN Found(Append(before.value, el.value), el.next) ELSE Failed

(* What is read of the first k elements, for k up to n.                    *)
Firsts(parse, pos, first, n) ==
    /\ first = [k \in 0 .. n |-> first[k]]
    /\ first[0] = Found(<<>>, pos)
    /\ \A k \in 1 .. n : first[k] = Element(parse, first[k - 1])

LEMMA FirstsExist ==
    ASSUME NEW parse, NEW pos
    PROVE  \A n \in Nat : \E f : Firsts(parse, pos, f, n)
<1> DEFINE S == {n \in Nat : \E f : Firsts(parse, pos, f, n)}
<1>1. 0 \in S
    <2> DEFINE f == [k \in 0 .. 0 |-> Found(<<>>, pos)]
    <2>1. f = [k \in 0 .. 0 |-> f[k]] /\ f[0] = Found(<<>>, pos) /\ ~ \E k : k \in 1 .. 0
        OBVIOUS
    <2>2. Firsts(parse, pos, f, 0)
        <3> HIDE DEF f
        <3> QED  BY <2>1 DEF Firsts
    <2> HIDE DEF f
    <2> QED  BY <2>2
<1>2. ASSUME NEW n \in Nat, n \in S PROVE n + 1 \in S
    <2>1. PICK f : Firsts(parse, pos, f, n)
        BY <1>2
    <2>2. PICK last : last = Element(parse, f[n])
        OBVIOUS
    <2> DEFINE g == [k \in 0 .. n + 1 |-> IF k = n + 1 THEN last ELSE f[k]]
    <2>3. \A k \in 0 .. n + 1 : g[k] = IF k = n + 1 THEN last ELSE f[k]
        OBVIOUS
    <2>4. g = [k \in 0 .. n + 1 |-> g[k]]
        OBVIOUS
    <2> HIDE DEF g
    <2>5. g[0] = Found(<<>>, pos)
        <3>1. 0 \in 0 .. n + 1 /\ 0 # n + 1
            OBVIOUS
        <3> QED  BY <2>1, <2>3, <3>1 DEF Firsts
    <2>6. ASSUME NEW k \in 1 .. n + 1 PROVE g[k] = Element(parse, g[k - 1])
        <3>1. k \in 0 .. n + 1 /\ k - 1 \in 0 .. n + 1 /\ k - 1 # n + 1
            OBVIOUS
        <3>2. g[k - 1] = f[k - 1]
            BY <2>3, <3>1
        <3>3. CASE k = n + 1
            <4>1. g[k] = last /\ k - 1 = n
                BY <2>3, <3>1, <3>3
            <4> QED  BY <2>2, <3>2, <4>1
        <3>4. CASE k # n + 1
            <4>1. k \in 1 .. n
                BY <3>4
            <4>2. f[k] = Element(parse, f[k - 1])
                BY <2>1, <4>1 DEF Firsts
            <4>3. g[k] = f[k]
                BY <2>3, <3>1, <3>4
            <4> QED  BY <3>2, <4>2, <4>3
        <3> QED  BY <3>3, <3>4
    <2>7. Firsts(parse, pos, g, n + 1)
        BY <2>4, <2>5, <2>6 DEF Firsts
    <2> QED  BY <2>7
<1> HIDE DEF S
<1>3. \A n \in Nat : n \in S
    BY <1>1, <1>2, EveryNumber
<1> QED  BY <1>3 DEF S

LEMMA ReadArrayFirsts ==
    ASSUME NEW parse, NEW pos, NEW n \in Nat
    PROVE  \E f : Firsts(parse, pos, f, n) /\ ReadArray(parse, pos, n) = f[n]
<1> DEFINE Next1(f, k) == IF k = 0 THEN Found(<<>>, pos) ELSE Element(parse, f[k - 1])
           Right(f) == f = [k \in 0 .. n |-> Next1(f, k)]
<1>1. PICK f : Firsts(parse, pos, f, n)
    BY FirstsExist
<1>2. Right(f)
    <2>1. ASSUME NEW k \in 0 .. n PROVE f[k] = Next1(f, k)
        <3>1. CASE k = 0
            BY <1>1, <3>1 DEF Firsts
        <3>2. CASE k # 0
            <4>1. k \in 1 .. n
                BY <3>2
            <4>2. f[k] = Element(parse, f[k - 1])
                BY <1>1, <4>1 DEF Firsts
            <4> QED  BY <3>2, <4>2
        <3> QED  BY <3>1, <3>2
    <2>2. f = [k \in 0 .. n |-> f[k]]
        BY <1>1 DEF Firsts
    <2> HIDE DEF Next1
    <2>3. [k \in 0 .. n |-> f[k]] = [k \in 0 .. n |-> Next1(f, k)]
        BY <2>1
    <2> QED  BY <2>2, <2>3
<1>3. PICK g : g = CHOOSE h : Right(h)
    OBVIOUS
<1>4. Right(g)
    <2> HIDE DEF Right
    <2> QED  BY <1>2, <1>3
<1>5. \A k \in 0 .. n : g[k] = Next1(g, k)
    <2> HIDE DEF Next1
    <2> QED  BY <1>4
<1>6. Firsts(parse, pos, g, n)
    <2>1. g = [k \in 0 .. n |-> g[k]]
        <3> HIDE DEF Next1
        <3> QED  BY <1>4
    <2>2. g[0] = Found(<<>>, pos)
        <3>1. 0 \in 0 .. n
            OBVIOUS
        <3> QED  BY <1>5, <3>1
    <2>3. ASSUME NEW k \in 1 .. n PROVE g[k] = Element(parse, g[k - 1])
        <3>1. k \in 0 .. n /\ k # 0
            OBVIOUS
        <3>2. g[k] = Next1(g, k)
            BY <1>5, <3>1
        <3> QED  BY <3>1, <3>2, Zenon
    <2> QED  BY <2>1, <2>2, <2>3 DEF Firsts
<1>7. ReadArray(parse, pos, n) = g[n]
    BY <1>3 DEF ReadArray, Element
<1> QED  BY <1>6, <1>7

(* What f has found, g finds.                                              *)
Follows(g, f, torn, pos) ==
    \A q \in pos .. Len(torn) + 1 : Reads(f[q], torn, q) /\ (f[q].ok => g[q] = f[q])

(* The same for arrays, whose elements may be none.                        *)
FollowsTo(b, a, torn, pos) ==
    /\ \/ a = Failed /\ a.ok = FALSE
       \/ a.ok = TRUE /\ a.next \in pos .. Len(torn) + 1
    /\ a.ok => b = a

LEMMA ReadArrayFollows ==
    ASSUME NEW f, NEW g, NEW torn \in Seq(Nat), NEW pos \in 1 .. Len(torn) + 1, NEW n \in Nat,
           Follows(g, f, torn, pos)
    PROVE  FollowsTo(ReadArray(g, pos, n), ReadArray(f, pos, n), torn, pos)
<1>1. PICK a : Firsts(f, pos, a, n) /\ ReadArray(f, pos, n) = a[n]
    BY ReadArrayFirsts
<1>2. PICK b : Firsts(g, pos, b, n) /\ ReadArray(g, pos, n) = b[n]
    BY ReadArrayFirsts
<1>3. Len(torn) \in Nat /\ pos \in Nat
    BY LenProperties
<1> DEFINE Good(k) == FollowsTo(b[k], a[k], torn, pos)
           S == {k \in Nat : k <= n => Good(k)}
<1>4. 0 \in S
    <2>1. a[0] = Found(<<>>, pos) /\ b[0] = Found(<<>>, pos)
        BY <1>1, <1>2 DEF Firsts
    <2>2. a[0].ok = TRUE /\ a[0].next = pos
        BY <2>1 DEF Found
    <2>3. pos \in pos .. Len(torn) + 1
        BY <1>3
    <2>4. Good(0)
        BY <2>1, <2>2, <2>3 DEF FollowsTo
    <2> HIDE DEF Good
    <2> QED  BY <2>4
<1>5. ASSUME NEW k \in Nat, k \in S PROVE k + 1 \in S
    <2>1. SUFFICES ASSUME k + 1 <= n PROVE Good(k + 1)
        <3> HIDE DEF Good
        <3> QED  OBVIOUS
    <2>2. Good(k)
        <3>1. k <= n
            BY <2>1
        <3> HIDE DEF Good
        <3> QED  BY <1>5, <3>1
    <2>3. k + 1 \in 1 .. n /\ (k + 1) - 1 = k
        BY <2>1
    <2>4. PICK c, d : c = a[k] /\ d = b[k]
        OBVIOUS
    <2>5. a[k + 1] = Element(f, c) /\ b[k + 1] = Element(g, d)
        BY <1>1, <1>2, <2>3, <2>4 DEF Firsts
    <2>6. CASE ~(c.ok /\ f[c.next].ok)
        <3>1. a[k + 1] = Failed /\ Failed.ok = FALSE
            BY <2>5, <2>6 DEF Element, Failed
        <3> QED  BY <3>1 DEF FollowsTo
    <2>7. CASE c.ok /\ f[c.next].ok
        <3>1. PICK q \in pos .. Len(torn) + 1 : q = c.next /\ d = c
            <4>1. c.ok # FALSE
                BY <2>7
            <4> QED  BY <2>2, <2>4, <2>7, <4>1 DEF FollowsTo
        <3>2. g[q] = f[q] /\ Reads(f[q], torn, q)
            BY <2>7, <3>1 DEF Follows
        <3>3. f[q].next \in q + 1 .. Len(torn) + 1
            BY <2>7, <3>1, <3>2 DEF Reads
        <3>4. a[k + 1] = Found(Append(c.value, f[q].value), f[q].next)
            BY <2>5, <2>7, <3>1 DEF Element
        <3>5. b[k + 1] = a[k + 1]
            BY <2>5, <3>1, <3>2 DEF Element
        <3>6. f[q].next \in pos .. Len(torn) + 1
            BY <1>3, <3>3
        <3>7. a[k + 1].ok = TRUE /\ a[k + 1].next = f[q].next
            BY <3>4 DEF Found
        <3> QED  BY <3>5, <3>6, <3>7 DEF FollowsTo
    <2> QED  BY <2>6, <2>7
<1>6. Good(n)
    <2>1. \A k \in Nat : k \in S
        <3> HIDE DEF S
        <3> QED  BY <1>4, <1>5, EveryNumber
    <2>2. n <= n
        OBVIOUS
    <2> HIDE DEF Good
    <2> QED  BY <2>1, <2>2
<1> QED  BY <1>1, <1>2, <1>6

(* What is read of elements that are where they should be.                 *)
Leads(parse, vals, at, n) == \A i \in 1 .. n : parse[at[i]] = Found(vals[i], at[i + 1])

LEMMA ReadArrayOf ==
    ASSUME NEW parse, NEW n \in Nat, NEW vals, NEW at, Leads(parse, vals, at, n)
    PROVE  ReadArray(parse, at[1], n) = Found([i \in 1 .. n |-> vals[i]], at[n + 1])
<1>1. PICK a : Firsts(parse, at[1], a, n) /\ ReadArray(parse, at[1], n) = a[n]
    BY ReadArrayFirsts
<1> DEFINE part(k) == [i \in 1 .. k |-> vals[i]]
           Good(k) == a[k] = Found(part(k), at[k + 1])
           S == {k \in Nat : k <= n => Good(k)}
<1>2. 0 \in S
    <2>1. part(0) = <<>>
        OBVIOUS
    <2>2. a[0] = Found(<<>>, at[1])
        BY <1>1 DEF Firsts
    <2>3. Good(0)
        BY <2>1, <2>2
    <2> HIDE DEF Good
    <2> QED  BY <2>3
<1>3. ASSUME NEW k \in Nat, k \in S PROVE k + 1 \in S
    <2>1. SUFFICES ASSUME k + 1 <= n PROVE Good(k + 1)
        <3> HIDE DEF Good
        <3> QED  OBVIOUS
    <2>2. a[k] = Found(part(k), at[k + 1])
        <3>1. k <= n
            BY <2>1
        <3>2. Good(k)
            <4> HIDE DEF Good
            <4> QED  BY <1>3, <3>1
        <3> QED  BY <3>2
    <2>3. k + 1 \in 1 .. n /\ (k + 1) - 1 = k
        BY <2>1
    <2>4. a[k + 1] = Element(parse, a[k])
        BY <1>1, <2>3 DEF Firsts
    <2>5. parse[at[k + 1]] = Found(vals[k + 1], at[(k + 1) + 1])
        BY <2>3 DEF Leads
    <2>6. a[k].ok /\ a[k].next = at[k + 1] /\ a[k].value = part(k)
        <3> HIDE DEF part
        <3> QED  BY <2>2 DEF Found
    <2>7. PICK el : el = parse[at[k + 1]] /\ el.ok /\ el.value = vals[k + 1] /\ el.next = at[(k + 1) + 1]
        BY <2>5 DEF Found
    <2>8. a[k + 1] = Found(Append(part(k), vals[k + 1]), at[(k + 1) + 1])
        <3> HIDE DEF part
        <3> QED  BY <2>4, <2>6, <2>7 DEF Element
    <2>9. Append(part(k), vals[k + 1]) = part(k + 1)
        OBVIOUS
    <2> HIDE DEF part
    <2> QED  BY <2>8, <2>9
<1>4. Good(n)
    <2>1. \A k \in Nat : k \in S
        <3> HIDE DEF S
        <3> QED  BY <1>2, <1>3, EveryNumber
    <2>2. n <= n
        OBVIOUS
    <2> HIDE DEF Good
    <2> QED  BY <2>1, <2>2
<1> QED  BY <1>1, <1>4

-----------------------------------------------------------------------------
(* Deserialize                                                             *)

LEMMA TornPart ==
    ASSUME NEW torn, NEW buf, Torn(torn, buf), NEW p \in Nat \ {0}, NEW n \in Nat,
           p + n <= Len(torn) + 1
    PROVE  SubSeq(buf, p, p + n - 1) = SubSeq(torn, p, p + n - 1)
<1>1. PICK q \in Int : q = p + n - 1
    OBVIOUS
<1>2. torn \in Seq(Nat) /\ buf \in Seq(Nat) /\ Len(torn) \in Nat
    BY LenProperties DEF Torn
<1>3. SubSeq(buf, p, q) = [i \in 1 .. q - p + 1 |-> buf[i + p - 1]]
    BY <1>1, <1>2
<1>4. SubSeq(torn, p, q) = [i \in 1 .. q - p + 1 |-> torn[i + p - 1]]
    BY <1>1, <1>2
<1>5. \A i \in 1 .. q - p + 1 : torn[i + p - 1] = buf[i + p - 1]
    <2> SUFFICES ASSUME NEW i \in 1 .. q - p + 1 PROVE torn[i + p - 1] = buf[i + p - 1]
        OBVIOUS
    <2>1. i + p - 1 \in 1 .. Len(torn)
        BY <1>1, <1>2
    <2> QED  BY <2>1 DEF Torn
<1> QED  BY <1>1, <1>3, <1>4, <1>5

LEMMA ReadSizedFollows ==
    ASSUME NEW torn, NEW buf, Torn(torn, buf), NEW pos \in Nat \ {0}
    PROVE  /\ Reads(ReadSized(torn, pos), torn, pos)
           /\ ReadSized(torn, pos).ok => ReadSized(buf, pos) = ReadSized(torn, pos)
<1>1. torn \in Seq(Nat) /\ buf \in Seq(Nat) /\ Len(torn) \in Nat /\ Len(buf) \in Nat
      /\ Len(torn) <= Len(buf)
    BY LenProperties DEF Torn
<1>2. PICK length : length = ReadVQL(torn, pos)
    OBVIOUS
<1>3. Failed.ok = FALSE
    BY DEF Failed
<1>4. CASE ~length.ok
    <2>1. ReadSized(torn, pos) = Failed
        BY <1>2, <1>4 DEF ReadSized
    <2> QED  BY <1>3, <2>1 DEF Reads
<1>5. CASE length.ok
    <2>1. length.next \in pos + 1 .. Len(torn) + 1 /\ length.value \in Nat
        <3>1. Reads(length, torn, pos) /\ length.value \in 0 .. Word - 1
            BY <1>1, <1>2, <1>5, ReadVQLType
        <3> QED  BY <1>5, <3>1, Digits DEF Reads
    <2>2. ReadVQL(buf, pos) = length
        BY <1>2, <1>5, ReadVQLTorn
    <2>3. PICK p \in Nat \ {0}, n \in Nat : p = length.next /\ n = length.value
        BY <2>1
    <2>4. ReadSized(torn, pos) = ReadN(torn, p, n) /\ ReadSized(buf, pos) = ReadN(buf, p, n)
        BY <1>2, <1>5, <2>2, <2>3 DEF ReadSized
    <2>5. CASE p + n > Len(torn) + 1
        <3>1. ReadN(torn, p, n) = Failed
            BY <2>5 DEF ReadN
        <3> QED  BY <1>3, <2>4, <3>1 DEF Reads
    <2>6. CASE ~(p + n > Len(torn) + 1)
        <3>1. p + n <= Len(torn) + 1 /\ ~(p + n > Len(buf) + 1)
            <4>1. PICK t \in Nat, b \in Nat : t = Len(torn) /\ b = Len(buf) /\ t <= b
                BY <1>1
            <4>2. ~(p + n > t + 1)
                BY <2>6, <4>1
            <4>3. p + n <= t + 1 /\ ~(p + n > b + 1)
                BY <4>1, <4>2
            <4> QED  BY <4>1, <4>3
        <3>2. SubSeq(buf, p, p + n - 1) = SubSeq(torn, p, p + n - 1)
            <4>1. p + n <= Len(torn) + 1
                BY <3>1
            <4> QED  BY <4>1, TornPart
        <3>3. PICK part : part = SubSeq(torn, p, p + n - 1)
            OBVIOUS
        <3>4. ReadN(torn, p, n) = Found(part, p + n) /\ ReadN(buf, p, n) = Found(part, p + n)
            BY <2>6, <3>1, <3>2, <3>3 DEF ReadN
        <3>5. p + n \in pos + 1 .. Len(torn) + 1
            <4>1. PICK m \in Nat : m = Len(torn)
                BY <1>1
            <4>2. p >= pos + 1
                BY <2>1, <2>3
            <4>3. p + n <= m + 1
                BY <3>1, <4>1
            <4> QED  BY <4>1, <4>2, <4>3
        <3>6. Reads(Found(part, p + n), torn, pos)
            BY <3>5 DEF Reads, Found
        <3> QED  BY <2>4, <3>4, <3>6
    <2> QED  BY <2>5, <2>6
<1> QED  BY <1>4, <1>5

LEMMA AsReads ==
    ASSUME NEW found, NEW kind, NEW buf \in Seq(Nat), NEW pos \in Nat \ {0},
           Reads(found, buf, pos + 1)
    PROVE  /\ Reads(As(kind, found), buf, pos) /\ Reads(Unmarshal(found), buf, pos)
           /\ As(kind, found).ok \/ Unmarshal(found).ok => found.ok
<1>1. Failed.ok = FALSE
    BY DEF Failed
<1>2. CASE found.ok
    <2>1. found.next \in pos + 1 .. Len(buf) + 1
        <3>1. Len(buf) \in Nat
            BY LenProperties
        <3>2. found.next \in (pos + 1) + 1 .. Len(buf) + 1
            BY <1>1, <1>2 DEF Reads
        <3> QED  BY <3>1, <3>2
    <2>2. \A v : Reads(Found(v, found.next), buf, pos)
        BY <2>1 DEF Reads, Found
    <2>3. Reads(As(kind, found), buf, pos)
        BY <1>2, <2>2 DEF As
    <2>4. Reads(Unmarshal(found), buf, pos)
        <3>1. Reads(Failed, buf, pos)
            BY <1>1 DEF Reads
        <3> QED  BY <2>2, <3>1 DEF Unmarshal
    <2> QED  BY <1>2, <2>3, <2>4
<1>3. CASE ~found.ok
    <2>1. As(kind, found) = Failed /\ Unmarshal(found) = Failed
        BY <1>3 DEF As, Unmarshal
    <2> QED  BY <1>1, <2>1 DEF Reads
<1> QED  BY <1>2, <1>3

LEMMA TypesDiffer ==
    /\ DTUndefined \notin {DTString, DTBuffer, DTVSBuffer, DTArray, DTObject, DTInt}
    /\ DTString \notin {DTBuffer, DTVSBuffer, DTArray, DTObject, DTInt}
    /\ DTBuffer \notin {DTArray, DTObject, DTInt} /\ DTVSBuffer \notin {DTArray, DTObject, DTInt}
    /\ DTArray \notin {DTObject, DTInt} /\ DTObject # DTInt
BY DEF DTUndefined, DTString, DTBuffer, DTVSBuffer, DTArray, DTObject, DTInt

(* ReadValue, type by type.                                                *)
IsRead(value, type, buf, parse, pos) ==
    /\ type = DTUndefined => value = Found(<<"nil", 0>>, pos + 1)
    /\ type = DTString => value = As("string", ReadSized(buf, pos + 1))
    /\ type \in {DTBuffer, DTVSBuffer} => value = As("bytes", ReadSized(buf, pos + 1))
    /\ type = DTArray => value = IF ReadVQL(buf, pos + 1).ok
                                 THEN As("array", ReadArray(parse, ReadVQL(buf, pos + 1).next,
                                                            ReadVQL(buf, pos + 1).value))
                                 ELSE Failed
    /\ type = DTObject => value = Unmarshal(ReadSized(buf, pos + 1))
    /\ type = DTInt => value = As("int", ReadVQL(buf, pos + 1))
    /\ type \notin {DTUndefined, DTString, DTBuffer, DTVSBuffer, DTArray, DTObject, DTInt}
          => value = Failed

LEMMA ReadTypes ==
    ASSUME NEW buf, NEW parse, NEW pos, ~(pos > Len(buf))
    PROVE  IsRead(ReadValue(buf, parse, pos), buf[pos], buf, parse, pos)
<1>0. PICK type, value : type = buf[pos] /\ value = ReadValue(buf, parse, pos)
    OBVIOUS
<1>1. PICK nil, string, bytes, array, object, int :
         /\ nil = Found(<<"nil", 0>>, pos + 1)
         /\ string = As("string", ReadSized(buf, pos + 1))
         /\ bytes = As("bytes", ReadSized(buf, pos + 1))
         /\ array = IF ReadVQL(buf, pos + 1).ok
                    THEN As("array", ReadArray(parse, ReadVQL(buf, pos + 1).next,
                                               ReadVQL(buf, pos + 1).value))
                    ELSE Failed
         /\ object = Unmarshal(ReadSized(buf, pos + 1))
         /\ int = As("int", ReadVQL(buf, pos + 1))
    OBVIOUS
<1>2. ReadValue(buf, parse, pos) =
        CASE buf[pos] = DTUndefined -> nil
          [] buf[pos] = DTString -> string
          [] buf[pos] \in {DTBuffer, DTVSBuffer} -> bytes
          [] buf[pos] = DTArray -> array
          [] buf[pos] = DTObject -> object
          [] buf[pos] = DTInt -> int
          [] OTHER -> Failed
    BY <1>1, Zenon DEF ReadValue
<1>3. value = CASE type = DTUndefined -> nil
                [] type = DTString -> string
                [] type \in {DTBuffer, DTVSBuffer} -> bytes
                [] type = DTArray -> array
                [] type = DTObject -> object
                [] type = DTInt -> int
                [] OTHER -> Failed
    BY <1>0, <1>2, Zenon
<1>4. /\ type = DTUndefined => value = nil
      /\ type = DTString => value = string
      /\ type \in {DTBuffer, DTVSBuffer} => value = bytes
      /\ type = DTArray => value = array
      /\ type = DTObject => value = object
      /\ type = DTInt => value = int
      /\ type \notin {DTUndefined, DTString, DTBuffer, DTVSBuffer, DTArray, DTObject, DTInt}
            => value = Failed
    BY <1>3, TypesDiffer, SMT
<1>5. IsRead(value, type, buf, parse, pos)
    BY <1>1, <1>4, Zenon DEF IsRead
<1> QED  BY <1>0, <1>5

(* A value that is read from a torn buffer is the one that was there, if   *)
(* that holds for the values behind it.                                    *)
LEMMA ReadValueFollows ==
    ASSUME NEW torn, NEW buf, Torn(torn, buf), NEW pos \in 1 .. Len(torn) + 1, NEW f, NEW g,
           Follows(g, f, torn, pos + 1)
    PROVE  /\ Reads(ReadValue(torn, f, pos), torn, pos)
           /\ ReadValue(torn, f, pos).ok => ReadValue(buf, g, pos) = ReadValue(torn, f, pos)
<1>1. torn \in Seq(Nat) /\ buf \in Seq(Nat) /\ Len(torn) \in Nat /\ Len(buf) \in Nat
      /\ Len(torn) <= Len(buf) /\ pos \in Nat \ {0} /\ pos + 1 \in Nat \ {0}
    BY LenProperties DEF Torn
<1>2. Failed.ok = FALSE /\ Reads(Failed, torn, pos)
    BY DEF Failed, Reads
<1>3. CASE pos > Len(torn)
    <2>1. ReadValue(torn, f, pos) = Failed
        BY <1>3 DEF ReadValue
    <2> QED  BY <1>2, <2>1
<1>4. CASE ~(pos > Len(torn))
    <2>1. pos \in 1 .. Len(torn) /\ ~(pos > Len(buf))
        BY <1>1, <1>4
    <2>2. PICK type : type = torn[pos] /\ type = buf[pos]
        BY <2>1 DEF Torn
    <2>0. IsRead(ReadValue(torn, f, pos), type, torn, f, pos)
          /\ IsRead(ReadValue(buf, g, pos), type, buf, g, pos)
        <3>1. IsRead(ReadValue(torn, f, pos), torn[pos], torn, f, pos)
            BY <1>4, ReadTypes
        <3>2. IsRead(ReadValue(buf, g, pos), buf[pos], buf, g, pos)
            BY <2>1, ReadTypes
        <3> QED  BY <2>2, <3>1, <3>2
    <2>3. PICK sized : sized = ReadSized(torn, pos + 1)
        OBVIOUS
    <2>4. Reads(sized, torn, pos + 1) /\ (sized.ok => ReadSized(buf, pos + 1) = sized)
        BY <1>1, <2>3, ReadSizedFollows
    <2>5. PICK length : length = ReadVQL(torn, pos + 1)
        OBVIOUS
    <2>6. Reads(length, torn, pos + 1) /\ (length.ok => ReadVQL(buf, pos + 1) = length)
        BY <1>1, <2>5, ReadVQLType, ReadVQLTorn
    <2>7. CASE type = DTUndefined
        <3>1. ReadValue(torn, f, pos) = Found(<<"nil", 0>>, pos + 1)
              /\ ReadValue(buf, g, pos) = Found(<<"nil", 0>>, pos + 1)
            BY <2>0, <2>7 DEF IsRead
        <3>2. pos + 1 \in pos + 1 .. Len(torn) + 1
            BY <1>1, <2>1
        <3>3. Reads(Found(<<"nil", 0>>, pos + 1), torn, pos)
            BY <3>2 DEF Reads, Found
        <3> QED  BY <3>1, <3>3
    <2>8. CASE type = DTString
        <3>1. ReadValue(torn, f, pos) = As("string", sized)
            BY <2>0, <2>3, <2>8 DEF IsRead
        <3>2. ReadValue(buf, g, pos) = As("string", ReadSized(buf, pos + 1))
            BY <2>0, <2>8 DEF IsRead
        <3> QED  BY <1>1, <2>4, <3>1, <3>2, AsReads
    <2>9. CASE type \in {DTBuffer, DTVSBuffer}
        <3>1. ReadValue(torn, f, pos) = As("bytes", sized)
            BY <2>0, <2>3, <2>9 DEF IsRead
        <3>2. ReadValue(buf, g, pos) = As("bytes", ReadSized(buf, pos + 1))
            BY <2>0, <2>9 DEF IsRead
        <3> QED  BY <1>1, <2>4, <3>1, <3>2, AsReads
    <2>10. CASE type = DTArray
        <3>1. ReadValue(torn, f, pos) =
                IF length.ok THEN As("array", ReadArray(f, length.next, length.value)) ELSE Failed
            BY <2>0, <2>5, <2>10 DEF IsRead
        <3>2. CASE ~length.ok
            BY <1>2, <3>1, <3>2
        <3>3. CASE length.ok
            <4>1. PICK p \in 1 .. Len(torn) + 1 : p = length.next /\ p >= pos + 2
                <5>1. length.next \in (pos + 1) + 1 .. Len(torn) + 1
                    BY <1>2, <2>6, <3>3 DEF Reads
                <5> QED  BY <1>1, <5>1
            <4>2. PICK n \in Nat : n = length.value
                <5>1. length.value \in 0 .. Word - 1
                    BY <1>1, <2>5, <3>3, ReadVQLType
                <5> QED  BY <5>1, Digits
            <4>3. PICK a : a = ReadArray(f, p, n)
                OBVIOUS
            <4>4. Follows(g, f, torn, p)
                <5>1. \A q \in p .. Len(torn) + 1 : q \in pos + 1 .. Len(torn) + 1
                    BY <1>1, <4>1
                <5> QED  BY <5>1 DEF Follows
            <4>5. FollowsTo(ReadArray(g, p, n), a, torn, p)
                BY <1>1, <4>3, <4>4, ReadArrayFollows
            <4>6. Reads(a, torn, pos + 1)
                <5>1. \A q \in p .. Len(torn) + 1 : q \in (pos + 1) + 1 .. Len(torn) + 1
                    BY <1>1, <4>1
                <5> QED  BY <4>5, <5>1 DEF Reads, FollowsTo
            <4>7. ReadValue(torn, f, pos) = As("array", a)
                BY <3>1, <3>3, <4>1, <4>2, <4>3
            <4>8. a.ok => ReadValue(buf, g, pos) = As("array", a)
                <5>1. ReadVQL(buf, pos + 1) = length
                    BY <2>6, <3>3
                <5>2. ReadValue(buf, g, pos) = As("array", ReadArray(g, p, n))
                    BY <2>0, <2>10, <3>3, <4>1, <4>2, <5>1 DEF IsRead
                <5> QED  BY <4>5, <5>2 DEF FollowsTo
            <4> QED  BY <1>1, <4>6, <4>7, <4>8, AsReads
        <3> QED  BY <3>2, <3>3
    <2>11. CASE type = DTObject
        <3>1. ReadValue(torn, f, pos) = Unmarshal(sized)
            BY <2>0, <2>3, <2>11 DEF IsRead
        <3>2. ReadValue(buf, g, pos) = Unmarshal(ReadSized(buf, pos + 1))
            BY <2>0, <2>11 DEF IsRead
        <3> QED  BY <1>1, <2>4, <3>1, <3>2, AsReads
    <2>12. CASE type = DTInt
        <3>1. ReadValue(torn, f, pos) = As("int", length)
            BY <2>0, <2>5, <2>12 DEF IsRead
        <3>2. ReadValue(buf, g, pos) = As("int", ReadVQL(buf, pos + 1))
            BY <2>0, <2>12 DEF IsRead
        <3> QED  BY <1>1, <2>6, <3>1, <3>2, AsReads
    <2>13. CASE ~(type \in {DTUndefined, DTString, DTBuffer, DTVSBuffer, DTArray, DTObject, DTInt})
        <3>1. ReadValue(torn, f, pos) = Failed
            BY <2>0, <2>13 DEF IsRead
        <3> QED  BY <1>2, <3>1
    <2> QED  BY <2>7, <2>8, <2>9, <2>10, <2>11, <2>12, <2>13
<1> QED  BY <1>3, <1>4

LEMMA ReadValueSame ==
    ASSUME NEW buf \in Seq(Nat), NEW pos \in 1 .. Len(buf) + 1, NEW f, NEW g,
           \A q \in pos + 1 .. Len(buf) + 1 : f[q] = g[q] /\ Reads(f[q], buf, q)
    PROVE  ReadValue(buf, f, pos) = ReadValue(buf, g, pos)
<1>1. Torn(buf, buf)
    BY LenProperties DEF Torn
<1>2. Follows(g, f, buf, pos + 1) /\ Follows(f, g, buf, pos + 1)
    BY DEF Follows
<1>3. PICK a, b : a = ReadValue(buf, f, pos) /\ b = ReadValue(buf, g, pos)
    OBVIOUS
<1>4. Reads(a, buf, pos) /\ (a.ok => b = a)
    BY <1>1, <1>2, <1>3, ReadValueFollows
<1>5. Reads(b, buf, pos) /\ (b.ok => a = b)
    BY <1>1, <1>2, <1>3, ReadValueFollows
<1>6. a = b
    BY <1>4, <1>5 DEF Reads
<1> QED  BY <1>3, <1>6

(* parse is what Deserialize computes, from a position on.                 *)
Parsed(buf, parse, pos) ==
    \A q \in pos .. Len(buf) + 1 : parse[q] = ReadValue(buf, parse, q)

LEMMA ParsedFollows ==
    ASSUME NEW torn, NEW buf, Torn(torn, buf), NEW pos \in Nat \ {0}, NEW f, NEW g,
           Parsed(torn, f, pos), Parsed(buf, g, pos)
    PROVE  Follows(g, f, torn, pos)
<1>1. torn \in Seq(Nat) /\ buf \in Seq(Nat) /\ Len(torn) \in Nat /\ Len(buf) \in Nat
      /\ Len(torn) <= Len(buf)
    BY LenProperties DEF Torn
<1>2. PICK n \in Nat : n = Len(torn) + 1
    BY <1>1
<1> DEFINE Good(q) == Reads(f[q], torn, q) /\ (f[q].ok => g[q] = f[q])
           S == {m \in Nat : \A q \in pos .. n : q + m > n => Good(q)}
<1>3. 0 \in S
    <2>1. \A q \in pos .. n : ~(q + 0 > n)
        OBVIOUS
    <2> HIDE DEF Good
    <2> QED  BY <2>1
<1>4. ASSUME NEW m \in Nat, m \in S PROVE m + 1 \in S
    <2>1. SUFFICES ASSUME NEW q \in pos .. n, q + (m + 1) > n PROVE Good(q)
        <3> HIDE DEF Good
        <3> QED  OBVIOUS
    <2>2. \A p \in q + 1 .. n : p \in pos .. n /\ p + m > n
        BY <2>1
    <2>3. \A p \in q + 1 .. n : Good(p)
        <3> HIDE DEF Good
        <3> QED  BY <1>4, <2>2
    <2>4. Follows(g, f, torn, q + 1)
        BY <1>2, <2>3 DEF Follows
    <2>5. q \in 1 .. Len(torn) + 1
        BY <1>2
    <2>6. f[q] = ReadValue(torn, f, q) /\ g[q] = ReadValue(buf, g, q)
        <3>1. q \in pos .. Len(torn) + 1 /\ q \in pos .. Len(buf) + 1
            BY <1>1, <1>2
        <3> QED  BY <3>1 DEF Parsed
    <2>7. /\ Reads(ReadValue(torn, f, q), torn, q)
          /\ ReadValue(torn, f, q).ok => ReadValue(buf, g, q) = ReadValue(torn, f, q)
        BY <2>4, <2>5, ReadValueFollows
    <2> QED  BY <2>6, <2>7
<1>5. \A q \in pos .. n : Good(q)
    <2>1. \A m \in Nat : m \in S
        <3> HIDE DEF S
        <3> QED  BY <1>3, <1>4, EveryNumber
    <2>2. n \in S
        BY <2>1
    <2>3. \A q \in pos .. n : q + n > n
        OBVIOUS
    <2> HIDE DEF Good
    <2> QED  BY <2>2, <2>3
<1> QED  BY <1>2, <1>5 DEF Follows

LEMMA ParseExists ==
    ASSUME NEW buf \in Seq(Nat)
    PROVE  \E f : f = [q \in 1 .. Len(buf) + 1 |-> ReadValue(buf, f, q)]
<1>1. PICK n \in Nat : n = Len(buf) + 1 /\ n >= 1
    BY LenProperties
<1> DEFINE Right(f, m) == /\ f = [q \in 1 .. n |-> f[q]]
                          /\ \A q \in 1 .. n : q + m > n => f[q] = ReadValue(buf, f, q)
           S == {m \in Nat : \E f : Right(f, m)}
<1>2. 0 \in S
    <2> DEFINE f == [q \in 1 .. n |-> q]
    <2>1. f = [q \in 1 .. n |-> f[q]] /\ \A q \in 1 .. n : ~(q + 0 > n)
        OBVIOUS
    <2>2. Right(f, 0)
        <3> HIDE DEF f
        <3> QED  BY <2>1
    <2> HIDE DEF f, Right
    <2> QED  BY <2>2
<1>3. ASSUME NEW m \in Nat, m \in S PROVE m + 1 \in S
    <2>1. PICK f : Right(f, m)
        <3> HIDE DEF Right
        <3> QED  BY <1>3
    <2>2. f = [q \in 1 .. n |-> f[q]] /\ \A q \in 1 .. n : q + m > n => f[q] = ReadValue(buf, f, q)
        BY <2>1
    <2> DEFINE g == [q \in 1 .. n |-> IF q + m = n THEN ReadValue(buf, f, q) ELSE f[q]]
    <2>3. g = [q \in 1 .. n |-> g[q]]
        OBVIOUS
    <2>4. \A q \in 1 .. n : g[q] = IF q + m = n THEN ReadValue(buf, f, q) ELSE f[q]
        OBVIOUS
    <2> HIDE DEF g
    <2>5. ASSUME NEW q \in 1 .. n, q + (m + 1) > n PROVE g[q] = ReadValue(buf, g, q)
        <3>1. g[q] = ReadValue(buf, f, q)
            <4>1. q + m = n \/ q + m > n
                BY <2>5
            <4> QED  BY <2>2, <2>4, <4>1
        <3>2. \A p \in q + 1 .. n : p \in 1 .. n /\ p + m > n /\ p + m # n
            BY <2>5
        <3>3. \A p \in q + 1 .. n : f[p] = g[p]
            BY <2>4, <3>2
        <3>4. Parsed(buf, f, q + 1)
            BY <1>1, <2>2, <3>2 DEF Parsed
        <3>5. Follows(f, f, buf, q + 1)
            <4>1. Torn(buf, buf)
                BY LenProperties DEF Torn
            <4>2. q + 1 \in Nat \ {0}
                OBVIOUS
            <4> QED  BY <3>4, <4>1, <4>2, ParsedFollows
        <3>6. ReadValue(buf, f, q) = ReadValue(buf, g, q)
            <4>1. \A p \in q + 1 .. Len(buf) + 1 : f[p] = g[p] /\ Reads(f[p], buf, p)
                BY <1>1, <3>3, <3>5 DEF Follows
            <4>2. q \in 1 .. Len(buf) + 1
                BY <1>1
            <4> QED  BY <4>1, <4>2, ReadValueSame
        <3> QED  BY <3>1, <3>6
    <2>6. Right(g, m + 1)
        BY <2>3, <2>5
    <2> HIDE DEF Right
    <2> QED  BY <2>6
<1>4. PICK f : Right(f, n)
    <2>1. \A m \in Nat : m \in S
        <3> HIDE DEF S
        <3> QED  BY <1>2, <1>3, EveryNumber
    <2>2. n \in S
        <3> HIDE DEF S
        <3> QED  BY <2>1
    <2> HIDE DEF Right
    <2> QED  BY <2>2
<1>5. \A q \in 1 .. n : q + n > n
    OBVIOUS
<1>6. f = [q \in 1 .. n |-> f[q]] /\ \A q \in 1 .. n : f[q] = ReadValue(buf, f, q)
    BY <1>4, <1>5
<1>7. f = [q \in 1 .. n |-> ReadValue(buf, f, q)]
    BY <1>6
<1> QED  BY <1>1, <1>7

LEMMA Deserialized ==
    ASSUME NEW buf \in Seq(Nat)
    PROVE  Parsed(buf, Deserialize(buf), 1)
<1> DEFINE Right(f) == f = [q \in 1 .. Len(buf) + 1 |-> ReadValue(buf, f, q)]
<1>1. PICK f : Right(f)
    BY ParseExists
<1>2. Right(Deserialize(buf))
    <2>1. Deserialize(buf) = CHOOSE g : Right(g)
        BY DEF Deserialize
    <2> HIDE DEF Right
    <2> QED  BY <1>1, <2>1
<1>3. PICK g : g = Deserialize(buf)
    OBVIOUS
<1>4. Right(g)
    BY <1>2, <1>3
<1>5. \A q \in 1 .. Len(buf) + 1 : g[q] = ReadValue(buf, g, q)
    BY <1>4
<1> QED  BY <1>3, <1>5 DEF Parsed

(* Whatever bytes are in a buffer: if its end is missing, Deserialize      *)
(* gives, at any position, what it gives of the whole buffer, or an error. *)
THEOREM TornReads ==
    ASSUME NEW torn, NEW buf, Torn(torn, buf)
    PROVE  Follows(Deserialize(buf), Deserialize(torn), torn, 1)
<1>1. torn \in Seq(Nat) /\ buf \in Seq(Nat)
    BY DEF Torn
<1>2. Parsed(torn, Deserialize(torn), 1) /\ Parsed(buf, Deserialize(buf), 1)
    BY <1>1, Deserialized
<1> QED  BY <1>2, ParsedFollows

-----------------------------------------------------------------------------
(* Values that are written and read                                        *)

LEMMA Parts ==
    ASSUME NEW type \in Nat, NEW w \in Seq(Nat), NEW b \in Seq(Nat)
    PROVE  /\ <<type>> \o w \o b \in Seq(Nat)
           /\ Len(<<type>> \o w \o b) = 1 + Len(w) + Len(b)
           /\ \A buf \in Seq(Nat), pos \in Nat \ {0} : Stands(<<type>> \o w \o b, buf, pos) =>
                 /\ ~(pos > Len(buf)) /\ buf[pos] = type
                 /\ Stands(w, buf, pos + 1) /\ Stands(b, buf, pos + 1 + Len(w))
<1>1. PICK t \in Seq(Nat) : t = <<type>> /\ Len(t) = 1 /\ t[1] = type
    <2>1. <<type>> \in Seq(Nat) /\ Len(<<type>>) = 1
        OBVIOUS
    <2>2. <<type>>[1] = type
        OBVIOUS
    <2> QED  BY <2>1, <2>2
<1>2. PICK head \in Seq(Nat) : head = t \o w /\ Len(head) = 1 + Len(w)
    <2>1. t \o w \in Seq(Nat) /\ Len(t \o w) = Len(t) + Len(w)
        BY ConcatProperties
    <2> QED  BY <1>1, <2>1
<1>3. PICK s \in Seq(Nat) : s = head \o b /\ Len(s) = Len(head) + Len(b)
    BY ConcatProperties
<1>4. Len(w) \in Nat /\ Len(b) \in Nat
    BY LenProperties
<1>5. Stands(t, s, 1) /\ Stands(w, s, 2) /\ Stands(b, s, 2 + Len(w))
    <2>1. Stands(t, head, 1)
        <3>1. Stands(t, t, 1) /\ 1 \in Nat \ {0}
            BY StandsWhole
        <3>2. Stands(t, t \o w, 1)
            BY <3>1, StandsFirst
        <3> QED  BY <1>2, <3>2
    <2>2. Stands(w, head, 2)
        <3>1. Stands(w, t \o w, Len(t) + 1)
            BY StandsWhole, StandsBehind
        <3> QED  BY <1>1, <1>2, <3>1
    <2>3. Stands(b, s, Len(head) + 1)
        BY <1>3, StandsWhole, StandsBehind
    <2>4. Len(head) + 1 = 2 + Len(w)
        BY <1>2, <1>4
    <2> QED  BY <1>3, <2>1, <2>2, <2>3, <2>4, StandsFirst
<1>6. ASSUME NEW buf \in Seq(Nat), NEW pos \in Nat \ {0}, Stands(s, buf, pos)
      PROVE  /\ ~(pos > Len(buf)) /\ buf[pos] = type
             /\ Stands(w, buf, pos + 1) /\ Stands(b, buf, pos + 1 + Len(w))
    <2>1. Stands(t, buf, pos + 1 - 1)
        BY <1>5, <1>6, StandsIn
    <2>2. pos + 1 - 1 = pos
        OBVIOUS
    <2>3. ~(pos > Len(buf)) /\ buf[pos] = type
        <3>1. pos + 1 <= Len(buf) + 1 /\ buf[pos + 0] = t[0 + 1]
            BY <1>1, <2>1, <2>2 DEF Stands
        <3>2. pos + 0 = pos /\ 0 + 1 = 1 /\ Len(buf) \in Nat
            BY LenProperties
        <3> QED  BY <1>1, <3>1, <3>2
    <2>4. Stands(w, buf, pos + 1)
        <3>1. Stands(w, buf, pos + 2 - 1)
            BY <1>5, <1>6, StandsIn
        <3>2. pos + 2 - 1 = pos + 1
            OBVIOUS
        <3> QED  BY <3>1, <3>2
    <2>5. Stands(b, buf, pos + 1 + Len(w))
        <3>1. PICK p \in Nat \ {0} : p = 2 + Len(w)
            BY <1>4
        <3>2. Stands(b, buf, pos + p - 1)
            BY <1>5, <1>6, <3>1, StandsIn
        <3>3. pos + p - 1 = pos + 1 + Len(w)
            BY <1>4, <3>1
        <3> QED  BY <3>2, <3>3
    <2> QED  BY <2>3, <2>4, <2>5
<1>7. s = <<type>> \o w \o b
    BY <1>1, <1>2, <1>3
<1>8. Len(s) = 1 + Len(w) + Len(b)
    BY <1>2, <1>3
<1> QED  BY <1>6, <1>7, <1>8

LEMMA PartsStand ==
    ASSUME NEW type \in Nat, NEW w \in Seq(Nat), NEW b \in Seq(Nat), NEW buf \in Seq(Nat),
           NEW pos \in Nat \ {0}, Stands(<<type>> \o w \o b, buf, pos)
    PROVE  /\ ~(pos > Len(buf)) /\ buf[pos] = type
           /\ Stands(w, buf, pos + 1) /\ Stands(b, buf, pos + 1 + Len(w))
<1>1. \A d \in Seq(Nat), p \in Nat \ {0} : Stands(<<type>> \o w \o b, d, p) =>
         /\ ~(p > Len(d)) /\ d[p] = type
         /\ Stands(w, d, p + 1) /\ Stands(b, d, p + 1 + Len(w))
    BY Parts
<1> QED  BY <1>1

LEMMA NoBytes == <<>> \in Seq(Nat) /\ Len(<<>>) = 0 /\ \A s \in Seq(Nat) : s \o <<>> = s
OBVIOUS

LEMMA BytesAreNumbers == ASSUME NEW s \in Seq(0 .. Byte - 1)  PROVE s \in Seq(Nat)
<1>1. \A i \in 0 .. Byte - 1 : i \in Nat
    BY Digits
<1>2. PICK bytes : bytes = 0 .. Byte - 1
    OBVIOUS
<1>3. s \in Seq(bytes)
    BY <1>2
<1>4. \A i \in bytes : i \in Nat
    BY <1>1, <1>2
<1>5. \A i \in 1 .. Len(s) : s[i] \in bytes
    BY <1>3, ElementOfSeq
<1>6. \A i \in 1 .. Len(s) : s[i] \in Nat
    BY <1>4, <1>5
<1>7. Len(s) \in Nat /\ s = [i \in 1 .. Len(s) |-> s[i]]
    BY <1>3, LenProperties
<1> QED  BY <1>6, <1>7

(* A value, found at a position and read in this way.                      *)
LEMMA SizedRoundTrip ==
    ASSUME NEW type \in Nat, NEW bytes \in Seq(Nat)
    PROVE  /\ Sized(type, bytes) \in Seq(Nat) /\ Len(Sized(type, bytes)) >= 1
           /\ \A buf \in Seq(Nat), pos \in Nat \ {0} :
                 Stands(Sized(type, bytes), buf, pos) /\ Len(Sized(type, bytes)) < Word =>
                    /\ ~(pos > Len(buf)) /\ buf[pos] = type
                    /\ ReadSized(buf, pos + 1) = Found(bytes, pos + Len(Sized(type, bytes)))
<1>1. Len(bytes) \in Nat /\ Word \in Nat /\ Word > 0
    BY LenProperties, Digits
<1>2. PICK n \in 0 .. Word - 1 : n = Len(bytes) % Word
    BY <1>1, Divides
<1>3. PICK w \in Seq(Nat) : w = WriteVQL(n) /\ Len(w) \in Nat
    BY WrittenVQL, LenProperties
<1>4. PICK s : s = Sized(type, bytes) /\ s = <<type>> \o w \o bytes
    BY <1>2, <1>3 DEF Sized
<1>5. s \in Seq(Nat) /\ Len(s) = 1 + Len(w) + Len(bytes)
    BY <1>4, Parts
<1>6. ASSUME NEW buf \in Seq(Nat), NEW pos \in Nat \ {0}, Stands(s, buf, pos), Len(s) < Word
      PROVE  /\ ~(pos > Len(buf)) /\ buf[pos] = type
             /\ ReadSized(buf, pos + 1) = Found(bytes, pos + Len(s))
    <2>1. /\ ~(pos > Len(buf)) /\ buf[pos] = type
          /\ Stands(w, buf, pos + 1) /\ Stands(bytes, buf, pos + 1 + Len(w))
        BY <1>4, <1>6, Parts
    <2>2. Len(bytes) < Word
        BY <1>1, <1>3, <1>5, <1>6
    <2>3. n = Len(bytes)
        BY <1>1, <1>2, <2>2, Small
    <2>4. PICK p \in Nat \ {0} : p = pos + 1 + Len(w)
        BY <1>3
    <2>5. ReadVQL(buf, pos + 1) = Found(n, p)
        <3>1. pos + 1 \in Nat \ {0}
            OBVIOUS
        <3>2. Stands(WriteVQL(n), buf, pos + 1)
            BY <1>3, <2>1
        <3>3. ReadVQL(buf, pos + 1) = Found(n, pos + 1 + Len(WriteVQL(n)))
            BY <3>1, <3>2, VQLRoundTrip
        <3> QED  BY <1>3, <2>4, <3>3
    <2>6. ReadSized(buf, pos + 1) = ReadN(buf, p, n)
        BY <2>5 DEF ReadSized, Found
    <2>7. Stands(bytes, buf, p)
        BY <2>1, <2>4
    <2>8. ~(p + n > Len(buf) + 1)
        <3>1. p + Len(bytes) <= Len(buf) + 1 /\ Len(buf) \in Nat
            BY <2>7, LenProperties DEF Stands
        <3> QED  BY <1>1, <2>3, <3>1
    <2>9. SubSeq(buf, p, p + n - 1) = bytes
        <3>1. PICK q \in Int : q = p + n - 1
            OBVIOUS
        <3>2. SubSeq(buf, p, q) = [i \in 1 .. q - p + 1 |-> buf[i + p - 1]]
            BY <3>1
        <3>3. q - p + 1 = n
            BY <3>1
        <3>4. \A i \in 1 .. n : buf[i + p - 1] = bytes[i]
            <4> SUFFICES ASSUME NEW i \in 1 .. n PROVE buf[i + p - 1] = bytes[i]
                OBVIOUS
            <4>1. i - 1 \in 0 .. Len(bytes) - 1 /\ p + (i - 1) = i + p - 1 /\ (i - 1) + 1 = i
                BY <2>3
            <4> QED  BY <2>7, <4>1 DEF Stands
        <3>5. bytes = [i \in 1 .. n |-> bytes[i]]
            BY <2>3
        <3>6. [i \in 1 .. n |-> buf[i + p - 1]] = [i \in 1 .. n |-> bytes[i]]
            BY <3>4
        <3> QED  BY <3>1, <3>2, <3>3, <3>5, <3>6
    <2>10. ReadN(buf, p, n) = Found(bytes, p + n)
        BY <2>8, <2>9 DEF ReadN
    <2>11. p + n = pos + Len(s)
        <3>1. PICK x \in Nat, y \in Nat : x = Len(w) /\ y = Len(bytes)
            BY <1>1, <1>3
        <3>2. p = pos + 1 + x /\ n = y /\ Len(s) = 1 + x + y
            BY <1>5, <2>3, <2>4, <3>1
        <3> QED  BY <3>2
    <2> QED  BY <2>1, <2>6, <2>10, <2>11
<1>7. Len(s) >= 1
    BY <1>1, <1>3, <1>5
<1> QED  BY <1>4, <1>5, <1>6, <1>7

LEMMA NumberRoundTrip ==
    ASSUME NEW n \in 0 .. Word - 1
    PROVE  /\ <<DTInt>> \o WriteVQL(n) \in Seq(Nat) /\ Len(<<DTInt>> \o WriteVQL(n)) >= 1
           /\ \A buf \in Seq(Nat), pos \in Nat \ {0} :
                 Stands(<<DTInt>> \o WriteVQL(n), buf, pos) =>
                    /\ ~(pos > Len(buf)) /\ buf[pos] = DTInt
                    /\ ReadVQL(buf, pos + 1) = Found(n, pos + Len(<<DTInt>> \o WriteVQL(n)))
<1>1. PICK w \in Seq(Nat) : w = WriteVQL(n) /\ Len(w) \in Nat
    BY WrittenVQL, LenProperties
<1>2. PICK type \in Nat : type = DTInt
    BY DEF DTInt
<1>3. PICK none \in Seq(Nat) : none = <<>> /\ Len(none) = 0
    BY NoBytes
<1>4. PICK s \in Seq(Nat) : s = <<type>> \o w \o none /\ s = <<DTInt>> \o WriteVQL(n)
    <2>1. <<type>> \o w \in Seq(Nat)
        BY ConcatProperties
    <2>2. <<type>> \o w \o none = <<type>> \o w
        BY <1>3, <2>1, NoBytes
    <2> QED  BY <1>1, <1>2, <2>1, <2>2
<1>5. Len(s) = 1 + Len(w)
    <2>1. Len(s) = 1 + Len(w) + Len(none)
        BY <1>4, Parts
    <2> QED  BY <1>1, <1>3, <2>1
<1>6. ASSUME NEW buf \in Seq(Nat), NEW pos \in Nat \ {0}, Stands(s, buf, pos)
      PROVE  /\ ~(pos > Len(buf)) /\ buf[pos] = type
             /\ ReadVQL(buf, pos + 1) = Found(n, pos + Len(s))
    <2>1. /\ ~(pos > Len(buf)) /\ buf[pos] = type /\ Stands(w, buf, pos + 1)
        BY <1>4, <1>6, Parts
    <2>2. ReadVQL(buf, pos + 1) = Found(n, pos + 1 + Len(w))
        <3>1. pos + 1 \in Nat \ {0}
            OBVIOUS
        <3>2. Stands(WriteVQL(n), buf, pos + 1)
            BY <1>1, <2>1
        <3>3. ReadVQL(buf, pos + 1) = Found(n, pos + 1 + Len(WriteVQL(n)))
            BY <3>1, <3>2, VQLRoundTrip
        <3> QED  BY <1>1, <3>3
    <2>3. pos + 1 + Len(w) = pos + Len(s)
        BY <1>1, <1>5
    <2> QED  BY <2>1, <2>2, <2>3
<1>7. Len(s) >= 1
    BY <1>1, <1>5
<1> QED  BY <1>2, <1>4, <1>6, <1>7

(* Written and Reduced, kind by kind.                                      *)
LEMMA WrittenAs ==
    ASSUME NEW v \in Values
    PROVE  /\ v[1] = "nil" => Serialize[v] = <<DTUndefined>> /\ Normal[v] = v
           /\ v[1] = "string" => Serialize[v] = Sized(DTString, v[2]) /\ Normal[v] = v
           /\ v[1] = "bytes" => Serialize[v] = Sized(DTVSBuffer, v[2]) /\ Normal[v] = v
           /\ v[1] = "int" => /\ Serialize[v] = <<DTInt>> \o WriteVQL(v[2] % Word)
                              /\ Normal[v] = <<"int", v[2] % Word>>
           /\ v[1] = "float" /\ IsWord(v[2]) => /\ Serialize[v] = <<DTInt>> \o WriteVQL(v[2])
                                                /\ Normal[v] = <<"int", v[2]>>
           /\ v[1] = "array" =>
                 /\ Serialize[v] = <<DTArray>> \o WriteVQL(Len(v[2]) % Word)
                                      \o FlattenSeq([i \in 1 .. Len(v[2]) |-> Serialize[v[2][i]]])
                 /\ Normal[v] = <<"array", [i \in 1 .. Len(v[2]) |-> Normal[v[2][i]]]>>
           /\ v \in Json => Serialize[v] = Sized(DTObject, Text[v]) /\ Normal[v] = v
<1>1. PICK kind : kind = v[1]
    OBVIOUS
<1>2. PICK nil, string, bytes, int, float, array, object :
         /\ nil = <<DTUndefined>> /\ string = Sized(DTString, v[2]) /\ bytes = Sized(DTVSBuffer, v[2])
         /\ int = <<DTInt>> \o WriteVQL(v[2] % Word) /\ float = <<DTInt>> \o WriteVQL(v[2])
         /\ array = <<DTArray>> \o WriteVQL(Len(v[2]) % Word)
                       \o FlattenSeq([i \in 1 .. Len(v[2]) |-> Serialize[v[2][i]]])
         /\ object = Sized(DTObject, Text[v])
    OBVIOUS
<1>3. PICK word : word = IsWord(v[2])
    OBVIOUS
<1>4. Serialize[v] = CASE v[1] = "nil" -> nil
                       [] v[1] = "string" -> string
                       [] v[1] = "bytes" -> bytes
                       [] v[1] = "int" -> int
                       [] v[1] = "float" /\ IsWord(v[2]) -> float
                       [] v[1] = "array" -> array
                       [] OTHER -> object
    <2>1. Serialize[v] = Written(Serialize, v)
        BY Serialized
    <2> QED  BY <1>2, <2>1, Zenon DEF Written
<1>5. Serialize[v] = CASE kind = "nil" -> nil
                       [] kind = "string" -> string
                       [] kind = "bytes" -> bytes
                       [] kind = "int" -> int
                       [] kind = "float" /\ word -> float
                       [] kind = "array" -> array
                       [] OTHER -> object
    BY <1>1, <1>3, <1>4, Zenon
<1>6. PICK number, whole, elements :
         /\ number = <<"int", v[2] % Word>> /\ whole = <<"int", v[2]>>
         /\ elements = <<"array", [i \in 1 .. Len(v[2]) |-> Normal[v[2][i]]]>>
    OBVIOUS
<1>7. Normal[v] = CASE v[1] = "int" -> number
                    [] v[1] = "float" /\ IsWord(v[2]) -> whole
                    [] v[1] = "array" -> elements
                    [] OTHER -> v
    <2>1. Normal[v] = Reduced(Normal, v)
        BY Normalized
    <2> QED  BY <1>6, <2>1, Zenon DEF Reduced
<1>8. Normal[v] = CASE kind = "int" -> number
                    [] kind = "float" /\ word -> whole
                    [] kind = "array" -> elements
                    [] OTHER -> v
    BY <1>1, <1>3, <1>7, Zenon
<1>9. v \in Json => kind = "other" \/ (kind = "float" /\ ~word)
    BY <1>1, <1>3 DEF Json
<1>10. PICK s, n : s = Serialize[v] /\ n = Normal[v]
    OBVIOUS
<1>11. /\ kind = "nil" => s = nil /\ n = v
       /\ kind = "string" => s = string /\ n = v
       /\ kind = "bytes" => s = bytes /\ n = v
       /\ kind = "int" => s = int /\ n = number
       /\ kind = "float" /\ word => s = float /\ n = whole
       /\ kind = "array" => s = array /\ n = elements
       /\ (kind = "other" \/ (kind = "float" /\ ~word)) => s = object /\ n = v
    BY <1>5, <1>8, <1>10, SMT
<1> QED  BY <1>1, <1>2, <1>3, <1>6, <1>9, <1>10, <1>11

LEMMA ReadAt ==
    ASSUME NEW buf \in Seq(Nat), NEW pos \in Nat \ {0}, ~(pos > Len(buf))
    PROVE  IsRead(Deserialize(buf)[pos], buf[pos], buf, Deserialize(buf), pos)
<1>1. pos \in 1 .. Len(buf) + 1
    BY LenProperties
<1>2. Deserialize(buf)[pos] = ReadValue(buf, Deserialize(buf), pos)
    BY <1>1, Deserialized DEF Parsed
<1> QED  BY <1>2, ReadTypes

(* The value is written as bytes, and wherever they stand it is read.      *)
Survives(v) ==
    /\ Serialize[v] \in Seq(Nat) /\ Len(Serialize[v]) >= 1
    /\ \A buf \in Seq(Nat), pos \in Nat \ {0} :
          Stands(Serialize[v], buf, pos) /\ Len(Serialize[v]) < Word =>
             Deserialize(buf)[pos] = Found(Normal[v], pos + Len(Serialize[v]))

LEMMA NilSurvives == ASSUME NEW v \in Values, v[1] = "nil"  PROVE Survives(v)
<1>1. v = <<"nil", 0>>
    BY Kinds
<1>2. Serialize[v] = <<DTUndefined>> /\ Normal[v] = v
    BY WrittenAs
<1>3. PICK type \in Nat : type = DTUndefined
    BY DEF DTUndefined
<1>4. PICK s \in Seq(Nat) : s = <<type>> /\ Len(s) = 1 /\ s[1] = type
    <2>1. <<type>> \in Seq(Nat) /\ Len(<<type>>) = 1
        OBVIOUS
    <2>2. <<type>>[1] = type
        OBVIOUS
    <2> QED  BY <2>1, <2>2
<1>5. ASSUME NEW buf \in Seq(Nat), NEW pos \in Nat \ {0}, Stands(s, buf, pos)
      PROVE  Deserialize(buf)[pos] = Found(v, pos + 1)
    <2>1. pos + 1 <= Len(buf) + 1 /\ buf[pos + 0] = s[0 + 1] /\ Len(buf) \in Nat
        BY <1>4, <1>5, LenProperties DEF Stands
    <2>2. pos + 0 = pos /\ 0 + 1 = 1
        OBVIOUS
    <2>3. ~(pos > Len(buf)) /\ buf[pos] = DTUndefined
        BY <1>3, <1>4, <2>1, <2>2
    <2> QED  BY <1>1, <2>3, ReadAt DEF IsRead
<1> QED  BY <1>2, <1>3, <1>4, <1>5 DEF Survives

(* The values that are bytes with their number.                            *)
LEMMA SizedSurvives ==
    ASSUME NEW v \in Values, NEW type \in {DTString, DTVSBuffer, DTObject}, NEW bytes \in Seq(Nat),
           Serialize[v] = Sized(type, bytes), Normal[v] = v,
           type = DTString => v = <<"string", bytes>>,
           type = DTVSBuffer => v = <<"bytes", bytes>>,
           type = DTObject => /\ v \in Json /\ bytes = Text[v]
                              /\ \A w \in Json : Text[w] = bytes => w = v
    PROVE  Survives(v)
<1>1. type \in Nat
    BY DEF DTString, DTVSBuffer, DTObject
<1>2. PICK s : s = Serialize[v] /\ s = Sized(type, bytes)
    OBVIOUS
<1>3. s \in Seq(Nat) /\ Len(s) >= 1
    BY <1>1, <1>2, SizedRoundTrip
<1>4. ASSUME NEW buf \in Seq(Nat), NEW pos \in Nat \ {0}, Stands(s, buf, pos), Len(s) < Word
      PROVE  Deserialize(buf)[pos] = Found(v, pos + Len(s))
    <2>1. /\ ~(pos > Len(buf)) /\ buf[pos] = type
          /\ ReadSized(buf, pos + 1) = Found(bytes, pos + Len(s))
        BY <1>1, <1>2, <1>4, SizedRoundTrip
    <2>2. IsRead(Deserialize(buf)[pos], type, buf, Deserialize(buf), pos)
        BY <2>1, ReadAt
    <2>3. PICK found : found = Found(bytes, pos + Len(s)) /\ found.ok /\ found.value = bytes
                       /\ found.next = pos + Len(s)
        <3>1. PICK end : end = pos + Len(s)
            OBVIOUS
        <3>2. PICK f : f = Found(bytes, end)
            OBVIOUS
        <3>3. f.ok /\ f.value = bytes /\ f.next = end
            BY <3>2 DEF Found
        <3> QED  BY <3>1, <3>2, <3>3
    <2>4. CASE type = DTString
        <3>1. Deserialize(buf)[pos] = As("string", found)
            BY <2>1, <2>2, <2>3, <2>4 DEF IsRead
        <3> QED  BY <2>3, <2>4, <3>1 DEF As
    <2>5. CASE type = DTVSBuffer
        <3>1. Deserialize(buf)[pos] = As("bytes", found)
            BY <2>1, <2>2, <2>3, <2>5 DEF IsRead
        <3> QED  BY <2>3, <2>5, <3>1 DEF As
    <2>6. CASE type = DTObject
        <3>1. Deserialize(buf)[pos] = Unmarshal(found)
            BY <2>1, <2>2, <2>3, <2>6 DEF IsRead
        <3>2. (CHOOSE w \in Json : Text[w] = bytes) = v
            BY <2>6
        <3> QED  BY <2>3, <2>6, <3>1, <3>2 DEF Unmarshal
    <2> QED  BY <2>4, <2>5, <2>6
<1> QED  BY <1>2, <1>3, <1>4 DEF Survives

LEMMA NumberSurvives ==
    ASSUME NEW v \in Values, NEW n \in 0 .. Word - 1,
           Serialize[v] = <<DTInt>> \o WriteVQL(n), Normal[v] = <<"int", n>>
    PROVE  Survives(v)
<1>1. PICK s : s = Serialize[v] /\ s = <<DTInt>> \o WriteVQL(n)
    OBVIOUS
<1>2. s \in Seq(Nat) /\ Len(s) >= 1
    BY <1>1, NumberRoundTrip
<1>3. ASSUME NEW buf \in Seq(Nat), NEW pos \in Nat \ {0}, Stands(s, buf, pos)
      PROVE  Deserialize(buf)[pos] = Found(<<"int", n>>, pos + Len(s))
    <2>1. /\ ~(pos > Len(buf)) /\ buf[pos] = DTInt
          /\ ReadVQL(buf, pos + 1) = Found(n, pos + Len(s))
        BY <1>1, <1>3, NumberRoundTrip
    <2>2. IsRead(Deserialize(buf)[pos], DTInt, buf, Deserialize(buf), pos)
        BY <2>1, ReadAt
    <2>3. Deserialize(buf)[pos] = As("int", Found(n, pos + Len(s)))
        BY <2>1, <2>2 DEF IsRead
    <2> QED  BY <2>3 DEF As, Found
<1> QED  BY <1>1, <1>2, <1>3 DEF Survives

(* No more sequences of a byte or more than there are bytes.               *)
LEMMA LaidBehind ==
    ASSUME NEW seqs, NEW m \in Nat, NEW at, NEW flat \in Seq(Nat), Laid(seqs, m, at, flat),
           \A i \in 1 .. m : seqs[i] \in Seq(Nat) /\ Len(seqs[i]) >= 1
    PROVE  m <= Len(flat) /\ \A i \in 1 .. m : Len(seqs[i]) <= Len(flat)
<1>1. /\ at \in [1 .. m + 1 -> Nat \ {0}] /\ at[1] = 1 /\ at[m + 1] = Len(flat) + 1
      /\ \A i \in 1 .. m : at[i + 1] = at[i] + Len(seqs[i]) /\ Stands(seqs[i], flat, at[i])
    BY DEF Laid
<1>2. Len(flat) \in Nat /\ \A i \in 1 .. m : Len(seqs[i]) \in Nat
    BY LenProperties
<1> DEFINE S == {k \in Nat : k <= m => at[k + 1] >= k + 1}
<1>3. 0 \in S
    BY <1>1
<1>4. ASSUME NEW k \in Nat, k \in S PROVE k + 1 \in S
    <2>1. SUFFICES ASSUME k + 1 <= m PROVE at[(k + 1) + 1] >= (k + 1) + 1
        OBVIOUS
    <2>2. k + 1 \in 1 .. m /\ k + 1 \in 1 .. m + 1
        BY <2>1
    <2>3. PICK x \in Nat, y \in Nat : x = at[k + 1] /\ y = Len(seqs[k + 1])
        BY <1>1, <1>2, <2>2
    <2>4. x >= k + 1 /\ y >= 1
        BY <1>4, <2>1, <2>2, <2>3
    <2>5. at[(k + 1) + 1] = x + y
        BY <1>1, <2>2, <2>3
    <2> QED  BY <2>4, <2>5
<1>5. \A k \in Nat : k \in S
    <2> HIDE DEF S
    <2> QED  BY <1>3, <1>4, EveryNumber
<1>6. m <= Len(flat)
    <2>1. at[m + 1] >= m + 1
        BY <1>5
    <2> QED  BY <1>1, <1>2, <2>1
<1>7. ASSUME NEW i \in 1 .. m PROVE Len(seqs[i]) <= Len(flat)
    <2>1. PICK x \in Nat \ {0} : x = at[i]
        BY <1>1
    <2>2. x + Len(seqs[i]) <= Len(flat) + 1
        BY <1>1, <2>1 DEF Stands
    <2> QED  BY <1>2, <2>1, <2>2
<1> QED  BY <1>6, <1>7

LEMMA ArraySurvives ==
    ASSUME NEW v \in Values, v[1] = "array", \A i \in 1 .. Len(v[2]) : Survives(v[2][i])
    PROVE  Survives(v)
<1>1. PICK c \in Seq(Values) : c = v[2]
    BY Elements
<1>2. PICK m \in Nat : m = Len(c)
    BY LenProperties
<1>3. PICK n \in 0 .. Word - 1 : n = m % Word
    BY Divides, Digits
<1>4. PICK w \in Seq(Nat) : w = WriteVQL(n) /\ Len(w) \in Nat
    BY WrittenVQL, LenProperties
<1>5. PICK seqs : seqs = [i \in 1 .. m |-> Serialize[c[i]]]
    OBVIOUS
<1>6. \A i \in 1 .. m : Survives(c[i]) /\ seqs[i] = Serialize[c[i]]
    BY <1>1, <1>2, <1>5
<1>7. \A i \in 1 .. m : seqs[i] \in Seq(Nat) /\ Len(seqs[i]) >= 1
    BY <1>6 DEF Survives
<1>8. seqs \in Seq(Seq(Nat)) /\ Len(seqs) = m
    BY <1>5, <1>7
<1>9. PICK flat, at : flat \in Seq(Nat) /\ flat = FlattenSeq(seqs) /\ Laid(seqs, m, at, flat)
    BY <1>8, FlattenLaid
<1>10. PICK type \in Nat : type = DTArray
    BY DEF DTArray
<1>11. PICK s : s = Serialize[v] /\ s = <<type>> \o w \o flat
    <2>1. Serialize[v] = <<DTArray>> \o WriteVQL(Len(v[2]) % Word)
                            \o FlattenSeq([i \in 1 .. Len(v[2]) |-> Serialize[v[2][i]]])
        BY WrittenAs
    <2> QED  BY <1>1, <1>2, <1>3, <1>4, <1>5, <1>9, <1>10, <2>1
<1>12. s \in Seq(Nat) /\ Len(s) = 1 + Len(w) + Len(flat) /\ Len(flat) \in Nat
    BY <1>4, <1>9, <1>10, <1>11, Parts, LenProperties
<1>13. /\ at \in [1 .. m + 1 -> Nat \ {0}] /\ at[1] = 1 /\ at[m + 1] = Len(flat) + 1
       /\ \A i \in 1 .. m : at[i + 1] = at[i] + Len(seqs[i]) /\ Stands(seqs[i], flat, at[i])
    BY <1>9 DEF Laid
<1>14. PICK vals : vals = [i \in 1 .. m |-> Normal[c[i]]]
    OBVIOUS
<1>15. Normal[v] = <<"array", vals>>
    <2>1. Normal[v] = <<"array", [i \in 1 .. Len(v[2]) |-> Normal[v[2][i]]]>>
        BY WrittenAs
    <2> QED  BY <1>1, <1>2, <1>14, <2>1
<1>16. ASSUME NEW buf \in Seq(Nat), NEW pos \in Nat \ {0}, Stands(s, buf, pos), Len(s) < Word
       PROVE  Deserialize(buf)[pos] = Found(<<"array", vals>>, pos + Len(s))
    <2>1. /\ ~(pos > Len(buf)) /\ buf[pos] = type
          /\ Stands(w, buf, pos + 1) /\ Stands(flat, buf, pos + 1 + Len(w))
        <3>1. Stands(<<type>> \o w \o flat, buf, pos)
            BY <1>11, <1>16
        <3>2. w \in Seq(Nat) /\ flat \in Seq(Nat) /\ type \in Nat
            BY <1>4, <1>9, <1>10
        <3>3. buf \in Seq(Nat) /\ pos \in Nat \ {0}
            OBVIOUS
        <3> QED  BY <3>1, <3>2, <3>3, PartsStand, Zenon
    <2>2. m <= Len(flat) /\ \A i \in 1 .. m : Len(seqs[i]) <= Len(flat)
        BY <1>7, <1>9, LaidBehind
    <2>3. Len(flat) < Word
        BY <1>4, <1>12, <1>16, Digits
    <2>4. m = n
        <3>1. m < Word
            <4>1. PICK k \in Nat, word \in Nat : k = Len(flat) /\ word = Word
                BY <1>12, Digits
            <4>2. m <= k /\ k < word
                BY <2>2, <2>3, <4>1
            <4> QED  BY <1>2, <4>1, <4>2
        <3>2. Word \in Nat
            BY Digits
        <3> QED  BY <1>2, <1>3, <3>1, <3>2, Small
    <2>5. PICK p \in Nat \ {0} : p = pos + 1 + Len(w)
        BY <1>4
    <2>6. ReadVQL(buf, pos + 1) = Found(m, p)
        <3>1. pos + 1 \in Nat \ {0}
            OBVIOUS
        <3>2. Stands(WriteVQL(n), buf, pos + 1)
            BY <1>4, <2>1
        <3>3. ReadVQL(buf, pos + 1) = Found(n, pos + 1 + Len(WriteVQL(n)))
            BY <3>1, <3>2, VQLRoundTrip
        <3> QED  BY <1>4, <2>4, <2>5, <3>3
    <2>7. PICK to : to = [i \in 1 .. m + 1 |-> p + at[i] - 1]
        OBVIOUS
    <2>8. PICK parse : parse = Deserialize(buf)
        OBVIOUS
    <2>9. ASSUME NEW i \in 1 .. m PROVE parse[to[i]] = Found(vals[i], to[i + 1])
        <3>1. i \in 1 .. m + 1 /\ i + 1 \in 1 .. m + 1
            OBVIOUS
        <3>2. PICK x \in Nat \ {0}, y \in Nat : x = at[i] /\ y = Len(seqs[i])
            BY <1>7, <1>13, <3>1, LenProperties
        <3>3. to[i] = p + x - 1 /\ to[i] \in Nat \ {0}
            <4>1. to[i] = p + at[i] - 1
                BY <2>7, <3>1
            <4>2. p + x - 1 \in Nat \ {0}
                OBVIOUS
            <4> QED  BY <3>2, <4>1, <4>2
        <3>4. to[i + 1] = p + x - 1 + y
            <4>1. at[i + 1] = x + y
                BY <1>13, <3>2
            <4> QED  BY <2>7, <3>1, <4>1
        <3>5. Stands(seqs[i], buf, p + x - 1)
            <4>1. Stands(seqs[i], flat, x)
                BY <1>13, <3>2
            <4>2. Stands(flat, buf, p)
                BY <2>1, <2>5
            <4> QED  BY <1>7, <1>9, <4>1, <4>2, StandsIn
        <3>6. Len(seqs[i]) < Word
            <4>1. y <= Len(flat)
                BY <2>2, <3>2
            <4> QED  BY <1>12, <2>3, <3>2, <4>1, Digits
        <3>7. parse[to[i]] = Found(Normal[c[i]], to[i] + Len(seqs[i]))
            <4>1. Survives(c[i]) /\ seqs[i] = Serialize[c[i]]
                BY <1>6
            <4>2. Stands(Serialize[c[i]], buf, to[i]) /\ Len(Serialize[c[i]]) < Word
                BY <3>3, <3>5, <3>6, <4>1
            <4> QED  BY <2>8, <3>3, <4>1, <4>2 DEF Survives
        <3> QED  BY <1>14, <3>2, <3>3, <3>4, <3>7
    <2>10. ReadArray(parse, to[1], m) = Found([i \in 1 .. m |-> vals[i]], to[m + 1])
        <3>1. Leads(parse, vals, to, m)
            BY <2>9 DEF Leads
        <3> QED  BY <1>2, <3>1, ReadArrayOf
    <2>11. to[1] = p
        <3>1. 1 \in 1 .. m + 1
            OBVIOUS
        <3> QED  BY <1>13, <2>7, <3>1
    <2>12. to[m + 1] = pos + Len(s)
        <3>1. m + 1 \in 1 .. m + 1
            OBVIOUS
        <3>2. to[m + 1] = p + (Len(flat) + 1) - 1
            BY <1>13, <2>7, <3>1
        <3>3. PICK x \in Nat, y \in Nat : x = Len(w) /\ y = Len(flat)
            BY <1>4, <1>12
        <3>4. p = pos + 1 + x /\ Len(s) = 1 + x + y /\ to[m + 1] = p + (y + 1) - 1
            BY <1>12, <2>5, <3>2, <3>3
        <3> QED  BY <3>4
    <2>13. [i \in 1 .. m |-> vals[i]] = vals
        BY <1>14
    <2>14. ReadArray(parse, p, m) = Found(vals, pos + Len(s))
        BY <2>10, <2>11, <2>12, <2>13
    <2>15. IsRead(parse[pos], DTArray, buf, parse, pos)
        BY <1>10, <2>1, <2>8, ReadAt
    <2>16. PICK length : length = ReadVQL(buf, pos + 1) /\ length = Found(m, p)
        BY <2>6
    <2>17. length.ok /\ length.next = p /\ length.value = m
        BY <2>16 DEF Found
    <2>18. parse[pos] = As("array", Found(vals, pos + Len(s)))
        BY <2>14, <2>15, <2>16, <2>17 DEF IsRead
    <2> QED  BY <2>8, <2>18 DEF As, Found
<1>17. Len(s) >= 1
    BY <1>4, <1>12
<1> QED  BY <1>11, <1>12, <1>15, <1>16, <1>17 DEF Survives

(* Deserialize gives what Serialize wrote, reduced to a word or to a JSON  *)
(* value, wherever the bytes stand in a buffer, for every value, however   *)
(* its arrays nest, that is shorter than a word can say.                   *)
THEOREM ValueRoundTrip == \A v \in Values : Survives(v)
<1> DEFINE S == {n \in Nat : \A v \in Values : Depth[v] < n => Survives(v)}
<1>1. \A v \in Values : Depth[v] \in Nat
    BY ValuesAssumption
<1>2. 0 \in S
    BY <1>1
<1>3. ASSUME NEW n \in Nat, n \in S PROVE n + 1 \in S
    <2>1. SUFFICES ASSUME NEW v \in Values, Depth[v] < n + 1 PROVE Survives(v)
        OBVIOUS
    <2>2. CASE v[1] = "nil"
        BY <2>2, NilSurvives
    <2>3. CASE v[1] \in {"string", "bytes"}
        <3>1. PICK b : b = v[2] /\ b \in Seq(0 .. Byte - 1)
            BY <2>3, Kinds
        <3>2. b \in Seq(Nat) /\ v = <<v[1], b>>
            BY <3>1, BytesAreNumbers, Kinds
        <3>3. CASE v[1] = "string"
            <4>1. DTString \in {DTString, DTVSBuffer, DTObject}
                  /\ DTString # DTVSBuffer /\ DTString # DTObject
                BY DEF DTString, DTVSBuffer, DTObject
            <4>2. Serialize[v] = Sized(DTString, b) /\ Normal[v] = v
                BY <3>1, <3>3, WrittenAs
            <4> QED  BY <3>2, <3>3, <4>1, <4>2, SizedSurvives
        <3>4. CASE v[1] = "bytes"
            <4>1. DTVSBuffer \in {DTString, DTVSBuffer, DTObject}
                  /\ DTVSBuffer # DTString /\ DTVSBuffer # DTObject
                BY DEF DTString, DTVSBuffer, DTObject
            <4>2. Serialize[v] = Sized(DTVSBuffer, b) /\ Normal[v] = v
                BY <3>1, <3>4, WrittenAs
            <4> QED  BY <3>2, <3>4, <4>1, <4>2, SizedSurvives
        <3> QED  BY <2>3, <3>3, <3>4
    <2>4. CASE v[1] = "int"
        <3>1. PICK k \in Int : k = v[2]
            BY <2>4, Kinds
        <3>2. k % Word \in 0 .. Word - 1
            BY Digits
        <3>3. Serialize[v] = <<DTInt>> \o WriteVQL(k % Word) /\ Normal[v] = <<"int", k % Word>>
            BY <2>4, <3>1, WrittenAs
        <3> QED  BY <3>2, <3>3, NumberSurvives
    <2>5. CASE v[1] = "float" /\ IsWord(v[2])
        <3>1. PICK k \in 0 .. Word - 1 : k = v[2]
            BY <2>5 DEF IsWord
        <3>2. Serialize[v] = <<DTInt>> \o WriteVQL(k) /\ Normal[v] = <<"int", k>>
            BY <2>5, <3>1, WrittenAs
        <3> QED  BY <3>2, NumberSurvives
    <2>6. CASE v[1] = "array"
        <3>1. \A i \in 1 .. Len(v[2]) : v[2][i] \in Values /\ Depth[v[2][i]] < Depth[v]
            BY <2>6, Elements
        <3>2. \A i \in 1 .. Len(v[2]) : Depth[v[2][i]] < n
            BY <1>1, <2>1, <3>1
        <3>3. \A i \in 1 .. Len(v[2]) : Survives(v[2][i])
            BY <1>3, <3>1, <3>2
        <3> QED  BY <2>6, <3>3, ArraySurvives
    <2>7. CASE v \in Json
        <3>1. Text \in [Json -> Seq(0 .. Byte - 1)] /\ \A w \in Json : Text[w] = Text[v] => w = v
            BY <2>7, TextAssumption DEF IsInjective
        <3>2. PICK b : b = Text[v] /\ b \in Seq(0 .. Byte - 1)
            BY <2>7, <3>1
        <3>3. b \in Seq(Nat)
            BY <3>2, BytesAreNumbers
        <3>4. DTObject \in {DTString, DTVSBuffer, DTObject}
              /\ DTObject # DTString /\ DTObject # DTVSBuffer
            BY DEF DTString, DTVSBuffer, DTObject
        <3>5. Serialize[v] = Sized(DTObject, b) /\ Normal[v] = v
            BY <2>7, <3>2, WrittenAs
        <3> QED  BY <2>7, <3>1, <3>2, <3>3, <3>4, <3>5, SizedSurvives
    <2>8. v[1] = "other" \/ (v[1] = "float" /\ ~IsWord(v[2])) => v \in Json
        BY DEF Json
    <2>9. v[1] \in {"nil", "string", "bytes", "int", "float", "array", "other"}
        BY Kinds
    <2> QED  BY <2>2, <2>3, <2>4, <2>5, <2>6, <2>7, <2>8, <2>9
<1>4. \A n \in Nat : n \in S
    <2> HIDE DEF S
    <2> QED  BY <1>2, <1>3, EveryNumber
<1>5. ASSUME NEW v \in Values PROVE Survives(v)
    <2>1. Depth[v] + 1 \in Nat /\ Depth[v] < Depth[v] + 1
        BY <1>1
    <2> QED  BY <1>4, <2>1
<1> QED  BY <1>5

-----------------------------------------------------------------------------
(* Frames                                                                  *)

(* The four bytes of a word, put together again.                           *)
LEMMA WordRoundTrip ==
    ASSUME NEW n \in 0 .. Word - 1
    PROVE  \E a \in Nat, b \in Nat, c \in Nat, d \in Nat :
              /\ BigEndian(n) = <<a, b, c, d>>
              /\ ((a * Byte + b) * Byte + c) * Byte + d = n
<1>1. Byte \in Nat /\ Byte > 0 /\ Word = Byte * (Byte * (Byte * Byte)) /\ n \in Nat
    <2>1. PICK y \in Nat : y = Byte /\ y > 0
        BY Digits
    <2>2. Word = y * y * y * y
        BY <2>1 DEF Word
    <2> QED  BY <2>1, <2>2
<1>2. PICK third \in Nat, d \in Nat : /\ third = n \div Byte /\ d = n % Byte
                                      /\ n = Byte * third + d
    BY <1>1, Divides
<1>3. PICK second \in Nat, c \in Nat : /\ second = third \div Byte /\ c = third % Byte
                                       /\ third = Byte * second + c
    BY <1>1, <1>2, Divides
<1>4. PICK first \in Nat, b \in Nat : /\ first = second \div Byte /\ b = second % Byte
                                      /\ second = Byte * first + b
    BY <1>1, <1>3, Divides
<1>5. third < Byte * (Byte * Byte)
    <2>1. PICK m \in Nat : m = Byte * (Byte * Byte)
        BY <1>1
    <2>2. n < Byte * m
        BY <1>1, <2>1
    <2> QED  BY <1>1, <1>2, <2>1, <2>2, DivideBound
<1>6. second < Byte * Byte
    <2>1. PICK m \in Nat : m = Byte * Byte
        BY <1>1
    <2>2. third < Byte * m
        BY <1>5, <2>1
    <2> QED  BY <1>1, <1>2, <1>3, <2>1, <2>2, DivideBound
<1>7. first < Byte
    BY <1>1, <1>3, <1>4, <1>6, DivideBound
<1>8. first % Byte = first
    BY <1>1, <1>4, <1>7, Small
<1>9. BigEndian(n) = <<first, b, c, d>>
    BY <1>2, <1>3, <1>4, <1>8 DEF BigEndian
<1>10. ((first * Byte + b) * Byte + c) * Byte + d = n
    <2>1. first * Byte + b = second
        BY <1>1, <1>4
    <2>2. second * Byte + c = third
        BY <1>1, <1>3
    <2>3. third * Byte + d = n
        BY <1>1, <1>2
    <2> QED  BY <2>1, <2>2, <2>3
<1> QED  BY <1>2, <1>3, <1>4, <1>9, <1>10

IsFrame(f) ==
    /\ f \in [type : Nat, id : 0 .. Word - 1, ack : 0 .. Word - 1, payload : Seq(Nat)]
    /\ HeaderSize + Len(f.payload) < Word

(* Four bytes behind others.                                               *)
FourMore(s, n, a, b, c, d, t) ==
    /\ t \in Seq(Nat) /\ Len(t) = n + 4
    /\ \A i \in 1 .. n : t[i] = s[i]
    /\ t[n + 1] = a /\ t[n + 2] = b /\ t[n + 3] = c /\ t[n + 4] = d

LEMMA FourBehind ==
    ASSUME NEW s \in Seq(Nat), NEW a \in Nat, NEW b \in Nat, NEW c \in Nat, NEW d \in Nat
    PROVE  FourMore(s, Len(s), a, b, c, d, s \o <<a, b, c, d>>)
<1>1. PICK w \in Seq(Nat) : /\ w = <<a, b, c, d>> /\ Len(w) = 4
                            /\ w[1] = a /\ w[2] = b /\ w[3] = c /\ w[4] = d
    <2>1. <<a, b, c, d>> \in Seq(Nat) /\ Len(<<a, b, c, d>>) = 4
        OBVIOUS
    <2>2. /\ <<a, b, c, d>>[1] = a /\ <<a, b, c, d>>[2] = b
          /\ <<a, b, c, d>>[3] = c /\ <<a, b, c, d>>[4] = d
        OBVIOUS
    <2> QED  BY <2>1, <2>2
<1>2. s \o w \in Seq(Nat) /\ Len(s \o w) = Len(s) + 4 /\ Len(s) \in Nat
    BY <1>1, ConcatProperties, LenProperties
<1>3. /\ (s \o w)[Len(s) + 1] = w[1] /\ (s \o w)[Len(s) + 2] = w[2]
      /\ (s \o w)[Len(s) + 3] = w[3] /\ (s \o w)[Len(s) + 4] = w[4]
    BY <1>1, <1>2, ConcatProperties
<1>4. \A i \in 1 .. Len(s) : (s \o w)[i] = s[i]
    BY ConcatProperties
<1> QED  BY <1>1, <1>2, <1>3, <1>4 DEF FourMore

(* What is where in a frame.                                               *)
LEMMA EncodedFrame ==
    ASSUME NEW f, IsFrame(f)
    PROVE  /\ EncodeFrame(f) \in Seq(Nat) /\ Len(EncodeFrame(f)) = HeaderSize + Len(f.payload)
           /\ EncodeFrame(f)[1] = f.type
           /\ Uint32(EncodeFrame(f), 2) = f.id /\ Uint32(EncodeFrame(f), 6) = f.ack
           /\ Uint32(EncodeFrame(f), 10) = Len(f.payload)
           /\ \A i \in 1 .. Len(f.payload) : EncodeFrame(f)[HeaderSize + i] = f.payload[i]
<1>1. /\ f.type \in Nat /\ f.id \in 0 .. Word - 1 /\ f.ack \in 0 .. Word - 1
      /\ f.payload \in Seq(Nat) /\ HeaderSize + Len(f.payload) < Word
    BY DEF IsFrame
<1>2. PICK n \in 0 .. Word - 1, body \in Seq(Nat) : n = Len(f.payload) /\ body = f.payload /\ Len(body) = n
    BY <1>1, LenProperties, Digits DEF HeaderSize
<1>3. PICK a1 \in Nat, b1 \in Nat, c1 \in Nat, d1 \in Nat :
         BigEndian(f.id) = <<a1, b1, c1, d1>> /\ ((a1 * Byte + b1) * Byte + c1) * Byte + d1 = f.id
    BY <1>1, WordRoundTrip
<1>4. PICK a2 \in Nat, b2 \in Nat, c2 \in Nat, d2 \in Nat :
         BigEndian(f.ack) = <<a2, b2, c2, d2>> /\ ((a2 * Byte + b2) * Byte + c2) * Byte + d2 = f.ack
    BY <1>1, WordRoundTrip
<1>5. PICK a3 \in Nat, b3 \in Nat, c3 \in Nat, d3 \in Nat :
         BigEndian(n) = <<a3, b3, c3, d3>> /\ ((a3 * Byte + b3) * Byte + c3) * Byte + d3 = n
    BY WordRoundTrip
<1>6. PICK code : code = EncodeFrame(f)
    OBVIOUS
<1>7. PICK head \in Seq(Nat) :
         /\ code = head \o body /\ Len(head) = 13 /\ head[1] = f.type
         /\ head[2] = a1 /\ head[3] = b1 /\ head[4] = c1 /\ head[5] = d1
         /\ head[6] = a2 /\ head[7] = b2 /\ head[8] = c2 /\ head[9] = d2
         /\ head[10] = a3 /\ head[11] = b3 /\ head[12] = c3 /\ head[13] = d3
    <2>1. PICK s1 \in Seq(Nat) : s1 = <<f.type>> /\ Len(s1) = 1 /\ s1[1] = f.type
        <3>1. <<f.type>> \in Seq(Nat) /\ Len(<<f.type>>) = 1
            BY <1>1
        <3>2. <<f.type>>[1] = f.type
            OBVIOUS
        <3> QED  BY <3>1, <3>2
    <2>2. PICK s2, s3, s4 : /\ s2 = s1 \o <<a1, b1, c1, d1>> /\ s3 = s2 \o <<a2, b2, c2, d2>>
                            /\ s4 = s3 \o <<a3, b3, c3, d3>>
        OBVIOUS
    <2>3. FourMore(s1, 1, a1, b1, c1, d1, s2)
        <3>1. FourMore(s1, Len(s1), a1, b1, c1, d1, s2)
            BY <1>3, <2>2, FourBehind
        <3> QED  BY <2>1, <3>1
    <2>4. FourMore(s2, 5, a2, b2, c2, d2, s3)
        <3>1. s2 \in Seq(Nat) /\ Len(s2) = 5
            BY <2>3 DEF FourMore
        <3>2. FourMore(s2, Len(s2), a2, b2, c2, d2, s3)
            BY <1>4, <2>2, <3>1, FourBehind
        <3> QED  BY <3>1, <3>2
    <2>5. FourMore(s3, 9, a3, b3, c3, d3, s4)
        <3>1. s3 \in Seq(Nat) /\ Len(s3) = 9
            BY <2>4 DEF FourMore
        <3>2. FourMore(s3, Len(s3), a3, b3, c3, d3, s4)
            BY <1>5, <2>2, <3>1, FourBehind
        <3> QED  BY <3>1, <3>2
    <2>6. code = s4 \o body
        <3>1. code = <<f.type>> \o BigEndian(f.id) \o BigEndian(f.ack)
                        \o BigEndian(Len(f.payload)) \o f.payload
            BY <1>6 DEF EncodeFrame
        <3>2. PICK w1, w2, w3 : w1 = BigEndian(f.id) /\ w2 = BigEndian(f.ack) /\ w3 = BigEndian(n)
            OBVIOUS
        <3>3. code = s1 \o w1 \o w2 \o w3 \o body
            BY <1>2, <2>1, <3>1, <3>2
        <3>4. s2 = s1 \o w1 /\ s3 = s2 \o w2 /\ s4 = s3 \o w3
            BY <1>3, <1>4, <1>5, <2>2, <3>2
        <3> QED  BY <3>3, <3>4
    <2>7. s2[1] = f.type /\ s2[2] = a1 /\ s2[3] = b1 /\ s2[4] = c1 /\ s2[5] = d1
        BY <2>1, <2>3 DEF FourMore
    <2>8. /\ s3[1] = f.type /\ s3[2] = a1 /\ s3[3] = b1 /\ s3[4] = c1 /\ s3[5] = d1
          /\ s3[6] = a2 /\ s3[7] = b2 /\ s3[8] = c2 /\ s3[9] = d2
        <3>1. \A i \in 1 .. 5 : s3[i] = s2[i]
            BY <2>4 DEF FourMore
        <3>2. s3[1] = s2[1] /\ s3[2] = s2[2] /\ s3[3] = s2[3] /\ s3[4] = s2[4] /\ s3[5] = s2[5]
            BY <3>1
        <3>3. s3[6] = a2 /\ s3[7] = b2 /\ s3[8] = c2 /\ s3[9] = d2
            BY <2>4 DEF FourMore
        <3> QED  BY <2>7, <3>2, <3>3, Zenon
    <2>9. /\ s4 \in Seq(Nat) /\ Len(s4) = 13 /\ s4[1] = f.type
          /\ s4[2] = a1 /\ s4[3] = b1 /\ s4[4] = c1 /\ s4[5] = d1
          /\ s4[6] = a2 /\ s4[7] = b2 /\ s4[8] = c2 /\ s4[9] = d2
          /\ s4[10] = a3 /\ s4[11] = b3 /\ s4[12] = c3 /\ s4[13] = d3
        <3>1. \A i \in 1 .. 9 : s4[i] = s3[i]
            BY <2>5 DEF FourMore
        <3>2. /\ s4[1] = s3[1] /\ s4[2] = s3[2] /\ s4[3] = s3[3] /\ s4[4] = s3[4] /\ s4[5] = s3[5]
              /\ s4[6] = s3[6] /\ s4[7] = s3[7] /\ s4[8] = s3[8] /\ s4[9] = s3[9]
            BY <3>1
        <3>3. /\ s4 \in Seq(Nat) /\ Len(s4) = 13
              /\ s4[10] = a3 /\ s4[11] = b3 /\ s4[12] = c3 /\ s4[13] = d3
            BY <2>5 DEF FourMore
        <3> QED  BY <2>8, <3>2, <3>3, Zenon
    <2> QED  BY <2>6, <2>9, Zenon
<1>8. code = head \o body /\ head \in Seq(Nat) /\ Len(head) = 13
    BY <1>7
<1>9. body \in Seq(Nat) /\ Len(body) = n /\ n \in Nat
    BY <1>2
<1>10. code \in Seq(Nat) /\ Len(code) = 13 + n
    <2>1. head \o body \in Seq(Nat) /\ Len(head \o body) = Len(head) + Len(body)
        BY ConcatProperties
    <2> QED  BY <1>8, <1>9, <2>1
<1>11. \A i \in 1 .. 13 : code[i] = head[i]
    <2>1. \A i \in 1 .. Len(head) : (head \o body)[i] = head[i]
        BY ConcatProperties
    <2> QED  BY <1>8, <2>1
<1>12. \A i \in 1 .. n : code[13 + i] = f.payload[i]
    <2> SUFFICES ASSUME NEW i \in 1 .. n PROVE code[13 + i] = f.payload[i]
        OBVIOUS
    <2>1. PICK k \in Len(head) + 1 .. Len(head) + Len(body) : k = 13 + i
        BY <1>8, <1>9
    <2>2. code[k] = body[k - Len(head)]
        <3>1. (head \o body)[k] = body[k - Len(head)]
            BY ConcatProperties
        <3> QED  BY <1>8, <3>1
    <2>3. k - Len(head) = i
        BY <1>8, <2>1
    <2> QED  BY <1>2, <2>1, <2>2, <2>3
<1>13. /\ code[1] = f.type
       /\ code[2] = a1 /\ code[3] = b1 /\ code[4] = c1 /\ code[5] = d1
       /\ code[6] = a2 /\ code[7] = b2 /\ code[8] = c2 /\ code[9] = d2
       /\ code[10] = a3 /\ code[11] = b3 /\ code[12] = c3 /\ code[13] = d3
    <2>1. /\ code[1] = head[1]
          /\ code[2] = head[2] /\ code[3] = head[3] /\ code[4] = head[4] /\ code[5] = head[5]
          /\ code[6] = head[6] /\ code[7] = head[7] /\ code[8] = head[8] /\ code[9] = head[9]
          /\ code[10] = head[10] /\ code[11] = head[11] /\ code[12] = head[12]
          /\ code[13] = head[13]
        BY <1>11
    <2> QED  BY <1>7, <2>1, Zenon
<1>14. Uint32(code, 2) = f.id
    <2>1. Uint32(code, 2) = ((code[2] * Byte + code[3]) * Byte + code[4]) * Byte + code[5]
        BY DEF Uint32
    <2> QED  BY <1>3, <1>13, <2>1, Zenon
<1>15. Uint32(code, 6) = f.ack
    <2>1. Uint32(code, 6) = ((code[6] * Byte + code[7]) * Byte + code[8]) * Byte + code[9]
        BY DEF Uint32
    <2> QED  BY <1>4, <1>13, <2>1, Zenon
<1>16. Uint32(code, 10) = n
    <2>1. Uint32(code, 10) = ((code[10] * Byte + code[11]) * Byte + code[12]) * Byte + code[13]
        BY DEF Uint32
    <2> QED  BY <1>5, <1>13, <2>1, Zenon
<1> QED  BY <1>2, <1>6, <1>10, <1>12, <1>13, <1>14, <1>15, <1>16 DEF HeaderSize

(* The start of a frame, or a frame and more.                              *)
StartsLike(data, code) == \A i \in 1 .. Len(data) : i <= Len(code) => data[i] = code[i]

(* DecodeFrame gives the frame that EncodeFrame wrote, whatever follows it *)
(* in the message, and an error as long as a byte of it is missing.        *)
THEOREM FrameRoundTrip ==
    ASSUME NEW f, IsFrame(f), NEW data \in Seq(Nat), StartsLike(data, EncodeFrame(f))
    PROVE  DecodeFrame(data) = IF Len(data) >= HeaderSize + Len(f.payload)
                               THEN Found(f, HeaderSize + Len(f.payload)) ELSE Failed
<1>1. PICK code \in Seq(Nat) : code = EncodeFrame(f)
    BY EncodedFrame
<1>2. PICK n \in Nat : n = Len(f.payload) /\ f.payload \in Seq(Nat) /\ 13 + n < Word
    BY LenProperties DEF IsFrame, HeaderSize
<1>3. /\ Len(code) = 13 + n /\ code[1] = f.type
      /\ Uint32(code, 2) = f.id /\ Uint32(code, 6) = f.ack /\ Uint32(code, 10) = n
      /\ \A i \in 1 .. n : code[13 + i] = f.payload[i]
    BY <1>1, <1>2, EncodedFrame DEF HeaderSize
<1>4. PICK m \in Nat : m = Len(data)
    BY LenProperties
<1>5. CASE m < 13
    <2>1. DecodeFrame(data) = Failed
        BY <1>4, <1>5 DEF DecodeFrame, HeaderSize
    <2>2. ~(Len(data) >= HeaderSize + Len(f.payload))
        BY <1>2, <1>4, <1>5 DEF HeaderSize
    <2> QED  BY <2>1, <2>2
<1>6. CASE m >= 13
    <2>1. \A i \in 1 .. 13 : data[i] = code[i]
        <3> SUFFICES ASSUME NEW i \in 1 .. 13 PROVE data[i] = code[i]
            OBVIOUS
        <3>1. i \in 1 .. m /\ i <= 13 + n
            BY <1>6
        <3>2. Len(code) = 13 + n
            BY <1>3
        <3> QED  BY <1>1, <1>4, <3>1, <3>2 DEF StartsLike
    <2>2. /\ data[1] = code[1]
          /\ data[2] = code[2] /\ data[3] = code[3] /\ data[4] = code[4] /\ data[5] = code[5]
          /\ data[6] = code[6] /\ data[7] = code[7] /\ data[8] = code[8] /\ data[9] = code[9]
          /\ data[10] = code[10] /\ data[11] = code[11] /\ data[12] = code[12]
          /\ data[13] = code[13]
        BY <2>1
    <2>3. Uint32(data, 2) = Uint32(code, 2)
        <3>1. Uint32(data, 2) = ((data[2] * Byte + data[3]) * Byte + data[4]) * Byte + data[5]
            BY DEF Uint32
        <3>2. Uint32(code, 2) = ((code[2] * Byte + code[3]) * Byte + code[4]) * Byte + code[5]
            BY DEF Uint32
        <3> QED  BY <2>2, <3>1, <3>2, Zenon
    <2>4. Uint32(data, 6) = Uint32(code, 6)
        <3>1. Uint32(data, 6) = ((data[6] * Byte + data[7]) * Byte + data[8]) * Byte + data[9]
            BY DEF Uint32
        <3>2. Uint32(code, 6) = ((code[6] * Byte + code[7]) * Byte + code[8]) * Byte + code[9]
            BY DEF Uint32
        <3> QED  BY <2>2, <3>1, <3>2, Zenon
    <2>5. Uint32(data, 10) = Uint32(code, 10)
        <3>1. Uint32(data, 10) = ((data[10] * Byte + data[11]) * Byte + data[12]) * Byte + data[13]
            BY DEF Uint32
        <3>2. Uint32(code, 10) = ((code[10] * Byte + code[11]) * Byte + code[12]) * Byte + code[13]
            BY DEF Uint32
        <3> QED  BY <2>2, <3>1, <3>2, Zenon
    <2>6. FrameEnd(data) = 13 + n
        <3>1. FrameEnd(data) = (13 + n) % Word
            BY <1>3, <2>5 DEF FrameEnd, HeaderSize
        <3>2. 13 + n \in Nat /\ Word \in Nat
            BY Digits
        <3> QED  BY <1>2, <3>1, <3>2, Small
    <2>7. CASE m < 13 + n
        <3>1. DecodeFrame(data) = Failed
            BY <1>4, <2>6, <2>7 DEF DecodeFrame
        <3>2. ~(Len(data) >= HeaderSize + Len(f.payload))
            BY <1>2, <1>4, <2>7 DEF HeaderSize
        <3> QED  BY <3>1, <3>2
    <2>8. CASE m >= 13 + n
        <3>1. PICK q \in Nat : q = 13 + n
            OBVIOUS
        <3>2. SubSeq(data, 14, q) = f.payload
            <4>1. SubSeq(data, 14, q) = [i \in 1 .. q - 14 + 1 |-> data[i + 14 - 1]]
                OBVIOUS
            <4>2. q - 14 + 1 = n
                BY <3>1
            <4>3. \A i \in 1 .. n : data[i + 14 - 1] = f.payload[i]
                <5> SUFFICES ASSUME NEW i \in 1 .. n PROVE data[i + 14 - 1] = f.payload[i]
                    OBVIOUS
                <5>1. i + 14 - 1 = 13 + i /\ 13 + i \in 1 .. Len(data) /\ 13 + i <= Len(code)
                    BY <1>3, <1>4, <2>8
                <5>2. data[13 + i] = code[13 + i]
                    BY <1>1, <5>1 DEF StartsLike
                <5> QED  BY <1>3, <5>1, <5>2
            <4>4. f.payload = [i \in 1 .. n |-> f.payload[i]]
                BY <1>2
            <4>5. [i \in 1 .. n |-> data[i + 14 - 1]] = [i \in 1 .. n |-> f.payload[i]]
                BY <4>3
            <4> QED  BY <4>1, <4>2, <4>4, <4>5
        <3>3. PICK type, id, ack, body : /\ type = data[1] /\ id = Uint32(data, 2)
                                         /\ ack = Uint32(data, 6) /\ body = SubSeq(data, 14, q)
            OBVIOUS
        <3>4. DecodeFrame(data)
                = Found([type |-> data[1], id |-> Uint32(data, 2), ack |-> Uint32(data, 6),
                         payload |-> SubSeq(data, 13 + 1, 13 + n)], 13 + n)
            <4>1. ~(Len(data) < 13 \/ Len(data) < FrameEnd(data)) /\ ~(FrameEnd(data) < 13)
                BY <1>4, <1>6, <2>6, <2>8
            <4> QED  BY <2>6, <4>1 DEF DecodeFrame, HeaderSize
        <3>5. DecodeFrame(data)
                = Found([type |-> type, id |-> id, ack |-> ack, payload |-> body], q)
            <4>1. 13 + 1 = 14
                OBVIOUS
            <4> QED  BY <3>1, <3>3, <3>4, <4>1
        <3>6. type = f.type /\ id = f.id /\ ack = f.ack /\ body = f.payload
            BY <1>3, <2>2, <2>3, <2>4, <3>2, <3>3
        <3>7. f = [type |-> f.type, id |-> f.id, ack |-> f.ack, payload |-> f.payload]
            BY DEF IsFrame
        <3>8. Len(data) >= HeaderSize + Len(f.payload) /\ q = HeaderSize + Len(f.payload)
            BY <1>2, <1>4, <2>8, <3>1 DEF HeaderSize
        <3> QED  BY <3>5, <3>6, <3>7, <3>8
    <2> QED  BY <2>7, <2>8
<1> QED  BY <1>5, <1>6

-----------------------------------------------------------------------------
(* Steps                                                                   *)

(* The end of a sequence.                                                  *)
LEMMA Suffix ==
    ASSUME NEW s \in Seq(Nat), NEW p \in 1 .. Len(s) + 1
    PROVE  /\ SubSeq(s, p, Len(s)) \in Seq(Nat) /\ Len(SubSeq(s, p, Len(s))) = Len(s) - p + 1
           /\ \A i \in 1 .. Len(s) - p + 1 : SubSeq(s, p, Len(s))[i] = s[i + p - 1]
<1>1. PICK q \in Int : q = Len(s) /\ q \in Nat
    BY LenProperties
<1>2. SubSeq(s, p, q) = [i \in 1 .. q - p + 1 |-> s[i + p - 1]]
    OBVIOUS
<1>3. \A i \in 1 .. q - p + 1 : i + p - 1 \in 1 .. Len(s)
    BY <1>1
<1>4. \A i \in 1 .. q - p + 1 : s[i + p - 1] \in Nat
    BY <1>3
<1>5. q - p + 1 \in Nat
    BY <1>1
<1> QED  BY <1>1, <1>2, <1>4, <1>5

Bytes(vs) == [i \in 1 .. Len(vs) |-> Serialize[vs[i]]]

(* The payload of a frame that was sent is what its values are written as, *)
(* one behind the other, or what has been torn off that.                   *)
Layout(e, full, at) ==
    /\ full \in Seq(Nat) /\ Len(full) < Word
    /\ Laid(Bytes(e.values), Len(e.values), at, full)
    /\ Torn(e.frame.payload, full)
    /\ e.whole => e.frame.payload = full

(* rest is what is left of it when k values have been read.                *)
LeftOf(e, at, k, rest) ==
    /\ Stands(rest, e.frame.payload, at[k + 1])
    /\ at[k + 1] + Len(rest) = Len(e.frame.payload) + 1

(* The next value is read whole or not at all.                             *)
LEMMA ValueRead ==
    ASSUME NEW e, e.values \in Seq(Values), NEW full, NEW at, Layout(e, full, at),
           NEW k \in 0 .. Len(e.values), NEW rest \in Seq(Nat), LeftOf(e, at, k, rest)
    PROVE  /\ Deserialize(rest)[1].ok =>
                 /\ k + 1 \in 1 .. Len(e.values)
                 /\ Deserialize(rest)[1] = Found(Normal[e.values[k + 1]], 1 + Len(Serialize[e.values[k + 1]]))
                 /\ Len(Serialize[e.values[k + 1]]) <= Len(rest)
                 /\ at[(k + 1) + 1] = at[k + 1] + Len(Serialize[e.values[k + 1]])
           /\ ~Deserialize(rest)[1].ok /\ e.whole => k = Len(e.values)
<1>1. PICK n \in Nat : n = Len(e.values)
    BY LenProperties
<1>2. PICK body : body = e.frame.payload /\ Torn(body, full) /\ (e.whole => body = full)
    BY DEF Layout
<1>3. /\ body \in Seq(Nat) /\ full \in Seq(Nat) /\ Len(body) <= Len(full) /\ Len(full) < Word
      /\ \A i \in 1 .. Len(body) : body[i] = full[i]
      /\ Len(body) \in Nat /\ Len(full) \in Nat /\ Len(rest) \in Nat
    BY <1>2, LenProperties DEF Torn, Layout
<1>4. /\ at \in [1 .. n + 1 -> Nat \ {0}] /\ at[n + 1] = Len(full) + 1
      /\ \A i \in 1 .. n : /\ at[i + 1] = at[i] + Len(Bytes(e.values)[i])
                           /\ Stands(Bytes(e.values)[i], full, at[i])
    BY <1>1 DEF Layout, Laid
<1>5. PICK p \in Nat \ {0} : p = at[k + 1]
    <2>1. k + 1 \in 1 .. n + 1
        BY <1>1
    <2>2. at \in [1 .. n + 1 -> Nat \ {0}]
        BY <1>4
    <2> QED  BY <2>1, <2>2
<1>6. Stands(rest, body, p) /\ p + Len(rest) = Len(body) + 1
    BY <1>2, <1>5 DEF LeftOf
<1>7. PICK found : found = Deserialize(rest)[1]
    OBVIOUS
<1>8. CASE k = n
    <2>1. Len(rest) = 0
        BY <1>3, <1>4, <1>5, <1>6, <1>8
    <2>2. found = ReadValue(rest, Deserialize(rest), 1)
        <3>1. 1 \in 1 .. Len(rest) + 1
            BY <1>3
        <3> QED  BY <1>7, <3>1, Deserialized DEF Parsed
    <2>3. found = Failed
        BY <2>1, <2>2 DEF ReadValue
    <2>4. ~found.ok
        BY <2>3 DEF Failed
    <2> QED  BY <1>1, <1>7, <1>8, <2>4
<1>9. CASE k # n
    <2>1. k + 1 \in 1 .. n /\ k + 1 \in 1 .. Len(e.values)
        BY <1>1, <1>9
    <2>2. PICK v \in Values : v = e.values[k + 1]
        BY <2>1
    <2>3. PICK s : s = Serialize[v] /\ s = Bytes(e.values)[k + 1]
        BY <2>1, <2>2 DEF Bytes
    <2>4. Survives(v)
        BY ValueRoundTrip
    <2>5. s \in Seq(Nat) /\ Len(s) \in Nat
        BY <2>3, <2>4, LenProperties DEF Survives
    <2>6. Stands(s, full, p) /\ at[(k + 1) + 1] = p + Len(s)
        BY <1>4, <1>5, <2>1, <2>3
    <2>7. p + Len(s) <= Len(full) + 1
        BY <2>6 DEF Stands
    <2>8. Len(s) < Word /\ p \in 1 .. Len(full) + 1
        BY <1>3, <2>5, <2>7, Digits
    <2>9. PICK buf \in Seq(Nat) : /\ buf = SubSeq(full, p, Len(full))
                                 /\ Len(buf) = Len(full) - p + 1
                                 /\ \A i \in 1 .. Len(full) - p + 1 : buf[i] = full[i + p - 1]
        BY <1>3, <2>8, Suffix
    <2>10. Stands(s, buf, 1)
        <3>1. 1 + Len(s) <= Len(buf) + 1
            BY <1>3, <2>5, <2>7, <2>9
        <3>2. ASSUME NEW i \in 0 .. Len(s) - 1 PROVE buf[1 + i] = s[i + 1]
            <4>1. 1 + i \in 1 .. Len(full) - p + 1 /\ (1 + i) + p - 1 = p + i
                BY <1>3, <2>5, <2>7
            <4>2. buf[1 + i] = full[p + i]
                BY <2>9, <4>1
            <4> QED  BY <2>6, <4>2 DEF Stands
        <3> QED  BY <3>1, <3>2 DEF Stands
    <2>11. Torn(rest, buf)
        <3>1. Len(rest) <= Len(buf)
            BY <1>3, <1>6, <2>9
        <3>2. ASSUME NEW i \in 1 .. Len(rest) PROVE rest[i] = buf[i]
            <4>1. i - 1 \in 0 .. Len(rest) - 1 /\ (i - 1) + 1 = i /\ p + (i - 1) = i + p - 1
                BY <1>3
            <4>2. body[i + p - 1] = rest[i]
                BY <1>6, <4>1 DEF Stands
            <4>3. i + p - 1 \in 1 .. Len(body)
                BY <1>3, <1>6
            <4>4. i \in 1 .. Len(full) - p + 1
                BY <1>3, <1>6
            <4> QED  BY <1>3, <2>9, <4>2, <4>3, <4>4
        <3> QED  BY <2>9, <3>1, <3>2 DEF Torn
    <2>12. Deserialize(buf)[1] = Found(Normal[v], 1 + Len(s))
        <3>1. 1 \in Nat \ {0}
            OBVIOUS
        <3> QED  BY <2>3, <2>4, <2>8, <2>9, <2>10, <3>1 DEF Survives
    <2>13. Follows(Deserialize(buf), Deserialize(rest), rest, 1)
        BY <2>11, TornReads
    <2>14. Reads(found, rest, 1) /\ (found.ok => Deserialize(buf)[1] = found)
        <3>1. 1 \in 1 .. Len(rest) + 1
            BY <1>3
        <3> QED  BY <1>7, <2>13, <3>1 DEF Follows
    <2>15. ASSUME found.ok PROVE found = Found(Normal[v], 1 + Len(s)) /\ Len(s) <= Len(rest)
        <3>1. found = Found(Normal[v], 1 + Len(s))
            BY <2>12, <2>14, <2>15
        <3>2. found.next = 1 + Len(s)
            <4>1. PICK value, next : value = Normal[v] /\ next = 1 + Len(s)
                OBVIOUS
            <4>2. found = Found(value, next)
                BY <3>1, <4>1
            <4> QED  BY <4>1, <4>2 DEF Found
        <3>3. found.next <= Len(rest) + 1
            BY <1>3, <2>14, <2>15 DEF Reads
        <3> QED  BY <1>3, <2>5, <3>1, <3>2, <3>3
    <2>16. ASSUME e.whole PROVE found.ok
        <3>1. body = full
            BY <1>2, <2>16
        <3>2. Len(rest) = Len(buf)
            BY <1>3, <1>6, <2>9, <3>1
        <3>3. rest = buf
            BY <2>9, <2>11, <3>2, SeqEqual DEF Torn
        <3>4. PICK value, next : value = Normal[v] /\ next = 1 + Len(s)
            OBVIOUS
        <3>5. found = Found(value, next)
            BY <1>7, <2>12, <3>3, <3>4
        <3> QED  BY <3>5 DEF Found
    <2> QED  BY <1>5, <1>7, <2>1, <2>2, <2>3, <2>6, <2>15, <2>16
<1> QED  BY <1>8, <1>9

-----------------------------------------------------------------------------
(* The invariant                                                           *)

Frames   == [type : Nat, id : 0 .. Word - 1, ack : 0 .. Word - 1, payload : Seq(Nat)]
ReadBack == {Normal[v] : v \in Values} \cup {Nil}

TypeOK ==
    /\ sent \in Seq([frame : Frames, values : Seq(Values), whole : BOOLEAN])
    /\ message \in Seq(Nat) /\ left \in Seq(Nat) /\ payload \in Seq(Nat)
    /\ read \in Seq([frame : Frames, values : Seq(ReadBack)])
    /\ phase \in {"write", "frames", "header", "body", "end"}

FrameLaid(e) ==
    IsFrame(e.frame) /\ Len(e.values) >= 1 /\ \E full, at : Layout(e, full, at)

SentRight == \A i \in 1 .. Len(sent) : FrameLaid(sent[i])

Codes(s) == [i \in 1 .. Len(s) |-> EncodeFrame(s[i].frame)]

(* The message is the frames, and what is left to decode stands in it      *)
(* where the first frame does that has not been read.                      *)
MessageRight ==
    \E off : /\ Laid(Codes(sent), Len(sent), off, message)
             /\ phase # "write" => Stands(left, message, off[Len(read) + 1])

FramesRight ==
    /\ phase = "write" => Len(read) = 0
    /\ Len(read) <= Len(sent)
    /\ \A i \in 1 .. Len(read) : read[i].frame = sent[i].frame
    /\ (phase = "end" /\ Len(read) < Len(sent)) =>
          Len(left) < HeaderSize + Len(sent[Len(read) + 1].frame.payload)

(* What was read of a frame: the header that was written, and the body or  *)
(* nil in its place.                                                       *)
Second(e) == IF Len(e.values) > 1 THEN Normal[e.values[2]] ELSE Nil

Right(got, e) ==
    /\ Len(got) >= 1 => got[1] = Normal[e.values[1]]
    /\ Len(got) > 1 => got[2] = Second(e) \/ (got[2] = Nil /\ ~e.whole)

Past(i) == phase \notin {"header", "body"} \/ i < Len(read)

ValuesRight ==
    \A i \in 1 .. Len(read) :
        /\ Right(read[i].values, sent[i])
        /\ sent[i].whole /\ Past(i) => Len(read[i].values) = 2

(* What is left of the payload stands in it where the first value does     *)
(* that has not been read.                                                 *)
PayloadHas(k) ==
    /\ Len(read) >= 1
    /\ Len(read[Len(read)].values) = k
    /\ \E full, at : /\ Layout(sent[Len(read)], full, at)
                     /\ LeftOf(sent[Len(read)], at, k, payload)

PayloadRight ==
    /\ phase = "header" => PayloadHas(0)
    /\ phase = "body" => PayloadHas(1)

IInv == TypeOK /\ SentRight /\ MessageRight /\ FramesRight /\ ValuesRight /\ PayloadRight

LEMMA LaidSame ==
    ASSUME NEW seqs, NEW other, NEW k \in Nat, NEW at, NEW flat, Laid(seqs, k, at, flat),
           \A i \in 1 .. k : seqs[i] = other[i]
    PROVE  Laid(other, k, at, flat)
BY DEF Laid

LEMMA InitHolds == Init => IInv
<1> SUFFICES ASSUME Init PROVE IInv
    OBVIOUS
<1>1. /\ sent = <<>> /\ message = <<>> /\ left = <<>> /\ payload = <<>> /\ read = <<>>
      /\ phase = "write" /\ Len(sent) = 0 /\ Len(read) = 0 /\ Len(message) = 0
    BY DEF Init
<1>2. \A i : ~(i \in 1 .. 0)
    OBVIOUS
<1>3. TypeOK
    BY <1>1 DEF TypeOK
<1>4. SentRight /\ FramesRight /\ ValuesRight
    BY <1>1, <1>2 DEF SentRight, FramesRight, ValuesRight
<1>5. PayloadRight
    BY <1>1 DEF PayloadRight
<1>6. MessageRight
    <2> DEFINE off == [i \in 1 .. 0 + 1 |-> 1]
    <2>1. off \in [1 .. 0 + 1 -> Nat \ {0}] /\ off[1] = 1 /\ off[0 + 1] = 0 + 1
        OBVIOUS
    <2>2. Laid(Codes(sent), Len(sent), off, message)
        <3> HIDE DEF off
        <3> QED  BY <1>1, <1>2, <2>1 DEF Laid
    <2> HIDE DEF off
    <2> QED  BY <1>1, <2>2 DEF MessageRight
<1> QED  BY <1>3, <1>4, <1>5, <1>6 DEF IInv

(* What is sent is well formed.                                            *)
LEMMA SentIsRight ==
    ASSUME NEW vs \in Seq(Values), Len(vs) >= 1, NEW lost \in Nat, NEW id \in 0 .. Word - 1, NEW ack \in 0 .. Word - 1,
           NEW full, full = FlattenSeq(Bytes(vs)), lost <= Len(full), Fits(full),
           NEW f, f = Frame(id, ack, 1, SubSeq(full, 1, Len(full) - lost)),
           NEW e, e = [frame |-> f, values |-> vs, whole |-> lost = 0]
    PROVE  /\ f \in Frames /\ FrameLaid(e)
           /\ e \in [frame : Frames, values : Seq(Values), whole : BOOLEAN]
<1>1. PICK n \in Nat : n = Len(vs)
    BY LenProperties
<1>2. \A i \in 1 .. n : vs[i] \in Values /\ Survives(vs[i])
    BY <1>1, ValueRoundTrip
<1>3. PICK seqs : seqs = Bytes(vs) /\ seqs = [i \in 1 .. n |-> Serialize[vs[i]]]
    BY <1>1 DEF Bytes
<1>4. seqs \in Seq(Seq(Nat)) /\ Len(seqs) = n
    <2>1. \A i \in 1 .. n : Serialize[vs[i]] \in Seq(Nat)
        BY <1>2 DEF Survives
    <2> QED  BY <1>3, <2>1
<1>5. full \in Seq(Nat) /\ \E at : Laid(seqs, n, at, full)
    BY <1>3, <1>4, FlattenLaid
<1>6. PICK at : Laid(seqs, n, at, full)
    BY <1>5
<1>7. PICK m \in Nat : m = Len(full) /\ lost <= m
    BY <1>5, LenProperties
<1>8. PICK k \in Nat : k = m - lost /\ k <= m
    BY <1>7
<1>9. PICK body : /\ body = SubSeq(full, 1, Len(full) - lost) /\ body = [i \in 1 .. k |-> full[i]]
    <2>1. SubSeq(full, 1, k) = [i \in 1 .. k - 1 + 1 |-> full[i + 1 - 1]]
        OBVIOUS
    <2>2. k - 1 + 1 = k /\ \A i \in 1 .. k : i + 1 - 1 = i
        OBVIOUS
    <2>3. SubSeq(full, 1, k) = [i \in 1 .. k |-> full[i]]
        BY <2>1, <2>2
    <2> QED  BY <1>7, <1>8, <2>3
<1>10. \A i \in 1 .. k : full[i] \in Nat
    <2>1. \A i \in 1 .. Len(full) : full[i] \in Nat
        BY <1>5, ElementOfSeq
    <2>2. \A i \in 1 .. k : i \in 1 .. m
        BY <1>8
    <2> QED  BY <1>7, <2>1, <2>2
<1>11. body \in Seq(Nat) /\ Len(body) = k /\ \A i \in 1 .. k : body[i] = full[i]
    BY <1>9, <1>10
<1>12. Torn(body, full)
    BY <1>5, <1>7, <1>8, <1>11 DEF Torn
<1>13. lost = 0 => body = full
    <2>1. lost = 0 => k = m
        BY <1>8
    <2>2. full = [i \in 1 .. m |-> full[i]]
        BY <1>5, <1>7
    <2> QED  BY <1>9, <2>1, <2>2
<1>14. f = [type |-> 1, id |-> id, ack |-> ack, payload |-> body]
    BY <1>9 DEF Frame
<1>15. f \in Frames /\ f.payload = body
    BY <1>11, <1>14 DEF Frames
<1>16. 13 + m < Word /\ Word \in Nat
    BY <1>7, Digits DEF Fits, HeaderSize
<1>17. IsFrame(f)
    <2>1. 13 + k < Word
        BY <1>8, <1>16
    <2> QED  BY <1>11, <1>15, <2>1 DEF IsFrame, Frames, HeaderSize
<1>18. e.frame = f /\ e.values = vs /\ (e.whole => lost = 0)
    OBVIOUS
<1>19. Layout(e, full, at)
    <2>1. Len(full) < Word
        BY <1>7, <1>16
    <2>2. Laid(Bytes(e.values), Len(e.values), at, full)
        BY <1>1, <1>3, <1>6, <1>18
    <2>3. Torn(e.frame.payload, full) /\ (e.whole => e.frame.payload = full)
        BY <1>12, <1>13, <1>15, <1>18
    <2> QED  BY <1>5, <2>1, <2>2, <2>3 DEF Layout
<1>20. FrameLaid(e)
    BY <1>17, <1>18, <1>19 DEF FrameLaid
<1>21. e \in [frame : Frames, values : Seq(Values), whole : BOOLEAN]
    BY <1>15
<1> QED  BY <1>15, <1>20, <1>21

LEMMA SendKeeps ==
    ASSUME IInv, NEW vs \in Seq(Values), Len(vs) >= 1, NEW lost \in Nat, Send(vs, lost)
    PROVE  IInv'
<1>1. TypeOK /\ SentRight /\ MessageRight /\ FramesRight
    BY DEF IInv
<1>2. /\ sent \in Seq([frame : Frames, values : Seq(Values), whole : BOOLEAN])
      /\ message \in Seq(Nat) /\ left \in Seq(Nat) /\ payload \in Seq(Nat)
      /\ read \in Seq([frame : Frames, values : Seq(ReadBack)])
    BY <1>1 DEF TypeOK
<1>3. PICK m \in Nat : m = Len(sent)
    BY <1>2, LenProperties
<1>4. PICK full : full = FlattenSeq(Bytes(vs))
    OBVIOUS
<1>5. PICK f : f = Frame((Word - 1 + m) % Word, m % Word, 1, SubSeq(full, 1, Len(full) - lost))
    OBVIOUS
<1>6. PICK e : e = [frame |-> f, values |-> vs, whole |-> lost = 0]
    OBVIOUS
<1>7. /\ phase = "write" /\ lost <= Len(full) /\ Fits(full)
      /\ sent' = Append(sent, e) /\ message' = message \o EncodeFrame(f)
      /\ left' = left /\ payload' = payload /\ read' = read /\ phase' = phase
    BY <1>3, <1>4, <1>5, <1>6 DEF Send, Bytes
<1>8. (Word - 1 + m) % Word \in 0 .. Word - 1 /\ m % Word \in 0 .. Word - 1
    <2>1. Word \in Nat /\ Word > 0
        BY Digits
    <2>2. Word - 1 + m \in Nat
        BY <2>1
    <2> QED  BY <2>1, <2>2, Divides
<1>9. /\ f \in Frames /\ FrameLaid(e)
      /\ e \in [frame : Frames, values : Seq(Values), whole : BOOLEAN]
    BY <1>4, <1>5, <1>6, <1>7, <1>8, SentIsRight
<1>10. /\ sent' \in Seq([frame : Frames, values : Seq(Values), whole : BOOLEAN])
       /\ Len(sent') = m + 1 /\ sent'[m + 1] = e /\ \A i \in 1 .. m : sent'[i] = sent[i]
    BY <1>2, <1>3, <1>7, <1>9, AppendProperties
<1>11. PICK code \in Seq(Nat) : code = EncodeFrame(f)
    <2>1. IsFrame(f)
        BY <1>6, <1>9 DEF FrameLaid
    <2> QED  BY <2>1, EncodedFrame
<1>12. Len(read) = 0
    BY <1>1, <1>7 DEF FramesRight
<1>13. TypeOK'
    <2>1. message' \in Seq(Nat)
        BY <1>2, <1>7, <1>11, ConcatProperties
    <2> QED  BY <1>1, <1>7, <1>10, <2>1 DEF TypeOK
<1>14. SentRight'
    <2>1. ASSUME NEW i \in 1 .. m + 1 PROVE FrameLaid(sent'[i])
        <3>1. CASE i = m + 1
            BY <1>9, <1>10, <3>1
        <3>2. CASE i # m + 1
            <4>1. i \in 1 .. m
                BY <3>2
            <4> QED  BY <1>1, <1>3, <1>10, <4>1 DEF SentRight
        <3> QED  BY <3>1, <3>2
    <2> QED  BY <1>10, <2>1 DEF SentRight
<1>15. MessageRight'
    <2>1. PICK off : Laid(Codes(sent), m, off, message)
        BY <1>1, <1>3 DEF MessageRight
    <2>2. PICK codes : codes = Codes(sent')
        OBVIOUS
    <2>3. /\ codes = [i \in 1 .. m + 1 |-> EncodeFrame(sent'[i].frame)]
          /\ Codes(sent) = [i \in 1 .. m |-> EncodeFrame(sent[i].frame)]
        BY <1>3, <1>10, <2>2 DEF Codes
    <2>4. \A i \in 1 .. m : codes[i] = Codes(sent)[i] /\ codes[i] = EncodeFrame(sent[i].frame)
        <3>1. \A i \in 1 .. m : i \in 1 .. m + 1
            OBVIOUS
        <3> QED  BY <1>10, <2>3, <3>1
    <2>5. codes[m + 1] = code
        <3>1. m + 1 \in 1 .. m + 1
            OBVIOUS
        <3>2. codes[m + 1] = EncodeFrame(sent'[m + 1].frame)
            BY <2>3, <3>1
        <3> QED  BY <1>6, <1>10, <1>11, <3>2
    <2>6. \A i \in 1 .. m : codes[i] \in Seq(Nat)
        <3>1. \A i \in 1 .. m : IsFrame(sent[i].frame)
            BY <1>1, <1>3 DEF SentRight, FrameLaid
        <3> QED  BY <2>4, <3>1, EncodedFrame
    <2>7. Laid(codes, m, off, message)
        BY <2>1, <2>4, LaidSame
    <2>8. PICK to : Laid(codes, m + 1, to, message \o code)
        BY <1>2, <2>5, <2>6, <2>7, LaidAppend
    <2>9. Laid(Codes(sent'), Len(sent'), to, message')
        BY <1>7, <1>10, <1>11, <2>2, <2>8
    <2> QED  BY <1>7, <2>9 DEF MessageRight
<1>16. FramesRight' /\ ValuesRight' /\ PayloadRight'
    <2>1. Len(read') = 0 /\ phase' = "write" /\ Len(sent') >= 0 /\ \A i : ~(i \in 1 .. 0)
        BY <1>7, <1>10, <1>12
    <2> QED  BY <2>1 DEF FramesRight, ValuesRight, PayloadRight
<1> QED  BY <1>13, <1>14, <1>15, <1>16 DEF IInv

LEMMA ArriveKeeps ==
    ASSUME IInv, NEW n \in 1 .. Len(message), Arrive(n)
    PROVE  IInv'
<1>1. TypeOK /\ SentRight /\ MessageRight /\ FramesRight
    BY DEF IInv
<1>2. /\ phase = "write" /\ left' = SubSeq(message, 1, n) /\ phase' = "frames"
      /\ sent' = sent /\ message' = message /\ payload' = payload /\ read' = read
    BY DEF Arrive
<1>3. sent \in Seq([frame : Frames, values : Seq(Values), whole : BOOLEAN]) /\ message \in Seq(Nat)
    BY <1>1 DEF TypeOK
<1>4. Len(message) \in Nat /\ Len(sent) \in Nat /\ Len(read) = 0
    BY <1>1, <1>2, <1>3, LenProperties DEF FramesRight
<1>5. left' \in Seq(Nat) /\ Len(left') = n /\ \A i \in 1 .. n : left'[i] = message[i]
    <2>1. PICK t : t = SubSeq(message, 1, n)
        OBVIOUS
    <2>2. t = [i \in 1 .. n - 1 + 1 |-> message[i + 1 - 1]]
        BY <2>1
    <2>3. n - 1 + 1 = n /\ \A i \in 1 .. n : i + 1 - 1 = i
        BY <1>4
    <2>4. t = [i \in 1 .. n |-> message[i]]
        BY <2>2, <2>3
    <2>5. \A i \in 1 .. n : message[i] \in Nat
        BY <1>3, <1>4
    <2> QED  BY <1>2, <1>4, <2>1, <2>4, <2>5
<1>6. TypeOK'
    BY <1>1, <1>2, <1>5 DEF TypeOK
<1>7. SentRight'
    BY <1>1, <1>2 DEF SentRight
<1>8. MessageRight'
    <2>1. PICK off : Laid(Codes(sent), Len(sent), off, message)
        BY <1>1 DEF MessageRight
    <2>2. off[1] = 1
        BY <2>1 DEF Laid
    <2>3. Stands(left', message, 1)
        <3>1. 1 + Len(left') <= Len(message) + 1
            BY <1>4, <1>5
        <3>2. ASSUME NEW i \in 0 .. Len(left') - 1 PROVE message[1 + i] = left'[i + 1]
            <4>1. i + 1 \in 1 .. n /\ 1 + i = i + 1
                BY <1>4, <1>5
            <4> QED  BY <1>5, <4>1
        <3> QED  BY <3>1, <3>2 DEF Stands
    <2>4. Stands(left', message', off[Len(read') + 1])
        <3>1. Len(read') + 1 = 1
            BY <1>2, <1>4
        <3> QED  BY <1>2, <2>2, <2>3, <3>1
    <2>5. Laid(Codes(sent'), Len(sent'), off, message')
        BY <1>2, <2>1
    <2> QED  BY <2>4, <2>5 DEF MessageRight
<1>9. FramesRight' /\ ValuesRight' /\ PayloadRight'
    <2>1. Len(read') = 0 /\ phase' = "frames" /\ Len(sent') >= 0 /\ \A i : ~(i \in 1 .. 0)
        BY <1>2, <1>4
    <2> QED  BY <2>1 DEF FramesRight, ValuesRight, PayloadRight
<1> QED  BY <1>6, <1>7, <1>8, <1>9 DEF IInv

(* What is left of the message begins with the next frame.                 *)
LEMMA NextIsThere ==
    ASSUME IInv, phase # "write"
    PROVE  \E off :
              /\ Laid(Codes(sent), Len(sent), off, message)
              /\ Stands(left, message, off[Len(read) + 1])
              /\ off[Len(read) + 1] \in Nat \ {0}
              /\ Len(read) = Len(sent) => left = <<>>
              /\ Len(read) < Len(sent) =>
                    LET f == sent[Len(read) + 1].frame
                    IN  /\ f \in Frames /\ IsFrame(f)
                        /\ StartsLike(left, EncodeFrame(f))
                        /\ off[(Len(read) + 1) + 1] = off[Len(read) + 1] + HeaderSize + Len(f.payload)
<1>1. TypeOK /\ SentRight /\ MessageRight /\ FramesRight
    BY DEF IInv
<1>2. /\ sent \in Seq([frame : Frames, values : Seq(Values), whole : BOOLEAN])
      /\ message \in Seq(Nat) /\ left \in Seq(Nat)
      /\ read \in Seq([frame : Frames, values : Seq(ReadBack)])
    BY <1>1 DEF TypeOK
<1>3. PICK m \in Nat, r \in Nat : m = Len(sent) /\ r = Len(read) /\ r <= m
    BY <1>1, <1>2, LenProperties DEF FramesRight
<1>4. PICK off : Laid(Codes(sent), m, off, message) /\ Stands(left, message, off[r + 1])
    BY <1>1, <1>3 DEF MessageRight
<1>5. /\ off \in [1 .. m + 1 -> Nat \ {0}] /\ off[m + 1] = Len(message) + 1
      /\ \A i \in 1 .. m : /\ off[i + 1] = off[i] + Len(Codes(sent)[i])
                           /\ Stands(Codes(sent)[i], message, off[i])
    BY <1>4 DEF Laid
<1>6. PICK p \in Nat \ {0} : p = off[r + 1]
    <2>1. r + 1 \in 1 .. m + 1
        BY <1>3
    <2> QED  BY <1>5, <2>1
<1>7. Len(left) \in Nat /\ Len(message) \in Nat /\ p + Len(left) <= Len(message) + 1
    BY <1>2, <1>4, <1>6, LenProperties DEF Stands
<1>8. ASSUME r = m PROVE left = <<>>
    <2>1. Len(left) = 0
        BY <1>5, <1>6, <1>7, <1>8
    <2> QED  BY <1>2, <2>1, EmptySeq
<1>9. ASSUME r < m, NEW f, f = sent[r + 1].frame
      PROVE  /\ f \in Frames /\ IsFrame(f)
             /\ StartsLike(left, EncodeFrame(f))
             /\ off[(r + 1) + 1] = p + HeaderSize + Len(f.payload)
    <2>1. r + 1 \in 1 .. m
        BY <1>3, <1>9
    <2>2. IsFrame(f)
        BY <1>1, <1>3, <1>9, <2>1 DEF SentRight, FrameLaid
    <2>3. f \in Frames
        BY <2>2 DEF IsFrame, Frames
    <2>4. PICK code \in Seq(Nat) : /\ code = EncodeFrame(f) /\ Len(code) = HeaderSize + Len(f.payload)
                                   /\ Len(code) \in Nat
        BY <2>2, EncodedFrame, LenProperties
    <2>5. Codes(sent)[r + 1] = code
        BY <1>3, <1>9, <2>1, <2>4 DEF Codes
    <2>6. Stands(code, message, p) /\ off[(r + 1) + 1] = p + Len(code)
        BY <1>5, <1>6, <2>1, <2>5
    <2>7. ASSUME NEW i \in 1 .. Len(left), i <= Len(code) PROVE left[i] = code[i]
        <3>1. i - 1 \in 0 .. Len(left) - 1 /\ i - 1 \in 0 .. Len(code) - 1 /\ (i - 1) + 1 = i
            BY <1>7, <2>4, <2>7
        <3>2. message[p + (i - 1)] = left[i]
            BY <1>4, <1>6, <3>1 DEF Stands
        <3>3. message[p + (i - 1)] = code[i]
            BY <2>6, <3>1 DEF Stands
        <3> QED  BY <3>2, <3>3
    <2>8. StartsLike(left, EncodeFrame(f))
        BY <2>4, <2>7 DEF StartsLike
    <2>9. off[(r + 1) + 1] = p + HeaderSize + Len(f.payload)
        <3>1. PICK x \in Nat : x = Len(f.payload)
            BY <2>2, LenProperties DEF IsFrame
        <3>2. p + (13 + x) = p + 13 + x
            OBVIOUS
        <3> QED  BY <2>4, <2>6, <3>1, <3>2 DEF HeaderSize
    <2> QED  BY <2>2, <2>3, <2>8, <2>9
<1> QED  BY <1>3, <1>4, <1>6, <1>8, <1>9

LEMMA NextFrameKeeps ==
    ASSUME IInv, NextFrame
    PROVE  IInv'
<1>1. TypeOK /\ SentRight /\ MessageRight /\ FramesRight /\ ValuesRight
    BY DEF IInv
<1>2. /\ sent \in Seq([frame : Frames, values : Seq(Values), whole : BOOLEAN])
      /\ message \in Seq(Nat) /\ left \in Seq(Nat)
      /\ read \in Seq([frame : Frames, values : Seq(ReadBack)])
    BY <1>1 DEF TypeOK
<1>3. PICK m \in Nat, r \in Nat : m = Len(sent) /\ r = Len(read) /\ r <= m
    BY <1>1, <1>2, LenProperties DEF FramesRight
<1>4. PICK found : found = DecodeFrame(left)
    OBVIOUS
<1>5. phase = "frames" /\ sent' = sent /\ message' = message
    BY DEF NextFrame
<1>6. PICK off : /\ Laid(Codes(sent), m, off, message) /\ Stands(left, message, off[r + 1])
                 /\ off[r + 1] \in Nat \ {0}
                 /\ r = m => left = <<>>
                 /\ r < m => LET f == sent[r + 1].frame
                             IN  /\ f \in Frames /\ IsFrame(f)
                                 /\ StartsLike(left, EncodeFrame(f))
                                 /\ off[(r + 1) + 1] = off[r + 1] + HeaderSize + Len(f.payload)
    BY <1>3, <1>5, NextIsThere
<1>7. SentRight'
    BY <1>1, <1>5 DEF SentRight
<1>8. Laid(Codes(sent'), Len(sent'), off, message')
    BY <1>3, <1>5, <1>6
<1>9. CASE left # <<>> /\ found.ok
    <2>1. r < m
        BY <1>3, <1>6, <1>9
    <2>2. PICK f : /\ f = sent[r + 1].frame /\ f \in Frames /\ IsFrame(f)
                   /\ StartsLike(left, EncodeFrame(f))
                   /\ off[(r + 1) + 1] = off[r + 1] + HeaderSize + Len(f.payload)
        BY <1>6, <2>1
    <2>3. PICK size \in Nat : size = HeaderSize + Len(f.payload) /\ f.payload \in Seq(Nat)
                              /\ Len(f.payload) \in Nat
        BY <2>2, LenProperties DEF IsFrame, HeaderSize
    <2>4. found = IF Len(left) >= size THEN Found(f, size) ELSE Failed
        BY <1>2, <1>4, <2>2, <2>3, FrameRoundTrip
    <2>5. Len(left) >= size /\ found = Found(f, size)
        <3>1. Failed.ok = FALSE
            BY DEF Failed
        <3> QED  BY <1>9, <2>4, <3>1
    <2>6. found.value = f /\ found.next = size
        BY <2>5 DEF Found
    <2>7. /\ left' = SubSeq(left, size + 1, Len(left)) /\ payload' = f.payload
          /\ read' = Append(read, [frame |-> f, values |-> <<>>]) /\ phase' = "header"
        BY <1>4, <1>9, <2>6 DEF NextFrame
    <2>8. PICK entry : entry = [frame |-> f, values |-> <<>>]
        OBVIOUS
    <2>9. entry \in [frame : Frames, values : Seq(ReadBack)] /\ entry.values = <<>> /\ Len(entry.values) = 0
          /\ entry.frame = f
        BY <2>2, <2>8
    <2>10. /\ read' \in Seq([frame : Frames, values : Seq(ReadBack)])
           /\ Len(read') = r + 1 /\ read'[r + 1] = entry /\ \A i \in 1 .. r : read'[i] = read[i]
        BY <1>2, <1>3, <2>7, <2>8, <2>9, AppendProperties
    <2>11. Len(left) \in Nat /\ size + 1 \in 1 .. Len(left) + 1
        BY <1>2, <2>3, <2>5, LenProperties
    <2>12. /\ left' \in Seq(Nat) /\ Len(left') = Len(left) - (size + 1) + 1
           /\ \A i \in 1 .. Len(left) - (size + 1) + 1 : left'[i] = left[i + (size + 1) - 1]
        BY <1>2, <2>7, <2>11, Suffix
    <2>13. TypeOK'
        BY <1>1, <1>5, <2>3, <2>7, <2>10, <2>12 DEF TypeOK
    <2>14. MessageRight'
        <3>1. PICK p \in Nat \ {0} : p = off[r + 1]
            BY <1>6
        <3>2. off[(r + 1) + 1] = p + size
            <4>1. PICK x \in Nat : x = Len(f.payload)
                BY <2>3
            <4>2. p + 13 + x = p + (13 + x)
                BY <3>1
            <4> QED  BY <2>2, <2>3, <3>1, <4>1, <4>2 DEF HeaderSize
        <3>3. Stands(left, message, p) /\ Len(message) \in Nat /\ p + Len(left) <= Len(message) + 1
            BY <1>2, <1>6, <3>1, LenProperties DEF Stands
        <3>4. p + size + Len(left') <= Len(message) + 1
            BY <2>11, <2>12, <3>3
        <3>5. ASSUME NEW i \in 0 .. Len(left') - 1 PROVE message[p + size + i] = left'[i + 1]
            <4>0. PICK whole \in Nat, rest \in Nat :
                      whole = Len(left) /\ rest = Len(left') /\ rest = whole - (size + 1) + 1
                BY <2>11, <2>12, LenProperties
            <4>1. /\ i + 1 \in 1 .. whole - (size + 1) + 1 /\ (i + 1) + (size + 1) - 1 = size + i + 1
                  /\ size + i \in 0 .. whole - 1 /\ p + (size + i) = p + size + i
                BY <4>0
            <4>2. left'[i + 1] = left[size + i + 1]
                BY <2>12, <4>0, <4>1
            <4>3. size + i \in 0 .. Len(left) - 1 /\ p + (size + i) = p + size + i
                BY <4>0, <4>1
            <4>4. message[p + (size + i)] = left[(size + i) + 1]
                BY <3>3, <4>3 DEF Stands
            <4> QED  BY <4>2, <4>3, <4>4
        <3>6. Stands(left', message, p + size)
            BY <3>4, <3>5 DEF Stands
        <3>7. Stands(left', message', off[Len(read') + 1])
            BY <1>5, <2>10, <3>2, <3>6
        <3> QED  BY <1>8, <3>7 DEF MessageRight
    <2>15. FramesRight'
        <3>1. Len(sent') = m /\ r + 1 <= m /\ phase' # "write" /\ phase' # "end"
            BY <1>3, <1>5, <2>1, <2>7
        <3>2. ASSUME NEW i \in 1 .. r + 1 PROVE read'[i].frame = sent'[i].frame
            <4>1. CASE i = r + 1
                BY <1>5, <2>2, <2>9, <2>10, <4>1
            <4>2. CASE i # r + 1
                <5>1. i \in 1 .. r
                    BY <4>2
                <5> QED  BY <1>1, <1>3, <1>5, <2>10, <5>1 DEF FramesRight
            <4> QED  BY <4>1, <4>2
        <3> QED  BY <2>10, <3>1, <3>2 DEF FramesRight
    <2>16. ValuesRight'
        <3>1. ASSUME NEW i \in 1 .. r + 1
              PROVE  /\ Right(read'[i].values, sent'[i])
                     /\ sent'[i].whole /\ Past(i)' => Len(read'[i].values) = 2
            <4>1. CASE i = r + 1
                <5>1. Len(read'[i].values) = 0
                    BY <2>9, <2>10, <4>1
                <5>2. ~Past(i)'
                    BY <2>7, <2>10, <4>1 DEF Past
                <5> QED  BY <5>1, <5>2 DEF Right
            <4>2. CASE i # r + 1
                <5>1. i \in 1 .. r /\ Past(i)
                    BY <1>5, <4>2 DEF Past
                <5>2. /\ Right(read[i].values, sent[i])
                      /\ sent[i].whole => Len(read[i].values) = 2
                    BY <1>1, <1>3, <5>1 DEF ValuesRight
                <5> QED  BY <1>5, <2>10, <5>1, <5>2
            <4> QED  BY <4>1, <4>2
        <3> QED  BY <2>10, <3>1 DEF ValuesRight
    <2>17. PayloadRight'
        <3>1. r + 1 \in 1 .. Len(sent)
            BY <1>3, <2>1
        <3>2. PICK e : e = sent[r + 1]
            OBVIOUS
        <3>3. PICK full, at : Layout(e, full, at)
            BY <1>1, <3>1, <3>2 DEF SentRight, FrameLaid
        <3>4. at[1] = 1
            BY <3>3 DEF Layout, Laid
        <3>5. e.frame.payload = payload' /\ payload' = f.payload
            BY <2>2, <2>7, <3>2
        <3>6. LeftOf(e, at, 0, payload')
            <4>1. Stands(f.payload, f.payload, 1) /\ 1 + Len(f.payload) = Len(f.payload) + 1
                BY <2>3, StandsWhole
            <4>2. at[0 + 1] = 1
                BY <3>4
            <4> QED  BY <3>5, <4>1, <4>2 DEF LeftOf
        <3>7. /\ sent'[Len(read')] = e /\ Len(read'[Len(read')].values) = 0 /\ Len(read') >= 1
            BY <1>3, <1>5, <2>9, <2>10, <3>2
        <3>8. PayloadHas(0)'
            BY <1>5, <3>3, <3>6, <3>7 DEF PayloadHas
        <3> QED  BY <2>7, <3>8 DEF PayloadRight
    <2> QED  BY <1>7, <2>13, <2>14, <2>15, <2>16, <2>17 DEF IInv
<1>10. CASE ~(left # <<>> /\ found.ok)
    <2>1. phase' = "end" /\ left' = left /\ payload' = payload /\ read' = read
        BY <1>4, <1>10 DEF NextFrame
    <2>2. TypeOK'
        BY <1>1, <1>5, <2>1 DEF TypeOK
    <2>3. MessageRight'
        BY <1>3, <1>6, <1>8, <1>5, <2>1 DEF MessageRight
    <2>4. ASSUME r < m PROVE Len(left) < HeaderSize + Len(sent[r + 1].frame.payload)
        <3>1. PICK f : f = sent[r + 1].frame /\ IsFrame(f) /\ StartsLike(left, EncodeFrame(f))
            BY <1>6, <2>4
        <3>2. PICK size \in Nat : size = HeaderSize + Len(f.payload) /\ size >= 13
            BY <3>1, LenProperties DEF IsFrame, HeaderSize
        <3>3. found = IF Len(left) >= size THEN Found(f, size) ELSE Failed
            BY <1>2, <1>4, <3>1, <3>2, FrameRoundTrip
        <3>4. CASE left = <<>>
            BY <3>1, <3>2, <3>4
        <3>5. CASE left # <<>>
            <4>1. ~found.ok
                BY <1>10, <3>5
            <4>2. Found(f, size).ok
                BY DEF Found
            <4>3. Len(left) \in Nat
                BY <1>2, LenProperties
            <4> QED  BY <3>1, <3>2, <3>3, <4>1, <4>2, <4>3
        <3> QED  BY <3>4, <3>5
    <2>5. FramesRight'
        BY <1>1, <1>3, <1>5, <2>1, <2>4 DEF FramesRight
    <2>6. ValuesRight'
        BY <1>1, <1>5, <2>1 DEF ValuesRight, Past
    <2>7. PayloadRight'
        BY <2>1 DEF PayloadRight
    <2> QED  BY <1>7, <2>2, <2>3, <2>5, <2>6, <2>7 DEF IInv
<1> QED  BY <1>9, <1>10

(* A value joins those of the frame that was decoded last.                 *)
LEMMA ValueJoins ==
    ASSUME IInv, phase \in {"header", "body"}, phase' \in {"body", "frames"},
           NEW x \in ReadBack,
           read' = [read EXCEPT ![Len(read)].values = Append(@, x)],
           sent' = sent, message' = message, left' = left, payload' \in Seq(Nat)
    PROVE  /\ TypeOK' /\ SentRight' /\ MessageRight' /\ FramesRight'
           /\ Len(read) \in Nat /\ Len(read) >= 1 /\ Len(read') = Len(read)
           /\ \A i \in 1 .. Len(read) : i # Len(read) => read'[i] = read[i]
           /\ \E got \in Seq(ReadBack), more \in Seq(ReadBack) :
                 /\ got = read[Len(read)].values /\ more = read'[Len(read)].values
                 /\ more = Append(got, x) /\ Len(more) = Len(got) + 1 /\ more[Len(got) + 1] = x
                 /\ \A j \in 1 .. Len(got) : more[j] = got[j]
<1>1. TypeOK /\ SentRight /\ MessageRight /\ FramesRight /\ PayloadRight
    BY DEF IInv
<1>2. read \in Seq([frame : Frames, values : Seq(ReadBack)])
    BY <1>1 DEF TypeOK
<1>3. PICK m \in Nat, r \in Nat : m = Len(sent) /\ r = Len(read) /\ r <= m
    <2>1. sent \in Seq([frame : Frames, values : Seq(Values), whole : BOOLEAN])
        BY <1>1 DEF TypeOK
    <2> QED  BY <1>1, <1>2, <2>1, LenProperties DEF FramesRight
<1>4. r >= 1 /\ r \in 1 .. r
    <2>1. Len(read) >= 1
        BY <1>1 DEF PayloadRight, PayloadHas
    <2> QED  BY <1>3, <2>1
<1>5. PICK entry : entry = read[r] /\ entry \in [frame : Frames, values : Seq(ReadBack)]
    BY <1>2, <1>3, <1>4, ElementOfSeq
<1>6. PICK got \in Seq(ReadBack) : got = entry.values
    BY <1>5
<1>7. PICK k \in Nat : k = Len(got)
    BY <1>6, LenProperties
<1>8. PICK more : more = Append(got, x)
    OBVIOUS
<1>9. /\ more \in Seq(ReadBack) /\ Len(more) = k + 1 /\ more[k + 1] = x
      /\ \A j \in 1 .. k : more[j] = got[j]
    BY <1>6, <1>7, <1>8, AppendProperties
<1>10. PICK changed : changed = [entry EXCEPT !.values = more]
    OBVIOUS
<1>11. /\ changed \in [frame : Frames, values : Seq(ReadBack)]
       /\ changed.values = more /\ changed.frame = entry.frame
    BY <1>5, <1>9, <1>10
<1>12. /\ read' \in Seq([frame : Frames, values : Seq(ReadBack)]) /\ Len(read') = r
       /\ \A i \in 1 .. r : read'[i] = IF i = r THEN changed ELSE read[i]
    <2>1. PICK S : S = [frame : Frames, values : Seq(ReadBack)]
        OBVIOUS
    <2>2. read \in Seq(S) /\ r \in 1 .. Len(read) /\ changed \in S
        BY <1>2, <1>3, <1>4, <1>11, <2>1
    <2>3. read' = [read EXCEPT ![r] = changed]
        <3>1. read' = [read EXCEPT ![r] = [read[r] EXCEPT !.values = Append(read[r].values, x)]]
            BY <1>3
        <3> QED  BY <1>5, <1>6, <1>8, <1>10, <3>1
    <2>4. /\ [read EXCEPT ![r] = changed] \in Seq(S)
          /\ Len([read EXCEPT ![r] = changed]) = Len(read)
          /\ \A i \in 1 .. Len(read) :
                [read EXCEPT ![r] = changed][i] = IF i = r THEN changed ELSE read[i]
        BY <2>2, ExceptSeq
    <2> QED  BY <1>3, <2>1, <2>3, <2>4
<1>13. TypeOK'
    BY <1>1, <1>12 DEF TypeOK
<1>14. SentRight'
    BY <1>1 DEF SentRight
<1>15. MessageRight'
    BY <1>1, <1>3, <1>12 DEF MessageRight
<1>16. FramesRight'
    <2>1. ASSUME NEW i \in 1 .. r PROVE read'[i].frame = sent'[i].frame
        <3>1. read[i].frame = sent[i].frame
            BY <1>1, <1>3 DEF FramesRight
        <3>2. read'[i].frame = read[i].frame
            BY <1>5, <1>11, <1>12
        <3> QED  BY <3>1, <3>2
    <2>2. phase' # "write" /\ phase' # "end"
        OBVIOUS
    <2> QED  BY <1>3, <1>12, <2>1, <2>2 DEF FramesRight
<1>17. \A i \in 1 .. Len(read) : i # Len(read) => read'[i] = read[i]
    BY <1>3, <1>12
<1>18. got = read[Len(read)].values /\ more = read'[Len(read)].values
    BY <1>3, <1>4, <1>5, <1>6, <1>11, <1>12
<1>19. Len(more) = Len(got) + 1 /\ more[Len(got) + 1] = x /\ \A j \in 1 .. Len(got) : more[j] = got[j]
    BY <1>7, <1>9
<1>20. \E g \in Seq(ReadBack), q \in Seq(ReadBack) :
          /\ g = read[Len(read)].values /\ q = read'[Len(read)].values
          /\ q = Append(g, x) /\ Len(q) = Len(g) + 1 /\ q[Len(g) + 1] = x
          /\ \A j \in 1 .. Len(g) : q[j] = g[j]
    BY <1>6, <1>8, <1>9, <1>18, <1>19, Zenon
<1>21. Len(read) \in Nat /\ Len(read) >= 1 /\ Len(read') = Len(read)
    BY <1>3, <1>4, <1>12
<1> QED  BY <1>13, <1>14, <1>15, <1>16, <1>17, <1>20, <1>21, Zenon

(* What dispatchLoop finds where the payload has its k-th value.           *)
LEMMA ValueFound ==
    ASSUME IInv, NEW k \in 0 .. 1, PayloadHas(k)
    PROVE  \E e : /\ e = sent[Len(read)] /\ e.values \in Seq(Values) /\ Len(e.values) \in Nat
                  /\ Len(e.values) >= 1
                  /\ \E full, at :
                        /\ Layout(e, full, at) /\ LeftOf(e, at, k, payload)
                        /\ Deserialize(payload)[1].ok =>
                              \E v \in Values :
                                  /\ k + 1 \in 1 .. Len(e.values) /\ v = e.values[k + 1]
                                  /\ Deserialize(payload)[1] = Found(Normal[v], 1 + Len(Serialize[v]))
                                  /\ Len(Serialize[v]) \in Nat /\ Len(Serialize[v]) <= Len(payload)
                                  /\ at[(k + 1) + 1] = at[k + 1] + Len(Serialize[v])
                        /\ ~Deserialize(payload)[1].ok /\ e.whole => k = Len(e.values)
<1>1. TypeOK /\ SentRight /\ FramesRight
    BY DEF IInv
<1>2. /\ sent \in Seq([frame : Frames, values : Seq(Values), whole : BOOLEAN])
      /\ payload \in Seq(Nat)
      /\ read \in Seq([frame : Frames, values : Seq(ReadBack)])
    BY <1>1 DEF TypeOK
<1>3. PICK r \in Nat : r = Len(read) /\ r \in 1 .. Len(sent)
    BY <1>1, <1>2, LenProperties DEF FramesRight, PayloadHas
<1>4. PICK e : e = sent[r] /\ e \in [frame : Frames, values : Seq(Values), whole : BOOLEAN]
    BY <1>2, <1>3, ElementOfSeq
<1>5. e.values \in Seq(Values) /\ Len(e.values) \in Nat
    BY <1>4, LenProperties
<1>6. Len(e.values) >= 1
    BY <1>1, <1>3, <1>4 DEF SentRight, FrameLaid
<1>7. PICK full, at : Layout(e, full, at) /\ LeftOf(e, at, k, payload)
    BY <1>3, <1>4 DEF PayloadHas
<1>8. k \in 0 .. Len(e.values)
    BY <1>5, <1>6
<1>9. /\ Deserialize(payload)[1].ok =>
            /\ k + 1 \in 1 .. Len(e.values)
            /\ Deserialize(payload)[1]
                   = Found(Normal[e.values[k + 1]], 1 + Len(Serialize[e.values[k + 1]]))
            /\ Len(Serialize[e.values[k + 1]]) <= Len(payload)
            /\ at[(k + 1) + 1] = at[k + 1] + Len(Serialize[e.values[k + 1]])
      /\ ~Deserialize(payload)[1].ok /\ e.whole => k = Len(e.values)
    BY <1>2, <1>5, <1>7, <1>8, ValueRead, Zenon
<1>10. ASSUME Deserialize(payload)[1].ok
       PROVE  \E v \in Values :
                 /\ k + 1 \in 1 .. Len(e.values) /\ v = e.values[k + 1]
                 /\ Deserialize(payload)[1] = Found(Normal[v], 1 + Len(Serialize[v]))
                 /\ Len(Serialize[v]) \in Nat /\ Len(Serialize[v]) <= Len(payload)
                 /\ at[(k + 1) + 1] = at[k + 1] + Len(Serialize[v])
    <2>1. PICK v \in Values : v = e.values[k + 1]
        BY <1>5, <1>9, <1>10, ElementOfSeq
    <2>2. Len(Serialize[v]) \in Nat
        BY ValueRoundTrip, LenProperties DEF Survives
    <2> QED  BY <1>9, <1>10, <2>1, <2>2, Zenon
<1>11. e = sent[Len(read)]
    BY <1>3, <1>4
<1> QED  BY <1>5, <1>6, <1>7, <1>9, <1>10, <1>11, Zenon

(* The frames before the last are as they were.                            *)
LEMMA OthersRight ==
    ASSUME IInv, NEW i \in 1 .. Len(read), i < Len(read),
           read'[i] = read[i], sent' = sent, Len(read') = Len(read)
    PROVE  /\ Right(read'[i].values, sent'[i])
           /\ sent'[i].whole => Len(read'[i].values) = 2
BY DEF IInv, ValuesRight, Past

LEMMA NextHeaderKeeps ==
    ASSUME IInv, NextHeader
    PROVE  IInv'
<1>1. TypeOK /\ SentRight /\ MessageRight /\ FramesRight /\ ValuesRight /\ PayloadRight
    BY DEF IInv
<1>2. PICK found : found = Deserialize(payload)[1]
    OBVIOUS
<1>3. phase = "header" /\ sent' = sent /\ message' = message /\ left' = left
    BY DEF NextHeader
<1>4. PayloadHas(0)
    BY <1>1, <1>3 DEF PayloadRight
<1>5. PICK e, full, at :
         /\ e = sent[Len(read)] /\ e.values \in Seq(Values) /\ Len(e.values) \in Nat
         /\ Len(e.values) >= 1
         /\ Layout(e, full, at) /\ LeftOf(e, at, 0, payload)
         /\ found.ok =>
               \E v \in Values :
                   /\ 0 + 1 \in 1 .. Len(e.values) /\ v = e.values[0 + 1]
                   /\ found = Found(Normal[v], 1 + Len(Serialize[v]))
                   /\ Len(Serialize[v]) \in Nat /\ Len(Serialize[v]) <= Len(payload)
                   /\ at[(0 + 1) + 1] = at[0 + 1] + Len(Serialize[v])
         /\ ~found.ok /\ e.whole => 0 = Len(e.values)
    <2>1. 0 \in 0 .. 1
        OBVIOUS
    <2> QED  BY <1>2, <1>4, <2>1, ValueFound, Zenon
<1>6. payload \in Seq(Nat) /\ Len(payload) \in Nat
    BY <1>1, LenProperties DEF TypeOK
<1>7. PICK r \in Nat : r = Len(read) /\ r >= 1
    <2>1. read \in Seq([frame : Frames, values : Seq(ReadBack)])
        BY <1>1 DEF TypeOK
    <2> QED  BY <1>4, <2>1, LenProperties DEF PayloadHas
<1>8. CASE found.ok
    <2>1. PICK v \in Values, size \in Nat :
             /\ v = e.values[1] /\ size = Len(Serialize[v])
             /\ found = Found(Normal[v], 1 + size)
             /\ size <= Len(payload) /\ at[1 + 1] = at[0 + 1] + size
        <3>1. 0 + 1 = 1
            OBVIOUS
        <3> QED  BY <1>5, <1>8, <3>1
    <2>2. found.value = Normal[v] /\ found.next = 1 + size
        <3>1. PICK value, next : value = Normal[v] /\ next = 1 + size
            OBVIOUS
        <3>2. found = Found(value, next)
            BY <2>1, <3>1
        <3> QED  BY <3>1, <3>2 DEF Found
    <2>3. /\ payload' = SubSeq(payload, size + 1, Len(payload)) /\ phase' = "body"
          /\ read' = [read EXCEPT ![Len(read)].values = Append(@, Normal[v])]
        <3>1. /\ payload' = SubSeq(payload, found.next, Len(payload)) /\ phase' = "body"
              /\ read' = [read EXCEPT ![Len(read)].values = Append(@, found.value)]
            BY <1>2, <1>8 DEF NextHeader
        <3>2. 1 + size = size + 1
            OBVIOUS
        <3> QED  BY <2>2, <3>1, <3>2
    <2>4. size + 1 \in 1 .. Len(payload) + 1
        BY <1>6, <2>1
    <2>5. /\ payload' \in Seq(Nat) /\ Len(payload') = Len(payload) - (size + 1) + 1
          /\ \A i \in 1 .. Len(payload) - (size + 1) + 1 : payload'[i] = payload[i + (size + 1) - 1]
        BY <1>6, <2>3, <2>4, Suffix
    <2>6. Normal[v] \in ReadBack
        BY DEF ReadBack
    <2>7. /\ TypeOK' /\ SentRight' /\ MessageRight' /\ FramesRight' /\ Len(read') = r
          /\ \A i \in 1 .. r : i # r => read'[i] = read[i]
          /\ \E got \in Seq(ReadBack), more \in Seq(ReadBack) :
                /\ got = read[r].values /\ more = read'[r].values
                /\ Len(more) = Len(got) + 1 /\ more[Len(got) + 1] = Normal[v]
        <3>1. /\ phase \in {"header", "body"} /\ phase' \in {"body", "frames"}
              /\ read' = [read EXCEPT ![Len(read)].values = Append(@, Normal[v])]
              /\ sent' = sent /\ message' = message /\ left' = left /\ payload' \in Seq(Nat)
            BY <1>3, <2>3, <2>5
        <3>2. /\ TypeOK' /\ SentRight' /\ MessageRight' /\ FramesRight'
              /\ Len(read) \in Nat /\ Len(read) >= 1 /\ Len(read') = Len(read)
              /\ \A i \in 1 .. Len(read) : i # Len(read) => read'[i] = read[i]
              /\ \E got \in Seq(ReadBack), more \in Seq(ReadBack) :
                    /\ got = read[Len(read)].values /\ more = read'[Len(read)].values
                    /\ more = Append(got, Normal[v]) /\ Len(more) = Len(got) + 1 /\ more[Len(got) + 1] = Normal[v]
                    /\ \A j \in 1 .. Len(got) : more[j] = got[j]
            BY <2>6, <3>1, ValueJoins
        <3>3. PICK got \in Seq(ReadBack), more \in Seq(ReadBack) :
                   /\ got = read[Len(read)].values /\ more = read'[Len(read)].values
                   /\ Len(more) = Len(got) + 1 /\ more[Len(got) + 1] = Normal[v]
                   /\ \A j \in 1 .. Len(got) : more[j] = got[j]
            BY <3>2, Zenon
        <3> QED  BY <1>7, <3>2, <3>3
    <2>8. Len(read'[r].values) = 1 /\ read'[r].values[1] = Normal[v]
        <3>1. Len(read[r].values) = 0
            BY <1>4, <1>7 DEF PayloadHas
        <3> QED  BY <2>7, <3>1
    <2>9. ValuesRight'
        <3>1. ASSUME NEW i \in 1 .. r
              PROVE  /\ Right(read'[i].values, sent'[i])
                     /\ sent'[i].whole /\ Past(i)' => Len(read'[i].values) = 2
            <4>1. CASE i = r
                <5>1. ~Past(i)'
                    BY <2>3, <2>7, <4>1 DEF Past
                <5>2. sent'[i] = e
                    BY <1>3, <1>5, <1>7, <4>1
                <5> QED  BY <2>1, <2>8, <4>1, <5>1, <5>2 DEF Right
            <4>2. CASE i # r
                <5>1. i < r /\ i \in 1 .. Len(read) /\ read'[i] = read[i] /\ Len(read') = Len(read)
                    BY <1>7, <2>7, <4>2
                <5> QED  BY <1>3, <1>7, <5>1, OthersRight
            <4> QED  BY <4>1, <4>2
        <3> QED  BY <2>7, <3>1 DEF ValuesRight
    <2>10. PayloadRight'
        <3>1. PICK body : body = e.frame.payload /\ Torn(body, full)
            BY <1>5 DEF Layout
        <3>2. body \in Seq(Nat) /\ Len(body) \in Nat
            BY <3>1, LenProperties DEF Torn
        <3>3. PICK p \in Nat \ {0} : p = at[0 + 1] /\ p = 1
            <4>1. at[1] = 1
                BY <1>5 DEF Layout, Laid
            <4> QED  BY <4>1
        <3>4. Stands(payload, body, p) /\ p + Len(payload) = Len(body) + 1
            BY <1>5, <3>1, <3>3 DEF LeftOf
        <3>5. p + size + Len(payload') = Len(body) + 1
            <4>1. PICK x \in Nat, y \in Nat, z \in Nat :
                     x = Len(payload) /\ y = Len(payload') /\ z = Len(body)
                BY <1>6, <2>5, <3>2, LenProperties
            <4>2. y = x - (size + 1) + 1 /\ p + x = z + 1
                BY <2>5, <3>4, <4>1
            <4>3. p + size + y = z + 1
                BY <4>2
            <4> QED  BY <4>1, <4>3
        <3>6. ASSUME NEW i \in 0 .. Len(payload') - 1 PROVE body[p + size + i] = payload'[i + 1]
            <4>1. i + 1 \in 1 .. Len(payload) - (size + 1) + 1 /\ (i + 1) + (size + 1) - 1 = size + i + 1
                BY <1>6, <2>5
            <4>2. payload'[i + 1] = payload[size + i + 1]
                BY <2>5, <4>1
            <4>3. size + i \in 0 .. Len(payload) - 1 /\ p + (size + i) = p + size + i
                BY <1>6, <2>5
            <4>4. body[p + (size + i)] = payload[(size + i) + 1]
                BY <3>4, <4>3 DEF Stands
            <4> QED  BY <4>2, <4>3, <4>4
        <3>7. Stands(payload', body, p + size)
            <4>1. p + size + Len(payload') <= Len(body) + 1
                BY <3>2, <3>5
            <4> QED  BY <3>6, <4>1 DEF Stands
        <3>8. LeftOf(e, at, 1, payload')
            BY <2>1, <3>1, <3>3, <3>5, <3>7 DEF LeftOf
        <3>9. PayloadHas(1)'
            <4>1. sent'[Len(read')] = e /\ Len(read'[Len(read')].values) = 1 /\ Len(read') >= 1
                BY <1>3, <1>5, <1>7, <2>7, <2>8
            <4> QED  BY <1>5, <3>8, <4>1 DEF PayloadHas
        <3> QED  BY <2>3, <3>9 DEF PayloadRight
    <2> QED  BY <2>7, <2>9, <2>10 DEF IInv
<1>9. CASE ~found.ok
    <2>1. phase' = "frames" /\ payload' = payload /\ read' = read
        BY <1>2, <1>9 DEF NextHeader
    <2>2. TypeOK'
        BY <1>1, <1>3, <2>1 DEF TypeOK
    <2>3. MessageRight'
        BY <1>1, <1>3, <2>1 DEF MessageRight
    <2>4. FramesRight' /\ SentRight'
        BY <1>1, <1>3, <2>1 DEF FramesRight, SentRight
    <2>5. ValuesRight'
        <3>1. ASSUME NEW i \in 1 .. r
              PROVE  /\ Right(read'[i].values, sent'[i])
                     /\ sent'[i].whole => Len(read'[i].values) = 2
            <4>1. CASE i = r
                <5>1. ~sent[i].whole
                    BY <1>5, <1>7, <1>9, <4>1
                <5>2. Right(read[i].values, sent[i])
                    BY <1>1, <1>7 DEF ValuesRight
                <5> QED  BY <1>3, <2>1, <5>1, <5>2
            <4>2. CASE i # r
                <5>1. i < r /\ i \in 1 .. Len(read) /\ read'[i] = read[i] /\ Len(read') = Len(read)
                    BY <1>7, <2>1, <4>2
                <5> QED  BY <1>3, <1>7, <5>1, OthersRight
            <4> QED  BY <4>1, <4>2
        <3> QED  BY <1>7, <2>1, <3>1 DEF ValuesRight
    <2>6. PayloadRight'
        BY <2>1 DEF PayloadRight
    <2> QED  BY <2>2, <2>3, <2>4, <2>5, <2>6 DEF IInv
<1> QED  BY <1>8, <1>9

LEMMA NextBodyKeeps ==
    ASSUME IInv, NextBody
    PROVE  IInv'
<1>1. TypeOK /\ SentRight /\ MessageRight /\ FramesRight /\ ValuesRight /\ PayloadRight
    BY DEF IInv
<1>2. PICK found : found = Deserialize(payload)[1]
    OBVIOUS
<1>3. /\ phase = "body" /\ sent' = sent /\ message' = message /\ left' = left
      /\ payload' = payload /\ phase' = "frames"
    BY DEF NextBody
<1>4. PayloadHas(1)
    BY <1>1, <1>3 DEF PayloadRight
<1>5. PICK e : /\ e = sent[Len(read)] /\ Len(e.values) \in Nat /\ Len(e.values) >= 1
               /\ found.ok =>
                     \E v \in Values : /\ 1 + 1 \in 1 .. Len(e.values) /\ v = e.values[1 + 1]
                                       /\ found = Found(Normal[v], 1 + Len(Serialize[v]))
               /\ ~found.ok /\ e.whole => 1 = Len(e.values)
    <2>1. 1 \in 0 .. 1
        OBVIOUS
    <2> QED  BY <1>2, <1>4, <2>1, ValueFound, Zenon
<1>6. PICK x : x = IF found.ok THEN found.value ELSE Nil
    OBVIOUS
<1>7. read' = [read EXCEPT ![Len(read)].values = Append(@, x)]
    BY <1>2, <1>6 DEF NextBody
<1>8. x \in ReadBack /\ (x = Second(e) \/ (x = Nil /\ ~e.whole))
    <2>1. CASE found.ok
        <3>1. PICK v \in Values : /\ 1 + 1 \in 1 .. Len(e.values) /\ v = e.values[2]
                                  /\ found = Found(Normal[v], 1 + Len(Serialize[v]))
            <4>1. 1 + 1 = 2
                OBVIOUS
            <4> QED  BY <1>5, <2>1, <4>1
        <3>2. x = Normal[v]
            <4>1. PICK value, next : value = Normal[v] /\ next = 1 + Len(Serialize[v])
                OBVIOUS
            <4>2. found = Found(value, next)
                BY <3>1, <4>1
            <4> QED  BY <1>6, <2>1, <4>1, <4>2 DEF Found
        <3>3. Second(e) = Normal[v]
            BY <1>5, <3>1 DEF Second
        <3> QED  BY <3>2, <3>3 DEF ReadBack
    <2>2. CASE ~found.ok
        <3>1. x = Nil
            BY <1>6, <2>2
        <3>2. e.whole => Second(e) = Nil
            BY <1>5, <2>2 DEF Second
        <3> QED  BY <3>1, <3>2 DEF ReadBack
    <2> QED  BY <2>1, <2>2
<1>9. PICK r \in Nat : r = Len(read) /\ r >= 1
    <2>1. read \in Seq([frame : Frames, values : Seq(ReadBack)])
        BY <1>1 DEF TypeOK
    <2> QED  BY <1>4, <2>1, LenProperties DEF PayloadHas
<1>10. /\ TypeOK' /\ SentRight' /\ MessageRight' /\ FramesRight' /\ Len(read') = r
       /\ \A i \in 1 .. r : i # r => read'[i] = read[i]
       /\ \E got \in Seq(ReadBack), more \in Seq(ReadBack) :
             /\ got = read[r].values /\ more = read'[r].values
             /\ Len(more) = Len(got) + 1 /\ more[Len(got) + 1] = x
             /\ \A j \in 1 .. Len(got) : more[j] = got[j]
    <2>1. /\ phase \in {"header", "body"} /\ phase' \in {"body", "frames"}
          /\ read' = [read EXCEPT ![Len(read)].values = Append(@, x)]
          /\ sent' = sent /\ message' = message /\ left' = left /\ payload' \in Seq(Nat)
        BY <1>1, <1>3, <1>7 DEF TypeOK
    <2>2. /\ TypeOK' /\ SentRight' /\ MessageRight' /\ FramesRight'
          /\ Len(read) \in Nat /\ Len(read) >= 1 /\ Len(read') = Len(read)
          /\ \A i \in 1 .. Len(read) : i # Len(read) => read'[i] = read[i]
          /\ \E got \in Seq(ReadBack), more \in Seq(ReadBack) :
                /\ got = read[Len(read)].values /\ more = read'[Len(read)].values
                /\ more = Append(got, x) /\ Len(more) = Len(got) + 1 /\ more[Len(got) + 1] = x
                /\ \A j \in 1 .. Len(got) : more[j] = got[j]
        BY <1>8, <2>1, ValueJoins
    <2>3. PICK got \in Seq(ReadBack), more \in Seq(ReadBack) :
               /\ got = read[Len(read)].values /\ more = read'[Len(read)].values
               /\ Len(more) = Len(got) + 1 /\ more[Len(got) + 1] = x
               /\ \A j \in 1 .. Len(got) : more[j] = got[j]
        BY <2>2, Zenon
    <2> QED  BY <1>9, <2>2, <2>3
<1>11. Len(read'[r].values) = 2 /\ read'[r].values[1] = Normal[e.values[1]] /\ read'[r].values[2] = x
    <2>1. Len(read[r].values) = 1
        BY <1>4, <1>9 DEF PayloadHas
    <2>2. Right(read[r].values, e)
        BY <1>1, <1>5, <1>9 DEF ValuesRight
    <2>3. read[r].values[1] = Normal[e.values[1]]
        BY <2>1, <2>2 DEF Right
    <2> QED  BY <1>10, <2>1, <2>3
<1>12. ValuesRight'
    <2>1. ASSUME NEW i \in 1 .. r
          PROVE  /\ Right(read'[i].values, sent'[i])
                 /\ sent'[i].whole => Len(read'[i].values) = 2
        <3>1. CASE i = r
            <4>1. sent'[i] = e
                BY <1>3, <1>5, <1>9, <3>1
            <4> QED  BY <1>8, <1>11, <3>1, <4>1 DEF Right
        <3>2. CASE i # r
            <4>1. i < r /\ i \in 1 .. Len(read) /\ read'[i] = read[i] /\ Len(read') = Len(read)
                BY <1>9, <1>10, <3>2
            <4> QED  BY <1>3, <1>9, <4>1, OthersRight
        <3> QED  BY <3>1, <3>2
    <2> QED  BY <1>10, <2>1 DEF ValuesRight
<1>13. PayloadRight'
    BY <1>3 DEF PayloadRight
<1> QED  BY <1>10, <1>12, <1>13 DEF IInv

LEMMA NextKeeps == IInv /\ [Next]_vars => IInv'
<1> SUFFICES ASSUME IInv, [Next]_vars PROVE IInv'
    OBVIOUS
<1>1. ASSUME NEW n \in 1 .. MaxValues, NEW lost \in 0 .. MaxLost, NEW vs \in [1 .. n -> Values],
             Send(vs, lost)
      PROVE  IInv'
    <2>1. n \in Nat /\ lost \in Nat
        BY BoundAssumption
    <2>2. vs \in Seq(Values) /\ Len(vs) >= 1
        BY <2>1
    <2> QED  BY <1>1, <2>1, <2>2, SendKeeps
<1>2. ASSUME NEW n \in 1 .. Len(message), Arrive(n) PROVE IInv'
    BY <1>2, ArriveKeeps
<1>3. CASE NextFrame
    BY <1>3, NextFrameKeeps
<1>4. CASE NextHeader
    BY <1>4, NextHeaderKeeps
<1>5. CASE NextBody
    BY <1>5, NextBodyKeeps
<1>6. CASE UNCHANGED vars
    <2>1. /\ sent' = sent /\ message' = message /\ left' = left /\ payload' = payload
          /\ read' = read /\ phase' = phase
        BY <1>6 DEF vars
    <2>2. TypeOK' /\ SentRight'
        BY <2>1 DEF IInv, TypeOK, SentRight
    <2>3. MessageRight'
        BY <2>1 DEF IInv, MessageRight
    <2>4. FramesRight'
        BY <2>1 DEF IInv, FramesRight
    <2>5. ValuesRight' /\ PayloadRight'
        BY <2>1 DEF IInv, ValuesRight, Past, PayloadRight, PayloadHas
    <2> QED  BY <2>2, <2>3, <2>4, <2>5 DEF IInv
<1> QED  BY <1>1, <1>2, <1>3, <1>4, <1>5, <1>6 DEF Next

LEMMA InvariantImplies == IInv => RoundTrip
<1> SUFFICES ASSUME IInv PROVE RoundTrip
    OBVIOUS
<1>1. TypeOK /\ FramesRight /\ ValuesRight
    BY DEF IInv
<1>2. /\ sent \in Seq([frame : Frames, values : Seq(Values), whole : BOOLEAN])
      /\ read \in Seq([frame : Frames, values : Seq(ReadBack)])
    BY <1>1 DEF TypeOK
<1>3. PICK m \in Nat, r \in Nat : /\ m = Len(sent) /\ r = Len(read) /\ r <= m
                                  /\ DOMAIN read = 1 .. r /\ DOMAIN sent = 1 .. m
    BY <1>1, <1>2, LenProperties DEF FramesRight
<1>4. FramesSurvive
    BY <1>1, <1>3 DEF FramesRight, FramesSurvive
<1>5. ASSUME NEW i \in 1 .. r, NEW got, got = read[i].values
      PROVE  /\ got # <<>> => got[1] = Normal[sent[i].values[1]]
             /\ Len(got) > 1 => got[2] = Second(sent[i]) \/ (got[2] = Nil /\ ~sent[i].whole)
             /\ (sent[i].whole /\ (phase = "end" \/ i < Len(read))) => Len(got) = 2
    <2>1. i \in 1 .. Len(read)
        BY <1>3
    <2>2. got \in Seq(ReadBack)
        <3>1. read[i] \in [frame : Frames, values : Seq(ReadBack)]
            BY <1>2, <2>1, ElementOfSeq
        <3> QED  BY <1>5, <3>1
    <2>3. got # <<>> => Len(got) >= 1
        BY <2>2, LenProperties, EmptySeq
    <2>4. Right(got, sent[i]) /\ (sent[i].whole /\ Past(i) => Len(got) = 2)
        BY <1>1, <1>5, <2>1 DEF ValuesRight
    <2>5. (phase = "end" \/ i < Len(read)) => Past(i)
        BY DEF Past
    <2> QED  BY <2>3, <2>4, <2>5 DEF Right
<1>6. ValuesSurvive
    BY <1>3, <1>5 DEF ValuesSurvive, Second
<1> QED  BY <1>4, <1>6 DEF RoundTrip

(* What is left of a message, and of a payload, is where the next frame,   *)
(* and its header or body, was written; what was read is what was written, *)
(* or nil in place of a body: from the writing of the message to the end   *)
(* of readLoop (ipc.go: dispatchLoop; frame.go, serialize.go).             *)
THEOREM CodecInvariant == Spec => []IInv
BY InitHolds, NextKeeps, PTL DEF Spec

(* What is read of a message is what was written: every frame that arrived *)
(* whole, its header and its body; of a payload whose end is missing the   *)
(* header or nothing, and a body that was written or nil (ipc.go:87).      *)
THEOREM RoundTripHolds == Spec => []RoundTrip
BY CodecInvariant, InvariantImplies, PTL
=============================================================================
