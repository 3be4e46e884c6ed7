---------------------------- MODULE HelpersProofs ----------------------------
(***************************************************************************)
(* Proofs about Helpers, for every day there will be, every image and      *)
(* every data URL, and a buffer of any width from twelve bits on.          *)
(*                                                                         *)
(* The leaves that do arithmetic ask for the SMT solver, and those that    *)
(* apply a lemma for Zenon: either is lost in the other's numerals or      *)
(* quantifiers.                                                            *)
(***************************************************************************)
EXTENDS Helpers, FiniteSetTheorems, SequenceTheorems, TLAPS

-----------------------------------------------------------------------------
(* Dates.                                                                  *)

(* The year found for a day of the era is the one the day is in.           *)
LEMMA YearFound ==
  ASSUME NEW doe \in Int, 0 <= doe, doe <= 146096
  PROVE  /\ YearOfEra(doe) \in Int /\ 0 <= YearOfEra(doe) /\ YearOfEra(doe) <= 399
         /\ YearStart(YearOfEra(doe)) <= doe
         /\ YearOfEra(doe) < 399 => doe < YearStart(YearOfEra(doe) + 1)
<1> DEFINE q1 == doe \div 1460
           q2 == doe \div 36524
           q3 == doe \div 146096
           y  == (doe - q1 + q2 - q3) \div 365
<1>1. q1 \in Int /\ q2 \in Int /\ q3 \in Int /\ y \in Int
  BY SMT
<1>2. 0 <= y /\ y <= 399 /\ YearStart(y) <= doe /\ (y < 399 => doe < YearStart(y + 1))
  BY <1>1, SMTT(30) DEF YearStart
<1>3. QED
  BY <1>1, <1>2, SMT DEF YearOfEra

(* A year has 366 days if the next one, of whose February it is, is a leap *)
(* year of its era, and 365 otherwise.                                     *)
LEMMA YearLength ==
  ASSUME NEW y \in Int, 0 <= y, y < 399
  PROVE  YearStart(y + 1) = YearStart(y) + (IF Leap(y + 1) THEN 366 ELSE 365)
BY SMTT(30) DEF YearStart, Leap

(* There is one year only a day can be in.                                 *)
LEMMA YearUnique ==
  ASSUME NEW doe \in Int, NEW y \in Int, NEW w \in Int,
         0 <= y, y <= 399, YearStart(y) <= doe, y < 399 => doe < YearStart(y + 1),
         0 <= w, w <= 399, YearStart(w) <= doe, w < 399 => doe < YearStart(w + 1)
  PROVE  y = w
<1>1. ASSUME NEW a \in Int, NEW b \in Int, a < b PROVE YearStart(a + 1) <= YearStart(b)
  BY <1>1, SMTT(30) DEF YearStart
<1>2. YearStart(y) \in Int /\ YearStart(w) \in Int /\ YearStart(y + 1) \in Int /\ YearStart(w + 1) \in Int
  BY SMT DEF YearStart
<1>3. QED
  BY <1>1, <1>2, SMT

(* The calendar repeats after 400 years.                                   *)
LEMMA LeapPeriod ==
  ASSUME NEW y \in Int, NEW era \in Int
  PROVE  Leap(y + era * 400) <=> Leap(y)
<1>1. (y + era * 400) % 4 = y % 4 /\ (y + era * 400) % 100 = y % 100 /\ (y + era * 400) % 400 = y % 400
  BY SMTT(30)
<1>2. QED
  BY <1>1, SMT DEF Leap

(* Day n of a year is day d of month m, which has len days at most; and    *)
(* what the next day is called.                                            *)
IsDate(n, m, d, len) ==
  /\ MonthDay(n) = <<m, d>> /\ 1 <= m /\ m <= 12
  /\ len = IF m = 2 THEN 29 ELSE IF m \in {4, 6, 9, 11} THEN 30 ELSE 31
  /\ d <= len /\ (m = 2 => d = n - 336)
  /\ MonthDay(n + 1) = IF d < len THEN <<m, d + 1>>
                       ELSE IF m < 12 THEN <<m + 1, 1>> ELSE <<1, 1>>

LEMMA MonthStep ==
  ASSUME NEW n \in Int, 0 <= n, n < 365
  PROVE  \E m, d, len \in Int : IsDate(n, m, d, len)
<1> DEFINE k == n + 1
<1>1. k \in Int /\ k = n + 1
  BY SMT
<1> HIDE DEF k
<1>2. PICK p \in Int : p = MonthOfYear(n)
  BY SMT DEF MonthOfYear
<1>3. PICK q \in Int : q = MonthOfYear(k)
  BY <1>1, SMT DEF MonthOfYear
<1>4. MonthDay(n) = <<IF p < 10 THEN p + 3 ELSE p - 9, n - (153 * p + 2) \div 5 + 1>>
  BY <1>2, SMT DEF MonthDay
<1>5. MonthDay(k) = <<IF q < 10 THEN q + 3 ELSE q - 9, k - (153 * q + 2) \div 5 + 1>>
  BY <1>3, SMT DEF MonthDay
<1>6. PICK m \in Int : m = IF p < 10 THEN p + 3 ELSE p - 9
  BY SMT
<1>7. PICK d \in Int : d = n - (153 * p + 2) \div 5 + 1
  BY SMT
<1>8. PICK e \in Int : e = k - (153 * q + 2) \div 5 + 1
  BY <1>1, SMT
<1>9. PICK len \in Int : len = IF m = 2 THEN 29 ELSE IF m \in {4, 6, 9, 11} THEN 30 ELSE 31
  BY SMT
<1>10. len = IF m = 2 THEN 29 ELSE IF m = 4 \/ m = 6 \/ m = 9 \/ m = 11 THEN 30 ELSE 31
  BY <1>9, SMT
<1>11. /\ 1 <= m /\ m <= 12
       /\ m = 2 => d = n - 336
       /\ d <= len
       /\ d < len => q = p /\ e = d + 1
       /\ d >= len => q = p + 1 /\ e = 1
  BY <1>1, <1>2, <1>3, <1>10, <1>6, <1>7, <1>8, SMTT(60) DEF MonthOfYear
<1>12. MonthDay(n) = <<m, d>> /\ MonthDay(k) = <<IF q < 10 THEN q + 3 ELSE q - 9, e>>
  BY <1>4, <1>5, <1>6, <1>7, <1>8, SMT
<1>13. MonthDay(k) = IF d < len THEN <<m, d + 1>> ELSE IF m < 12 THEN <<m + 1, 1>> ELSE <<1, 1>>
  BY <1>1, <1>2, <1>3, <1>10, <1>6, <1>7, <1>8, <1>11, <1>12, SMTT(30) DEF MonthOfYear
<1>14. IsDate(n, m, d, len)
  BY <1>1, <1>9, <1>11, <1>12, <1>13, SMT DEF IsDate
<1>15. QED
  BY <1>14, SMT

(* Day d is day n of year y of its era.                                    *)
IsDay(d, era, y, n) ==
  /\ d + 719468 = 146097 * era + YearStart(y) + n
  /\ 0 <= y /\ y <= 399 /\ 0 <= n
  /\ n < 365 \/ (n = 365 /\ Leap(y + 1))

DateIn(era, y, n) ==
  LET md == MonthDay(n) IN <<y + era * 400 + (IF md[1] <= 2 THEN 1 ELSE 0), md[1], md[2]>>

LEMMA DateOf ==
  ASSUME NEW d \in Nat, NEW era \in Int, NEW y \in Int, NEW n \in Int, IsDay(d, era, y, n)
  PROVE  CivilFromDays(d) = DateIn(era, y, n)
<1> USE DEF IsDay
<1>1. PICK doe \in Int : doe = YearStart(y) + n
  BY SMT DEF YearStart
<1>2. 0 <= doe /\ doe <= 146096 /\ YearStart(y) <= doe /\ (y < 399 => doe < YearStart(y + 1))
  <2>1. YearStart(y) \in Int /\ 0 <= YearStart(y) /\ YearStart(y) <= 145731
    BY SMTT(30) DEF YearStart
  <2>2. y < 399 => YearStart(y + 1) = YearStart(y) + (IF Leap(y + 1) THEN 366 ELSE 365)
    BY YearLength, SMT
  <2>3. QED
    BY <1>1, <2>1, <2>2, SMT
<1>3. (d + 719468) \div 146097 = era /\ (d + 719468) % 146097 = doe
  <2>1. \A z \in Int : z = 146097 * era + doe => z \div 146097 = era /\ z % 146097 = doe
    BY <1>2, SMTT(30)
  <2>2. d + 719468 \in Int /\ d + 719468 = 146097 * era + doe
    BY <1>1, SMT DEF YearStart
  <2>3. QED
    BY <2>1, <2>2, SMT
<1>4. YearOfEra(doe) = y
  BY <1>2, YearFound, YearUnique, SMT
<1>5. doe - YearStart(y) = n
  BY <1>1, SMT DEF YearStart
<1>6. QED
  BY <1>3, <1>4, <1>5, SMT DEF CivilFromDays, DateIn

(* The days of an era, year by year.                                       *)
LEMMA DayInEra ==
  ASSUME NEW d \in Nat
  PROVE  \E era, y, n \in Int : IsDay(d, era, y, n)
<1> DEFINE era == (d + 719468) \div 146097
           doe == (d + 719468) % 146097
           y   == YearOfEra(doe)
           n   == doe - YearStart(y)
<1>1. era \in Int /\ doe \in Int /\ 0 <= doe /\ doe <= 146096
      /\ d + 719468 = 146097 * era + doe
  BY SMTT(30)
<1> HIDE DEF era, doe
<1>2. y \in Int /\ 0 <= y /\ y <= 399 /\ YearStart(y) <= doe /\ (y < 399 => doe < YearStart(y + 1))
  BY <1>1, YearFound, SMT
<1>3. YearStart(y) \in Int /\ (y = 399 => YearStart(y) = 145731)
  BY <1>2, SMT DEF YearStart
<1>4. y < 399 => YearStart(y + 1) = YearStart(y) + (IF Leap(y + 1) THEN 366 ELSE 365)
  BY <1>2, YearLength, SMT
<1>5. y = 399 => Leap(y + 1)
  BY SMT DEF Leap
<1> HIDE DEF y
<1>6. n \in Int /\ IsDay(d, era, y, n)
  BY <1>1, <1>2, <1>3, <1>4, <1>5, SMT DEF IsDay
<1>7. era \in Int /\ y \in Int
  BY <1>1, <1>2, SMT
<1> HIDE DEF n
<1>8. QED
  BY <1>6, <1>7, Zenon

(* From one day to the next civil_from_days does what the calendar does.   *)
LEMMA DateStep ==
  ASSUME NEW d \in Nat
  PROVE  CivilFromDays(d + 1) =
           DayAfter(CivilFromDays(d)[1], CivilFromDays(d)[2], CivilFromDays(d)[3])
<1>1. PICK era \in Int, y \in Int, n \in Int : IsDay(d, era, y, n)
  BY DayInEra, Zenon
<1>2. /\ d + 719468 = 146097 * era + YearStart(y) + n
      /\ 0 <= y /\ y <= 399 /\ 0 <= n
      /\ n < 365 \/ (n = 365 /\ Leap(y + 1))
  BY <1>1, SMT DEF IsDay
<1>3. CivilFromDays(d) = DateIn(era, y, n)
  BY <1>1, DateOf, Zenon
<1>4. d + 1 \in Nat /\ YearStart(y) \in Int
  BY SMT DEF YearStart
<1>5. Leap(y + 1 + era * 400) <=> Leap(y + 1)
  <2>1. y + 1 \in Int
    BY SMT
  <2>2. QED
    BY <2>1, LeapPeriod, Zenon
<1>6. CASE n + 1 < 365 \/ (n + 1 = 365 /\ Leap(y + 1))
  <2>1. CivilFromDays(d + 1) = DateIn(era, y, n + 1)
    <3>1. n + 1 \in Int /\ IsDay(d + 1, era, y, n + 1)
      BY <1>2, <1>4, <1>6, SMT DEF IsDay
    <3>2. QED
      BY <1>4, <3>1, DateOf, Zenon
  <2>2. 0 <= n /\ n < 365
    BY <1>2, <1>6, SMT
  <2>3. PICK m \in Int, e \in Int, len \in Int : IsDate(n, m, e, len)
    BY <2>2, MonthStep, Zenon
  <2>4. /\ MonthDay(n) = <<m, e>> /\ 1 <= m /\ m <= 12
        /\ len = IF m = 2 THEN 29 ELSE IF m \in {4, 6, 9, 11} THEN 30 ELSE 31
        /\ e <= len /\ (m = 2 => e = n - 336)
        /\ MonthDay(n + 1) = IF e < len THEN <<m, e + 1>>
                             ELSE IF m < 12 THEN <<m + 1, 1>> ELSE <<1, 1>>
    BY <2>3, SMT DEF IsDate
  <2>5. PICK Y \in Int : Y = y + era * 400 + (IF m <= 2 THEN 1 ELSE 0)
    BY SMT
  <2>6. m = 2 => (Leap(Y) <=> Leap(y + 1))
    <3>1. m = 2 => Y = y + 1 + era * 400
      BY <2>5, SMT
    <3>2. QED
      BY <1>5, <3>1, SMT
  <2>7. DaysOf(Y, m) \in Int
    BY SMT DEF DaysOf
  <2>8. e < len => e < DaysOf(Y, m)
    BY <1>2, <1>6, <2>4, <2>6, SMT DEF DaysOf
  <2>9. e >= len => e >= DaysOf(Y, m)
    BY <1>2, <1>6, <2>4, <2>6, SMT DEF DaysOf
  <2>10. CivilFromDays(d + 1) = DayAfter(Y, m, e)
    <3>1. CASE e < len
      <4>1. DayAfter(Y, m, e) = <<Y, m, e + 1>>
        BY <2>8, <2>7, <3>1, SMT DEF DayAfter
      <4>2. MonthDay(n + 1)[1] = m /\ MonthDay(n + 1)[2] = e + 1
        BY <2>4, <3>1, SMT
      <4>3. CivilFromDays(d + 1) = <<Y, m, e + 1>>
        BY <2>1, <2>5, <4>2, SMT DEF DateIn
      <4>4. QED
        BY <4>1, <4>3, SMT
    <3>2. CASE e >= len /\ m < 12
      <4>1. DayAfter(Y, m, e) = <<Y, m + 1, 1>>
        BY <2>9, <3>2, SMT DEF DayAfter, DaysOf
      <4>2. MonthDay(n + 1) = <<m + 1, 1>>
        BY <2>4, <3>2, SMT
      <4>3. QED
        BY <2>2, <2>1, <2>4, <2>5, <3>2, <4>1, <4>2, SMT DEF DateIn
    <3>3. CASE e >= len /\ m = 12
      <4>1. DayAfter(Y, m, e) = <<Y + 1, 1, 1>>
        BY <2>9, <3>3, SMT DEF DayAfter, DaysOf
      <4>2. MonthDay(n + 1) = <<1, 1>>
        BY <2>4, <3>3, SMT
      <4>3. QED
        BY <2>1, <2>5, <3>3, <4>1, <4>2, SMT DEF DateIn
    <3>4. QED
      BY <2>4, <3>1, <3>2, <3>3, SMT
  <2>11. QED
    BY <1>3, <2>4, <2>5, <2>10, SMT DEF DateIn
<1>7. CASE ~(n + 1 < 365 \/ (n + 1 = 365 /\ Leap(y + 1)))
  <2>1. MonthDay(n) = <<2, n - 336>> /\ MonthDay(0) = <<3, 1>>
    BY <1>2, <1>7, SMT DEF MonthDay, MonthOfYear
  <2>2. n = (IF Leap(y + 1) THEN 365 ELSE 364)
    BY <1>2, <1>7, SMT
  <2>3. CivilFromDays(d) = <<y + 1 + era * 400, 2, n - 336>>
    BY <1>3, <2>1, SMT DEF DateIn
  <2>4. CivilFromDays(d + 1) = <<y + 1 + era * 400, 3, 1>>
    <3>1. CASE y < 399
      <4>1. YearStart(y + 1) = YearStart(y) + (IF Leap(y + 1) THEN 366 ELSE 365)
        BY <1>2, <3>1, YearLength, SMT
      <4>2. y + 1 \in Int /\ 0 \in Int /\ IsDay(d + 1, era, y + 1, 0)
        BY <1>2, <1>4, <2>2, <3>1, <4>1, SMT DEF IsDay
      <4>3. CivilFromDays(d + 1) = DateIn(era, y + 1, 0)
        BY <1>4, <4>2, DateOf, Zenon
      <4>4. QED
        BY <2>1, <4>3, SMT DEF DateIn
    <3>2. CASE y = 399
      <4>1. YearStart(399) = 145731 /\ YearStart(0) = 0 /\ Leap(400)
        BY SMT DEF YearStart, Leap
      <4>2. 0 \in Int /\ era + 1 \in Int /\ IsDay(d + 1, era + 1, 0, 0)
        BY <1>2, <1>4, <2>2, <3>2, <4>1, SMT DEF IsDay
      <4>3. CivilFromDays(d + 1) = DateIn(era + 1, 0, 0)
        BY <1>4, <4>2, DateOf, Zenon
      <4>4. QED
        BY <2>1, <3>2, <4>3, SMT DEF DateIn
    <3>3. QED
      BY <1>2, <3>1, <3>2, SMT
  <2>5. n - 336 >= DaysOf(y + 1 + era * 400, 2)
    BY <1>5, <2>2, SMT DEF DaysOf
  <2>6. DayAfter(y + 1 + era * 400, 2, n - 336) = <<y + 1 + era * 400, 3, 1>>
    BY <1>2, <2>2, <2>5, SMT DEF DayAfter, DaysOf
  <2>7. QED
    BY <2>3, <2>4, <2>6, SMT
<1>8. QED
  BY <1>6, <1>7, SMT

(* The same of seconds.                                                   *)
LEMMA TimeStep ==
  ASSUME NEW t \in Int, 0 <= t, t < 86399
  PROVE  TimeOfDay(t + 1) =
           SecondAfter(TimeOfDay(t)[1], TimeOfDay(t)[2], TimeOfDay(t)[3])
<1>1. PICK h \in Int : h = t \div 3600
  BY SMT
<1>2. PICK m \in Int : m = (t % 3600) \div 60
  BY SMT
<1>3. PICK s \in Int : s = t % 60
  BY SMT
<1>4. PICK hh \in Int : hh = (t + 1) \div 3600
  BY SMT
<1>5. PICK mm \in Int : mm = ((t + 1) % 3600) \div 60
  BY SMT
<1>6. PICK ss \in Int : ss = (t + 1) % 60
  BY SMT
<1>7. /\ s < 59 => hh = h /\ mm = m /\ ss = s + 1
      /\ s >= 59 /\ m < 59 => hh = h /\ mm = m + 1 /\ ss = 0
      /\ s >= 59 /\ m >= 59 => hh = h + 1 /\ mm = 0 /\ ss = 0
  BY <1>1, <1>2, <1>3, <1>4, <1>5, <1>6, SMTT(30)
<1>8. TimeOfDay(t) = <<h, m, s>> /\ TimeOfDay(t + 1) = <<hh, mm, ss>>
  <2>1. TimeOfDay(t) = <<h, m, s>>
    BY <1>1, <1>2, <1>3, SMT DEF TimeOfDay
  <2>2. TimeOfDay(t + 1) = <<hh, mm, ss>>
    BY <1>4, <1>5, <1>6, SMT DEF TimeOfDay
  <2>3. QED
    BY <2>1, <2>2, SMT
<1>9. <<hh, mm, ss>> = SecondAfter(h, m, s)
  BY <1>7, SMT DEF SecondAfter
<1>10. QED
  BY <1>8, <1>9, SMT

-----------------------------------------------------------------------------
(* The buffer.                                                             *)

(* The powers of two the decoder shifts by.                                 *)
LEMMA Powers == 2^0 = 1 /\ 2^2 = 4 /\ 2^4 = 16 /\ 2^6 = 64 /\ 2^8 = 256
BY SMT

(* What the buffer drops when it overflows is never looked at again.       *)
LEMMA Overflow ==
  ASSUME NEW x \in Nat
  PROVE  x % Modulus \in Nat /\ (x % Modulus) % 4096 = x % 4096
<1>1. PICK k \in Int : Modulus = 4096 * k /\ Modulus \in Int /\ Modulus > 0
  BY HelpersAssumption, SMT
<1>2. PICK q \in Int, r \in Int : x = Modulus * q + r /\ r = x % Modulus /\ 0 <= r
  BY <1>1, SMT
<1>3. PICK t \in Int : t = k * q
  BY SMT
<1>4. x = 4096 * t + r
  BY <1>1, <1>2, <1>3, SMT
<1>5. r % 4096 = x % 4096
  BY <1>4, SMT
<1>6. QED
  BY <1>2, <1>5, SMT

(* A character pushed into the buffer.  Below 64 * 64 its value is what is *)
(* left of the byte before it, and the character.                          *)
Pushed(b, c, v) ==
  /\ v \in Nat
  /\ v % 64 = c
  /\ (v \div 16) % 256 = 4 * (b % 64) + c \div 16 /\ v % 16 = c % 16
  /\ (v \div 4) % 256 = 16 * (b % 16) + c \div 4 /\ v % 4 = c % 4
  /\ v % 256 = 64 * (b % 4) + c

LEMMA Push ==
  ASSUME NEW b \in Nat, NEW c \in Int, 0 <= c, c < 64, NEW v, v = (b * 64 + c) % Modulus
  PROVE  Pushed(b, c, v)
<1>1. b * 64 + c \in Nat
  BY SMT
<1>2. v \in Nat /\ v % 4096 = (b * 64 + c) % 4096
  BY <1>1, Overflow, SMT
<1>3. v \in Int /\ 0 <= v /\ v % 4096 = (b * 64 + c) % 4096
  BY <1>2, SMT
<1>4. (v \div 16) % 256 = 4 * (b % 64) + c \div 16 /\ v % 16 = c % 16
  BY <1>3, SMTT(30)
<1>5. (v \div 4) % 256 = 16 * (b % 16) + c \div 4 /\ v % 4 = c % 4
  BY <1>3, SMTT(30)
<1>6. v % 256 = 64 * (b % 4) + c /\ v % 64 = c
  BY <1>3, SMTT(30)
<1>7. QED
  BY <1>2, <1>4, <1>5, <1>6, Zenon DEF Pushed

-----------------------------------------------------------------------------
(* The encoder.                                                            *)

(* What the encoder takes from the image, its end or beyond, is a byte.     *)
LEMMA BytesAreBytes ==
  ASSUME NEW bs \in Seq(Byte), NEW k \in Nat \ {0}
  PROVE  ByteAt(bs, k) \in Int /\ 0 <= ByteAt(bs, k) /\ ByteAt(bs, k) <= 255
<1>1. CASE k <= Len(bs)
  <2>1. bs[k] \in Byte
    BY <1>1, ElementOfSeq, SMT
  <2>2. ByteAt(bs, k) = bs[k]
    BY <1>1, SMT DEF ByteAt
  <2>3. \A x \in Byte : x \in Int /\ 0 <= x /\ x <= 255
    BY SMT DEF Byte
  <2>4. QED
    BY <2>1, <2>2, <2>3, Zenon
<1>2. CASE ~(k <= Len(bs))
  BY <1>2, SMT DEF ByteAt
<1>3. QED
  BY <1>1, <1>2, SMT

(* The four characters of a group of three bytes, each told by what the    *)
(* decoder has done before it: put out n bytes, with w bits over.          *)
LEMMA SextetAt ==
  ASSUME NEW bs \in Seq(Byte), NEW i \in Nat \ {0}, NEW n \in Nat, NEW w \in {0, 2, 4, 6},
         8 * n + w = 6 * (i - 1)
  PROVE  /\ w = 0 => Sextet(bs, i) = ByteAt(bs, n + 1) \div 4
         /\ w = 6 => Sextet(bs, i) = 16 * (ByteAt(bs, n + 1) % 4) + ByteAt(bs, n + 2) \div 16
         /\ w = 4 => Sextet(bs, i) = 4 * (ByteAt(bs, n + 1) % 16) + ByteAt(bs, n + 2) \div 64
         /\ w = 2 => Sextet(bs, i) = ByteAt(bs, n + 1) % 64
<1>1. ASSUME w = 0 PROVE Sextet(bs, i) = ByteAt(bs, n + 1) \div 4
  <2>1. i % 4 = 1 /\ 3 * ((i - 1) \div 4) + 1 = n + 1
    BY <1>1, SMT
  <2>2. \A k : i % 4 = 1 /\ k = 3 * ((i - 1) \div 4) => Sextet(bs, i) = ByteAt(bs, k + 1) \div 4
    BY SMT DEF Sextet
  <2>3. QED
    BY <2>1, <2>2, Zenon
<1>2. ASSUME w = 6 PROVE Sextet(bs, i) = 16 * (ByteAt(bs, n + 1) % 4) + ByteAt(bs, n + 2) \div 16
  <2>1. i % 4 = 2 /\ 3 * ((i - 1) \div 4) + 1 = n + 1 /\ 3 * ((i - 1) \div 4) + 2 = n + 2
    BY <1>2, SMT
  <2>2. QED
    BY <1>2, <2>1, SMT DEF Sextet
<1>3. ASSUME w = 4 PROVE Sextet(bs, i) = 4 * (ByteAt(bs, n + 1) % 16) + ByteAt(bs, n + 2) \div 64
  <2>1. i % 4 = 3 /\ 3 * ((i - 1) \div 4) + 2 = n + 1 /\ 3 * ((i - 1) \div 4) + 3 = n + 2
    BY <1>3, SMT
  <2>2. QED
    BY <1>3, <2>1, SMT DEF Sextet
<1>4. ASSUME w = 2 PROVE Sextet(bs, i) = ByteAt(bs, n + 1) % 64
  <2>1. i % 4 = 0 /\ 3 * ((i - 1) \div 4) + 3 = n + 1
    BY <1>4, SMT
  <2>2. QED
    BY <1>4, <2>1, SMT DEF Sextet
<1>5. QED
  BY <1>1, <1>2, <1>3, <1>4, Zenon

(* What it makes of them has six bits.                                      *)
LEMMA SextetRange ==
  ASSUME NEW bs \in Seq(Byte), NEW i \in Nat \ {0}
  PROVE  Sextet(bs, i) \in Int /\ 0 <= Sextet(bs, i) /\ Sextet(bs, i) < 64
<1>1. PICK k \in Int : k = 3 * ((i - 1) \div 4) /\ k >= 0
  BY SMTT(30)
<1>2. PICK a \in Int, b \in Int, c \in Int :
        /\ a = ByteAt(bs, k + 1) /\ b = ByteAt(bs, k + 2) /\ c = ByteAt(bs, k + 3)
        /\ 0 <= a /\ a <= 255 /\ 0 <= b /\ b <= 255 /\ 0 <= c /\ c <= 255
  <2>1. k + 1 \in Nat \ {0} /\ k + 2 \in Nat \ {0} /\ k + 3 \in Nat \ {0}
    BY <1>1, SMT
  <2>2. QED
    BY <2>1, BytesAreBytes, SMT
<1>3. Sextet(bs, i) \in {a \div 4, 16 * (a % 4) + b \div 16, 4 * (b % 16) + c \div 64, c % 64}
  BY <1>1, <1>2, SMT DEF Sextet
<1>4. Sextet(bs, i) \in Int
  <2>1. \A x, y \in Int : /\ x \div 4 \in Int /\ x % 64 \in Int
                          /\ 16 * (x % 4) + y \div 16 \in Int /\ 4 * (x % 16) + y \div 64 \in Int
    BY SMT
  <2>2. a \div 4 \in Int /\ c % 64 \in Int
    BY <2>1, SMT
  <2>3. 16 * (a % 4) + b \div 16 \in Int
    BY <2>1, SMT
  <2>4. 4 * (b % 16) + c \div 64 \in Int
    BY <2>1, SMT
  <2>5. \A x, p, q, r, s : x \in {p, q, r, s} /\ p \in Int /\ q \in Int /\ r \in Int /\ s \in Int => x \in Int
    BY SMT
  <2>6. QED
    BY <1>3, <2>2, <2>3, <2>4, <2>5, SMT
<1>5. PICK s \in Int : s = Sextet(bs, i)
  BY <1>4, Zenon
<1>6. s = a \div 4 \/ s = 16 * (a % 4) + b \div 16 \/ s = 4 * (b % 16) + c \div 64 \/ s = c % 64
  BY <1>3, <1>5, Zenon
<1>7. 0 <= s /\ s < 64
  <2>1. 0 <= a \div 4 /\ a \div 4 < 64
    BY <1>2, SMT
  <2>2. 0 <= b \div 16 /\ b \div 16 < 16 /\ 0 <= a % 4 /\ a % 4 < 4
    BY <1>2, SMT
  <2>3. 0 <= c \div 64 /\ c \div 64 < 4 /\ 0 <= b % 16 /\ b % 16 < 16
    BY <1>2, SMT
  <2>4. 0 <= c % 64 /\ c % 64 < 64
    BY <1>2, SMT
  <2>5. QED
    BY <1>6, <2>1, <2>2, <2>3, <2>4, SMT
<1>8. QED
  BY <1>5, <1>7, SMT

-----------------------------------------------------------------------------
(* Characters that are kept.                                               *)

KeptIn(u, h, i) == Cardinality({j \in (h + 1)..i : u[j] # Space})

(* They can be counted.                                                     *)
LEMMA KeptNat ==
  ASSUME NEW u, NEW h \in Nat, NEW i \in Int
  PROVE  /\ KeptIn(u, h, i) \in Nat
         /\ IsFiniteSet({j \in (h + 1)..i : u[j] # Space})
<1>1. IsFiniteSet((h + 1)..i)
  BY FS_Interval, SMT
<1>2. {j \in (h + 1)..i : u[j] # Space} \in SUBSET ((h + 1)..i)
  BY SMT
<1>3. IsFiniteSet({j \in (h + 1)..i : u[j] # Space})
  BY <1>1, <1>2, FS_Subset, SMT
<1>4. QED
  BY <1>3, FS_CardinalityType, SMT DEF KeptIn

(* There are none in the header.                                            *)
LEMMA KeptNone ==
  ASSUME NEW u, NEW h \in Nat
  PROVE  KeptIn(u, h, h) = 0
<1>1. {j \in (h + 1)..h : u[j] # Space} = {}
  BY SMT
<1>2. QED
  BY <1>1, FS_EmptySet, SMT DEF KeptIn

(* One position more is one character more, unless it is a space.           *)
LEMMA KeptStep ==
  ASSUME NEW u, NEW h \in Nat, NEW i \in Nat, h <= i
  PROVE  KeptIn(u, h, i + 1) =
           IF u[i + 1] # Space THEN KeptIn(u, h, i) + 1 ELSE KeptIn(u, h, i)
<1> DEFINE S == {j \in (h + 1)..i : u[j] # Space}
           T == {j \in (h + 1)..(i + 1) : u[j] # Space}
<1>1. i \in Int
  BY SMT
<1>2. IsFiniteSet(S)
  BY <1>1, KeptNat, Zenon
<1>3. i + 1 \notin S
  BY SMT
<1>4. CASE u[i + 1] # Space
  <2>1. T = S \cup {i + 1}
    <3>1. \A j : j \in (h + 1)..(i + 1) <=> j \in (h + 1)..i \/ j = i + 1
      BY SMT
    <3>2. QED
      BY <1>4, <3>1, SMT
  <2>2. Cardinality(S \cup {i + 1}) = Cardinality(S) + 1
    BY <1>2, <1>3, FS_AddElement
  <2>3. QED
    BY <1>4, <2>1, <2>2, SMT DEF KeptIn
<1>5. CASE u[i + 1] = Space
  <2>1. T = S
    <3>1. \A j : j \in (h + 1)..(i + 1) <=> j \in (h + 1)..i \/ j = i + 1
      BY SMT
    <3>2. QED
      BY <1>5, <3>1, SMT
  <2>2. QED
    BY <1>5, <2>1, SMT DEF KeptIn
<1>6. QED
  BY <1>4, <1>5, SMT

(* Only the characters up to there matter.                                  *)
LEMMA KeptSame ==
  ASSUME NEW u, NEW v, NEW h \in Nat, NEW i \in Int, \A j \in (h + 1)..i : u[j] = v[j]
  PROVE  KeptIn(u, h, i) = KeptIn(v, h, i)
<1>1. {j \in (h + 1)..i : u[j] # Space} = {j \in (h + 1)..i : v[j] # Space}
  BY SMT
<1>2. QED
  BY <1>1, SMT DEF KeptIn
-----------------------------------------------------------------------------
(* The model's terms, of what is a parameter here.                         *)

(* Six bits for every six of the image, and for what is left of it.         *)
LEMMA SextetsNat ==
  ASSUME TypeOK
  PROVE  Sextets \in Nat /\ 8 * Len(bytes) <= 6 * Sextets /\ 6 * Sextets <= 8 * Len(bytes) + 5
<1>1. PICK n \in Int : n = Len(bytes) /\ 0 <= n
  BY SMT DEF TypeOK
<1>2. PICK s \in Int : s = (8 * n + 5) \div 6
  BY <1>1, SMT
<1>3. 0 <= s /\ 8 * n <= 6 * s /\ 6 * s <= 8 * n + 5
  BY <1>1, <1>2, SMT
<1>4. QED
  BY <1>1, <1>2, <1>3, SMT DEF Sextets

(* The page's own characters are base64 up to the image's end, and padding  *)
(* from there on.                                                           *)
LEMMA CharRange ==
  ASSUME TypeOK, NEW i \in Nat \ {0}
  PROVE  /\ Char(i) \in Chars /\ Char(i) # Space /\ Char(i) # Comma /\ Char(i) # Alien
         /\ i <= Sextets => Char(i) = Sextet(bytes, i) /\ Char(i) \in Base64 /\ Char(i) # Pad
         /\ i > Sextets => Char(i) = Pad
<1>1. Sextet(bytes, i) \in Int /\ 0 <= Sextet(bytes, i) /\ Sextet(bytes, i) < 64
  BY SextetRange, SMT DEF TypeOK
<1>2. Sextets \in Nat
  BY SextetsNat, SMT
<1>3. Sextet(bytes, i) \in Base64
  BY <1>1, SMT DEF Base64
<1>4. QED
  BY <1>1, <1>2, <1>3, SMT DEF Char, Chars, Pad, Space, Comma, Alien

(* Sent, of what is a parameter here.                                      *)
CharIn(bs, i) == IF i <= (8 * Len(bs) + 5) \div 6 THEN Sextet(bs, i) ELSE Pad
Own(u, h, bs, n) ==
  /\ n = KeptIn(u, h, Len(u))
  /\ \A i \in (h + 1)..Len(u) : u[i] # Space => u[i] = CharIn(bs, KeptIn(u, h, i))

(* Sent and the operators it is made of.                                    *)
LEMMA InTerms ==
  /\ \A i : Char(i) = CharIn(bytes, i)
  /\ \A i : Kept(i) = KeptIn(url, header, i)
  /\ Sent <=> /\ header <= Len(url)
              /\ \A i \in DOMAIN url : url[i] = Comma <=> i = header
              /\ Foreign \/ Own(url, header, bytes, sent)
              /\ phase \notin {"sending", "failed"} => sent >= Sextets
BY Zenon DEF Sent, Own, Char, CharIn, Kept, KeptIn, Sextets

(* The same in the next state.                                              *)
LEMMA InTermsNext ==
  Sent' <=> /\ header' <= Len(url')
            /\ \A i \in DOMAIN url' : url'[i] = Comma <=> i = header'
            /\ Foreign' \/ Own(url', header', bytes', sent')
            /\ phase' \notin {"sending", "failed"} => sent' >= Sextets'
BY Zenon DEF Sent, Own, Char, CharIn, Kept, KeptIn, Sextets

(* The same of Cleaned.                                                    *)
Taken(u, h, bs, t, p) ==
  /\ \A k \in DOMAIN t : t[k] = CharIn(bs, k)
  /\ p <= Len(u) => Len(t) = KeptIn(u, h, p - 1)
  /\ ~(p <= Len(u)) => Len(t) >= (8 * Len(bs) + 5) \div 6
AlienIn(u, h, t, p) ==
  (\E i \in (h + 1)..(p - 1) : u[i] = Alien) => \E k \in DOMAIN t : t[k] = Alien

LEMMA CleanedInTerms ==
  Cleaned <=> /\ phase = "sending" => text = <<>>
              /\ phase \in {"sending", "cleaning"} => buf = 0 /\ nbits = 0 /\ out = <<>>
              /\ phase = "cleaning" =>
                   /\ pos \in (header + 1)..(Len(url) + 1)
                   /\ ~Foreign => Taken(url, header, bytes, text, pos)
                   /\ AlienIn(url, header, text, pos)
BY Zenon DEF Cleaned, Taken, AlienIn, Char, CharIn, Kept, KeptIn, Sextets

LEMMA CleanedNext ==
  Cleaned' <=> /\ phase' = "sending" => text' = <<>>
               /\ phase' \in {"sending", "cleaning"} => buf' = 0 /\ nbits' = 0 /\ out' = <<>>
               /\ phase' = "cleaning" =>
                    /\ pos' \in (header' + 1)..(Len(url') + 1)
                    /\ ~Foreign' => Taken(url', header', bytes', text', pos')
                    /\ AlienIn(url', header', text', pos')
BY Zenon DEF Cleaned, Taken, AlienIn, Char, CharIn, Kept, KeptIn, Sextets

(* The header ends at the first comma, if there is one.                    *)
LEMMA BodyStartIs ==
  ASSUME TypeOK, Sent
  PROVE  BodyStart(url) = header + 1
<1>1. header \in Nat /\ header <= Len(url) /\ Len(url) \in Nat
  BY SMT DEF TypeOK, Sent
<1>2. \A i \in DOMAIN url : i \in Nat \ {0} /\ (url[i] = Comma <=> i = header)
  BY SMT DEF TypeOK, Sent
<1>3. CASE header = 0
  <2>1. ~(\E i \in DOMAIN url : url[i] = Comma)
    BY <1>2, <1>3, SMT
  <2>2. QED
    BY <1>3, <2>1, SMT DEF BodyStart
<1>4. CASE header # 0
  <2>1. header \in DOMAIN url
    BY <1>1, <1>4, SMT DEF TypeOK
  <2>2. url[header] = Comma /\ \A j \in 1..(header - 1) : url[j] # Comma
    BY <1>1, <1>2, <2>1, SMT DEF TypeOK
  <2>3. \A i \in DOMAIN url : url[i] = Comma => i = header
    BY <1>2, SMT
  <2>4. (CHOOSE i \in DOMAIN url : url[i] = Comma /\ \A j \in 1..(i - 1) : url[j] # Comma) = header
    BY <2>1, <2>2, <2>3, Zenon
  <2>5. QED
    BY <2>1, <2>2, <2>4, Zenon DEF BodyStart
<1>5. QED
  BY <1>3, <1>4, Zenon

(* A character more in the data URL.                                       *)
LEMMA Grow ==
  ASSUME IInv, NEW c \in Chars, c # Comma, url' = Append(url, c), UNCHANGED <<header, bytes>>
  PROVE  /\ url' \in Seq(Chars) /\ Len(url') = Len(url) + 1
         /\ \A i \in 1..Len(url) : url'[i] = url[i]
         /\ url'[Len(url) + 1] = c
         /\ header' <= Len(url') /\ \A i \in DOMAIN url' : url'[i] = Comma <=> i = header'
         /\ Foreign' <=> Foreign \/ c = Alien
         /\ \A i \in Int : i <= Len(url) => KeptIn(url', header', i) = KeptIn(url, header, i)
         /\ KeptIn(url', header', Len(url')) =
              IF c # Space THEN KeptIn(url, header, Len(url)) + 1 ELSE KeptIn(url, header, Len(url))
<1>1. url \in Seq(Chars) /\ Len(url) \in Nat /\ header \in Nat /\ header <= Len(url)
  BY SMT DEF IInv, TypeOK, Sent
<1>2. /\ url' \in Seq(Chars) /\ Len(url') = Len(url) + 1
      /\ \A i \in 1..Len(url) : url'[i] = url[i]
      /\ url'[Len(url) + 1] = c
  BY <1>1, SMT
<1>3. header' <= Len(url') /\ \A i \in DOMAIN url' : url'[i] = Comma <=> i = header'
  <2>1. \A i \in 1..Len(url) : url[i] = Comma <=> i = header
    BY <1>1, SMT DEF IInv, Sent
  <2>2. QED
    BY <1>1, <1>2, <2>1, SMT
<1>4. Foreign' <=> Foreign \/ c = Alien
  BY <1>1, <1>2, SMT DEF Foreign
<1>5. ASSUME NEW i \in Int, i <= Len(url) PROVE KeptIn(url', header', i) = KeptIn(url, header, i)
  <2>1. \A j \in (header + 1)..i : url'[j] = url[j]
    BY <1>1, <1>2, <1>5, SMT
  <2>2. KeptIn(url', header, i) = KeptIn(url, header, i)
    BY <1>1, <2>1, KeptSame, Zenon
  <2>3. QED
    BY <2>2, Zenon
<1>6. KeptIn(url', header', Len(url')) =
        IF c # Space THEN KeptIn(url, header, Len(url)) + 1 ELSE KeptIn(url, header, Len(url))
  <2>1. KeptIn(url', header, Len(url) + 1) =
          IF url'[Len(url) + 1] # Space THEN KeptIn(url', header, Len(url)) + 1
          ELSE KeptIn(url', header, Len(url))
    BY <1>1, KeptStep, Zenon
  <2>2. KeptIn(url', header', Len(url)) = KeptIn(url, header, Len(url))
    <3>1. Len(url) \in Int
      BY <1>1, SMT
    <3>2. QED
      BY <1>1, <1>5, <3>1, SMT
  <2>3. QED
    BY <1>2, <2>1, <2>2, SMT
<1>7. QED
  BY <1>2, <1>3, <1>4, <1>5, <1>6, Zenon

-----------------------------------------------------------------------------
(* The initial states, and the steps of the calendar.                      *)

(* The types hold initially, in either task.                                *)
LEMMA InitTypeOK == Init => TypeOK
<1> SUFFICES ASSUME Init PROVE TypeOK
  BY SMT
<1>1. bytes \in Seq(Byte)
  <2>1. CASE task = "stamp"
    BY <2>1, SMT DEF Init
  <2>2. CASE task # "stamp"
    <3>1. PICK n \in 0..MaxBytes : bytes \in [1..n -> Bytes]
      BY <2>2, SMT DEF Init
    <3>2. n \in Nat
      BY <3>1, HelpersAssumption, SMT
    <3>3. bytes \in Seq(Bytes)
      BY <3>1, <3>2, SMT
    <3>4. QED
      BY <3>3, HelpersAssumption, SMT
  <2>3. QED
    BY <2>1, <2>2, SMT
<1>2. url = <<>> \/ url = <<Alien, Alien, Comma>>
  BY SMT DEF Init
<1>3. url \in Seq(Chars) /\ header \in {0, 3}
  <2>1. Alien \in Chars /\ Comma \in Chars
    BY SMT DEF Chars, Alien, Comma
  <2>2. header = Len(url)
    BY SMT DEF Init
  <2>3. <<>> \in Seq(Chars) /\ <<Alien, Alien, Comma>> \in Seq(Chars)
    BY <2>1, SMT
  <2>4. Len(<<>>) = 0 /\ Len(<<Alien, Alien, Comma>>) = 3
    BY SMT
  <2>5. QED
    BY <1>2, <2>2, <2>3, <2>4, Zenon
<1>4. QED
  BY <1>1, <1>3, HelpersAssumption, SMT DEF TypeOK, Init

(* Of the data URL only the header is there.                                *)
LEMMA InitSent == Init => Sent
<1> SUFFICES ASSUME Init PROVE Sent
  BY SMT
<1>1. url = <<>> \/ url = <<Alien, Alien, Comma>>
  BY SMT DEF Init
<1>2. header = Len(url) /\ sent = 0 /\ phase = "sending"
  BY SMT DEF Init
<1>3. header \in Nat
  BY <1>1, <1>2, SMT
<1>4. \A i \in DOMAIN url : url[i] = Comma <=> i = header
  BY <1>1, <1>2, SMT DEF Alien, Comma
<1>5. Kept(header) = 0
  BY <1>3, InTerms, KeptNone, Zenon
<1>6. (header + 1)..Len(url) = {}
  BY <1>2, <1>3, SMT
<1>7. QED
  BY <1>2, <1>3, <1>4, <1>5, <1>6, SMT DEF Sent

(* 1970-01-01 00:00:00 is what civil_from_days makes of 0.                  *)
LEMMA InitStampsRight == Init => StampsRight
<1>1. CivilFromDays(0) = <<1970, 1, 1>>
  <3>1. YearOfEra(135080) = 369 /\ YearStart(369) = 134774
    BY SMT DEF YearOfEra, YearStart
  <3>2. MonthDay(306) = <<1, 1>>
    BY SMT DEF MonthDay, MonthOfYear
  <3>3. (0 + 719468) \div 146097 = 4 /\ (0 + 719468) % 146097 = 135080 /\ 135080 - 134774 = 306
    BY SMT
  <3>4. QED
    BY <3>1, <3>2, <3>3, SMT DEF CivilFromDays
<1>2. TimeOfDay(0) = <<0, 0, 0>>
  BY SMT DEF TimeOfDay
<1>3. QED
  BY <1>1, <1>2, SMT DEF StampsRight, Init

(* Nothing has been captured yet.                                           *)
LEMMA InitIInv == Init => IInv
<1> SUFFICES ASSUME Init PROVE IInv
  BY SMT
<1>1. phase = "sending" /\ text = <<>> /\ buf = 0 /\ nbits = 0 /\ out = <<>>
  BY SMT DEF Init
<1>2. Cleaned /\ Trimmable /\ Decoded /\ ScreenshotIsImage
  BY <1>1, SMT DEF Cleaned, Trimmable, Decoded, ScreenshotIsImage
<1>3. QED
  BY <1>2, InitTypeOK, InitSent, InitStampsRight, SMT DEF IInv

(* What a step of the calendar leaves alone.                               *)
LEMMA StampFrame ==
  ASSUME IInv, UNCHANGED <<task, pageVars, decodeVars, phase>>,
         day' \in 0..LastDay, time' \in Nat, time' < 86400, StampsRight'
  PROVE  IInv'
<1>1. /\ task' = task /\ phase' = phase
      /\ bytes' = bytes /\ header' = header /\ url' = url /\ sent' = sent
      /\ text' = text /\ pos' = pos /\ buf' = buf /\ nbits' = nbits /\ out' = out
  BY SMT DEF pageVars, decodeVars
<1>2. TypeOK'
  BY <1>1, SMT DEF TypeOK, IInv
<1>3. Foreign' = Foreign /\ Sextets' = Sextets /\ (\A i : Kept(i)' = Kept(i)) /\ (\A i : Char(i)' = Char(i))
  BY <1>1, SMT DEF Foreign, Kept, Sextets, Char
<1>4. Sent'
  BY <1>1, <1>3, SMT DEF Sent, IInv
<1>5. Cleaned'
  BY <1>1, <1>3, SMT DEF Cleaned, IInv
<1>6. Trimmable'
  BY <1>1, <1>3, SMT DEF Trimmable, IInv
<1>7. Decoded'
  BY <1>1, <1>3, SMT DEF Decoded, IInv
<1>8. ScreenshotIsImage'
  BY <1>1, <1>3, SMT DEF ScreenshotIsImage, IInv
<1>9. QED
  BY <1>2, <1>4, <1>5, <1>6, <1>7, <1>8, SMT DEF IInv

(* civil_from_days follows the calendar.                                    *)
LEMMA NextDayKeeps == ASSUME IInv, NextDay PROVE IInv'
<1>1. day \in Nat /\ day + 1 \in 0..LastDay
  BY HelpersAssumption, SMT DEF IInv, TypeOK, NextDay
<1>2. CivilFromDays(day + 1) = DayAfter(CivilFromDays(day)[1], CivilFromDays(day)[2], CivilFromDays(day)[3])
  BY <1>1, DateStep, Zenon
<1>3. StampsRight'
  BY <1>2, SMT DEF IInv, StampsRight, NextDay, Tomorrow
<1>4. day' \in 0..LastDay /\ time' \in Nat /\ time' < 86400
  BY <1>1, SMT DEF NextDay
<1>5. QED
  BY <1>3, <1>4, StampFrame, SMT DEF NextDay

(* format_iso_utc follows the clock, and the calendar at midnight.          *)
LEMMA NextSecondKeeps == ASSUME IInv, NextSecond PROVE IInv'
<1>1. day \in Nat /\ day \in 0..LastDay /\ day + 1 \in 0..LastDay
  BY HelpersAssumption, SMT DEF IInv, TypeOK, NextSecond
<1>2. time \in Int /\ 0 <= time /\ time <= 86399
  BY SMT DEF IInv, TypeOK
<1>3. UNCHANGED <<task, pageVars, decodeVars, phase>>
  BY SMT DEF NextSecond
<1>4. CASE time < 86399
  <2>1. time' = time + 1 /\ day' = day /\ date' = date
        /\ clock' = SecondAfter(clock[1], clock[2], clock[3])
    BY <1>4, SMT DEF NextSecond
  <2>2. TimeOfDay(time + 1) = SecondAfter(TimeOfDay(time)[1], TimeOfDay(time)[2], TimeOfDay(time)[3])
    BY <1>2, <1>4, TimeStep, SMT
  <2>3. StampsRight'
    BY <2>1, <2>2, SMT DEF IInv, StampsRight
  <2>4. time' \in Nat /\ time' < 86400
    BY <1>2, <1>4, <2>1, SMT
  <2>5. QED
    BY <1>1, <1>3, <2>1, <2>3, <2>4, StampFrame, SMT
<1>5. CASE ~(time < 86399)
  <2>1. time' = 0 /\ clock' = <<0, 0, 0>> /\ day' = day + 1 /\ date' = Tomorrow
    BY <1>5, SMT DEF NextSecond
  <2>2. TimeOfDay(0) = <<0, 0, 0>>
    BY SMT DEF TimeOfDay
  <2>3. CivilFromDays(day + 1) = DayAfter(CivilFromDays(day)[1], CivilFromDays(day)[2], CivilFromDays(day)[3])
    BY <1>1, DateStep, Zenon
  <2>4. StampsRight'
    BY <2>1, <2>2, <2>3, SMT DEF IInv, StampsRight, Tomorrow
  <2>5. time' \in Nat /\ time' < 86400
    BY <2>1, SMT
  <2>6. QED
    BY <1>1, <1>3, <2>1, <2>4, <2>5, StampFrame, SMT
<1>6. QED
  BY <1>4, <1>5, SMT

-----------------------------------------------------------------------------
(* The page.                                                               *)

(* While the page sends, nothing else has begun.                           *)
LEMMA SendingFrame ==
  ASSUME IInv, phase = "sending", UNCHANGED <<task, stampVars, bytes, header, decodeVars, phase>>,
         url' \in Seq(Chars), sent' \in Nat, Sent'
  PROVE  IInv'
<1>1. /\ day' = day /\ time' = time /\ date' = date /\ clock' = clock
      /\ task' = task /\ phase' = phase /\ bytes' = bytes /\ header' = header
      /\ text' = text /\ pos' = pos /\ buf' = buf /\ nbits' = nbits /\ out' = out
  BY SMT DEF stampVars, decodeVars
<1>2. TypeOK'
  BY <1>1, SMT DEF TypeOK, IInv
<1>3. StampsRight'
  BY <1>1, SMT DEF StampsRight, IInv
<1>4. Cleaned' /\ Trimmable' /\ Decoded' /\ ScreenshotIsImage'
  BY <1>1, SMT DEF Cleaned, Trimmable, Decoded, ScreenshotIsImage, IInv
<1>5. QED
  BY <1>2, <1>3, <1>4, Zenon DEF IInv

(* The page's next character is the one its number says.                    *)
LEMMA SendKeeps == ASSUME IInv, Send PROVE IInv'
<1>1. /\ phase = "sending" /\ phase' = phase /\ sent \in Nat /\ sent' = sent + 1
      /\ header' = header /\ bytes' = bytes /\ url' = Append(url, Char(sent + 1))
      /\ UNCHANGED <<task, stampVars, bytes, header, decodeVars, phase>>
  BY SMT DEF Send, IInv, TypeOK
<1>2. PICK c \in Chars : c = Char(sent + 1) /\ c # Comma /\ c # Space /\ c # Alien
  <2>1. sent + 1 \in Nat \ {0} /\ TypeOK
    BY <1>1, SMT DEF IInv
  <2>2. QED
    BY <2>1, CharRange, Zenon
<1>3. url' = Append(url, c) /\ UNCHANGED <<header, bytes>>
  BY <1>1, <1>2, SMT
<1>4. /\ url' \in Seq(Chars) /\ Len(url') = Len(url) + 1
      /\ \A i \in 1..Len(url) : url'[i] = url[i]
      /\ url'[Len(url) + 1] = c
      /\ header' <= Len(url') /\ \A i \in DOMAIN url' : url'[i] = Comma <=> i = header'
      /\ Foreign' <=> Foreign
      /\ \A i \in Int : i <= Len(url) => KeptIn(url', header', i) = KeptIn(url, header, i)
      /\ KeptIn(url', header', Len(url')) = KeptIn(url, header, Len(url)) + 1
  BY <1>2, <1>3, Grow, SMT
<1>5. Len(url) \in Nat /\ header \in Nat /\ header <= Len(url)
  BY SMT DEF IInv, TypeOK, Sent
<1>6. ASSUME ~Foreign PROVE Own(url', header', bytes', sent')
  <2>1. Own(url, header, bytes, sent)
    BY <1>6, InTerms, Zenon DEF IInv
  <2>2. sent' = KeptIn(url', header', Len(url'))
    BY <1>1, <1>4, <2>1, SMT DEF Own
  <2>3. ASSUME NEW i \in (header + 1)..(Len(url) + 1), url'[i] # Space
        PROVE  url'[i] = CharIn(bytes, KeptIn(url', header', i))
    <3>1. CASE i <= Len(url)
      <4>1. i \in Int /\ i \in 1..Len(url) /\ i \in (header + 1)..Len(url)
        BY <1>5, <3>1, SMT
      <4>2. KeptIn(url', header', i) = KeptIn(url, header, i) /\ url'[i] = url[i]
        BY <1>4, <3>1, <4>1, SMT
      <4>3. QED
        BY <2>1, <2>3, <4>1, <4>2, Zenon DEF Own
    <3>2. CASE i = Len(url) + 1
      <4>1. url'[i] = CharIn(bytes, sent + 1)
        BY <1>2, <1>4, <3>2, InTerms, Zenon
      <4>2. i = Len(url')
        BY <1>4, <3>2, Zenon
      <4>3. QED
        BY <1>1, <2>2, <4>1, <4>2, Zenon
    <3>3. QED
      BY <1>5, <3>1, <3>2, SMT
  <2>4. QED
    BY <1>1, <1>4, <2>2, <2>3, Zenon DEF Own
<1>7. Sent'
  <2>1. phase' = "sending"
    BY <1>1, SMT
  <2>2. QED
    BY <1>4, <1>6, <2>1, InTermsNext, SMT
<1>8. QED
  <2>1. sent' \in Nat
    BY <1>1, SMT
  <2>2. QED
    BY <1>1, <1>4, <1>7, <2>1, SendingFrame, SMT

(* A space is not counted; a foreign character leaves nothing to say of the *)
(* others.                                                                  *)
LEMMA NoiseKeeps == ASSUME IInv, SendNoise PROVE IInv'
<1>1. /\ phase = "sending" /\ phase' = phase /\ sent \in Nat /\ sent' = sent
      /\ header' = header /\ bytes' = bytes
      /\ UNCHANGED <<task, stampVars, bytes, header, decodeVars, phase>>
  BY SMT DEF SendNoise, IInv, TypeOK
<1>2. PICK c \in Chars : url' = Append(url, c) /\ c # Comma /\ (c = Space \/ c = Alien)
  BY SMT DEF SendNoise, Chars, Space, Alien, Comma
<1>3. UNCHANGED <<header, bytes>>
  BY <1>1, SMT
<1>4. /\ url' \in Seq(Chars) /\ Len(url') = Len(url) + 1
      /\ \A i \in 1..Len(url) : url'[i] = url[i]
      /\ url'[Len(url) + 1] = c
      /\ header' <= Len(url') /\ \A i \in DOMAIN url' : url'[i] = Comma <=> i = header'
      /\ Foreign' <=> Foreign \/ c = Alien
      /\ \A i \in Int : i <= Len(url) => KeptIn(url', header', i) = KeptIn(url, header, i)
      /\ c = Space => KeptIn(url', header', Len(url')) = KeptIn(url, header, Len(url))
  BY <1>2, <1>3, Grow, SMT
<1>5. Len(url) \in Nat /\ header \in Nat /\ header <= Len(url)
  BY SMT DEF IInv, TypeOK, Sent
<1>6. ASSUME ~Foreign' PROVE Own(url', header', bytes', sent')
  <2>1. Own(url, header, bytes, sent) /\ c = Space
    BY <1>2, <1>4, <1>6, InTerms, Zenon DEF IInv
  <2>2. sent' = KeptIn(url', header', Len(url'))
    BY <1>1, <1>4, <2>1, SMT DEF Own
  <2>3. ASSUME NEW i \in (header + 1)..(Len(url) + 1), url'[i] # Space
        PROVE  url'[i] = CharIn(bytes, KeptIn(url', header', i))
    <3>1. i # Len(url) + 1
      BY <1>4, <2>1, <2>3, Zenon
    <3>2. i \in Int /\ i <= Len(url) /\ i \in 1..Len(url) /\ i \in (header + 1)..Len(url)
      BY <1>5, <3>1, SMT
    <3>3. KeptIn(url', header', i) = KeptIn(url, header, i) /\ url'[i] = url[i]
      BY <1>4, <3>2, SMT
    <3>4. QED
      BY <2>1, <2>3, <3>2, <3>3, Zenon DEF Own
  <2>4. QED
    BY <1>1, <1>4, <2>2, <2>3, Zenon DEF Own
<1>7. Sent'
  <2>1. phase' = "sending"
    BY <1>1, SMT
  <2>2. QED
    BY <1>4, <1>6, <2>1, InTermsNext, SMT
<1>8. QED
  <2>1. sent' \in Nat
    BY <1>1, SMT
  <2>2. QED
    BY <1>1, <1>4, <1>7, <2>1, SendingFrame, SMT

-----------------------------------------------------------------------------
(* The capture.                                                            *)

(* Once the page has sent its image, it and the data URL stay as they are. *)
LEMMA CaptureFrame ==
  ASSUME IInv, UNCHANGED <<task, stampVars, pageVars>>,
         phase' \in {"cleaning", "decoding", "written", "failed", "invalid"},
         phase' \notin {"sending", "failed"} => sent >= Sextets,
         text' \in Seq(Chars), pos' \in Nat \ {0}, nbits' \in {0, 2, 4, 6}, buf' \in Nat,
         out' \in Seq(Byte)
  PROVE  /\ TypeOK' /\ StampsRight' /\ Sent'
         /\ Foreign' <=> Foreign
         /\ bytes' = bytes /\ header' = header /\ url' = url /\ sent' = sent /\ Sextets' = Sextets
<1>1. /\ day' = day /\ time' = time /\ date' = date /\ clock' = clock /\ task' = task
      /\ bytes' = bytes /\ header' = header /\ url' = url /\ sent' = sent
  BY SMT DEF stampVars, pageVars
<1>2. TypeOK'
  BY <1>1, SMT DEF TypeOK, IInv
<1>3. StampsRight'
  BY <1>1, SMT DEF StampsRight, IInv
<1>4. Foreign' <=> Foreign
  BY <1>1, SMT DEF Foreign
<1>5. Sextets' = Sextets
  BY <1>1, Zenon DEF Sextets
<1>6. Sent'
  <2>1. /\ header <= Len(url)
        /\ \A i \in DOMAIN url : url[i] = Comma <=> i = header
        /\ Foreign \/ Own(url, header, bytes, sent)
    BY InTerms, Zenon DEF IInv
  <2>2. QED
    BY <1>1, <1>4, <1>5, <2>1, InTermsNext, Zenon
<1>7. QED
  BY <1>1, <1>2, <1>3, <1>4, <1>5, <1>6, Zenon

(* The filter starts behind the header, where nothing is kept yet.          *)
LEMMA RespondKeeps == ASSUME IInv, Respond PROVE IInv'
<1>1. /\ phase = "sending" /\ text' = text /\ buf' = buf /\ nbits' = nbits /\ out' = out
      /\ text = <<>> /\ buf = 0 /\ nbits = 0 /\ out = <<>> /\ pos \in Nat \ {0}
      /\ UNCHANGED <<task, stampVars, pageVars>>
  BY SMT DEF Respond, IInv, Cleaned, TypeOK
<1>2. text' \in Seq(Chars) /\ nbits' \in {0, 2, 4, 6} /\ buf' \in Nat /\ out' \in Seq(Byte)
  BY <1>1, SMT
<1>3. BodyStart(url) = header + 1 /\ header \in Nat
  BY BodyStartIs, SMT DEF IInv, TypeOK
<1>4. CASE sent >= Sextets /\ pos' = BodyStart(url) /\ phase' = "cleaning"
  <2>1. pos' = header + 1 /\ pos' \in Nat \ {0}
    BY <1>3, <1>4, SMT
  <2>2. /\ TypeOK' /\ StampsRight' /\ Sent'
        /\ Foreign' <=> Foreign
        /\ header' = header /\ url' = url /\ bytes' = bytes /\ Sextets' = Sextets
    BY <1>1, <1>2, <1>4, <2>1, CaptureFrame, SMT
  <2>3. KeptIn(url, header, header) = 0
    BY <1>3, KeptNone, Zenon
  <2>4. /\ header <= Len(url) /\ Len(url) \in Nat /\ Sextets \in Nat
        /\ ~Foreign => sent = KeptIn(url, header, Len(url))
    BY InTerms, SextetsNat, SMT DEF IInv, TypeOK, Own
  <2>5. Cleaned'
    <3>1. phase' = "cleaning" /\ text' = <<>> /\ buf' = 0 /\ nbits' = 0 /\ out' = <<>>
      BY <1>1, <1>4, SMT
    <3>2. pos' \in (header' + 1)..(Len(url') + 1)
      BY <1>3, <2>1, <2>2, <2>4, SMT
    <3>3. AlienIn(url', header', text', pos')
      BY <1>3, <2>1, <2>2, SMT DEF AlienIn
    <3>4. ASSUME ~Foreign PROVE Taken(url, header, bytes, text, header + 1)
      <4>1. header + 1 <= Len(url) => Len(text) = KeptIn(url, header, (header + 1) - 1)
        BY <1>1, <1>3, <2>3, SMT
      <4>2. ~(header + 1 <= Len(url)) => Len(text) >= Sextets
        BY <1>1, <1>3, <1>4, <2>3, <2>4, <3>4, SMT
      <4>3. \A k \in DOMAIN text : text[k] = CharIn(bytes, k)
        BY <1>1, SMT
      <4>4. QED
        BY <4>1, <4>2, <4>3, Zenon DEF Taken, Sextets
    <3>5. QED
      BY <1>1, <2>1, <2>2, <3>1, <3>2, <3>3, <3>4, CleanedNext, SMT
  <2>6. Trimmable' /\ Decoded' /\ ScreenshotIsImage'
    BY <1>4, SMT DEF Trimmable, Decoded, ScreenshotIsImage
  <2>7. QED
    BY <2>2, <2>5, <2>6, Zenon DEF IInv
<1>5. CASE phase' = "failed" /\ pos' = pos
  <2>1. TypeOK' /\ StampsRight' /\ Sent'
    BY <1>1, <1>2, <1>5, CaptureFrame, SMT
  <2>2. Cleaned' /\ Trimmable' /\ Decoded' /\ ScreenshotIsImage'
    BY <1>5, SMT DEF Cleaned, Trimmable, Decoded, ScreenshotIsImage
  <2>3. QED
    BY <2>1, <2>2, Zenon DEF IInv
<1>6. QED
  BY <1>4, <1>5, Zenon DEF Respond

(* The filter appends a character that is kept, as the next of the text.    *)
LEMMA CleanKeeps == ASSUME IInv, Clean PROVE IInv'
<1>1. /\ phase = "cleaning" /\ phase' = phase /\ pos \in 1..Len(url) /\ pos' = pos + 1
      /\ buf' = buf /\ nbits' = nbits /\ out' = out
      /\ text' = IF url[pos] = Space THEN text ELSE Append(text, url[pos])
      /\ UNCHANGED <<task, stampVars, pageVars>>
  BY SMT DEF Clean, IInv, TypeOK
<1>2. /\ url \in Seq(Chars) /\ Len(url) \in Nat /\ text \in Seq(Chars)
      /\ nbits \in {0, 2, 4, 6} /\ buf \in Nat /\ out \in Seq(Byte)
      /\ header \in Nat
  BY SMT DEF IInv, TypeOK
<1>3. PICK u \in Chars : u = url[pos]
  BY <1>1, <1>2, SMT
<1>4. pos \in Nat \ {0} /\ pos' \in Nat \ {0} /\ pos \in Int /\ pos <= Len(url)
  BY <1>1, <1>2, SMT
<1>5. text' = IF u = Space THEN text ELSE Append(text, u)
  BY <1>1, <1>3, Zenon
<1>6. text' \in Seq(Chars)
  BY <1>2, <1>5, SMT
<1>7. sent >= Sextets
  BY <1>1, SMT DEF IInv, Sent
<1>8. /\ TypeOK' /\ StampsRight' /\ Sent'
      /\ Foreign' <=> Foreign
      /\ header' = header /\ url' = url /\ bytes' = bytes
  BY <1>1, <1>2, <1>4, <1>6, <1>7, CaptureFrame, SMT
<1>9. /\ buf = 0 /\ nbits = 0 /\ out = <<>>
      /\ pos \in (header + 1)..(Len(url) + 1)
      /\ ~Foreign => Taken(url, header, bytes, text, pos)
      /\ AlienIn(url, header, text, pos)
  BY <1>1, CleanedInTerms, SMT DEF IInv
<1>10. ASSUME ~Foreign PROVE Taken(url, header, bytes, text', pos + 1)
  <2>1. \A k \in DOMAIN text : text[k] = CharIn(bytes, k)
    BY <1>9, <1>10, SMT DEF Taken
  <2>2. Len(text) = KeptIn(url, header, pos - 1)
    BY <1>4, <1>9, <1>10, SMT DEF Taken
  <2>3. KeptIn(url, header, pos) =
          IF u # Space THEN KeptIn(url, header, pos - 1) + 1 ELSE KeptIn(url, header, pos - 1)
    <3>1. pos - 1 \in Nat /\ header <= pos - 1 /\ pos - 1 + 1 = pos /\ (pos - 1) + 1 = pos
      BY <1>2, <1>4, <1>9, SMT
    <3>2. KeptIn(url, header, (pos - 1) + 1) =
            IF url[(pos - 1) + 1] # Space THEN KeptIn(url, header, pos - 1) + 1
            ELSE KeptIn(url, header, pos - 1)
      BY <1>2, <3>1, KeptStep, Zenon
    <3>3. QED
      BY <1>3, <3>1, <3>2, Zenon
  <2>4. Len(text') = KeptIn(url, header, pos)
    BY <1>2, <1>5, <2>2, <2>3, SMT
  <2>5. Own(url, header, bytes, sent)
    BY <1>10, InTerms, Zenon DEF IInv
  <2>6. u # Space => u = CharIn(bytes, Len(text) + 1)
    <3>1. pos \in (header + 1)..Len(url)
      BY <1>2, <1>4, <1>9, SMT
    <3>2. u # Space => u = CharIn(bytes, KeptIn(url, header, pos))
      BY <1>3, <2>5, <3>1, Zenon DEF Own
    <3>3. QED
      BY <2>2, <2>3, <3>2, SMT
  <2>7. \A k \in DOMAIN text' : text'[k] = CharIn(bytes, k)
    BY <1>2, <1>5, <2>1, <2>6, SMT
  <2>8. pos + 1 <= Len(url) => Len(text') = KeptIn(url, header, (pos + 1) - 1)
    <3>1. (pos + 1) - 1 = pos
      BY <1>4, SMT
    <3>2. QED
      BY <2>4, <3>1, Zenon
  <2>9. ~(pos + 1 <= Len(url)) => Len(text') >= Sextets
    <3>1. ~(pos + 1 <= Len(url)) => pos = Len(url)
      BY <1>2, <1>4, SMT
    <3>2. sent = KeptIn(url, header, Len(url))
      BY <2>5, Zenon DEF Own
    <3>3. QED
      BY <1>7, <2>4, <3>1, <3>2, Zenon
  <2>10. QED
    BY <2>7, <2>8, <2>9, Zenon DEF Taken, Sextets
<1>11. AlienIn(url, header, text', pos + 1)
  <2>1. SUFFICES ASSUME NEW i \in (header + 1)..((pos + 1) - 1), url[i] = Alien
                 PROVE  \E k \in DOMAIN text' : text'[k] = Alien
    BY Zenon DEF AlienIn
  <2>2. CASE i = pos
    <3>1. u = Alien /\ u # Space
      BY <1>3, <2>1, <2>2, SMT DEF Alien, Space
    <3>2. Len(text) + 1 \in DOMAIN text' /\ text'[Len(text) + 1] = Alien
      BY <1>2, <1>5, <3>1, SMT
    <3>3. QED
      BY <3>2, Zenon
  <2>3. CASE i # pos
    <3>1. i \in (header + 1)..(pos - 1)
      BY <1>2, <1>4, <2>3, SMT
    <3>2. PICK k \in DOMAIN text : text[k] = Alien
      BY <1>9, <2>1, <3>1, Zenon DEF AlienIn
    <3>3. k \in DOMAIN text' /\ text'[k] = Alien
      BY <1>2, <1>5, <3>2, SMT
    <3>4. QED
      BY <3>3, Zenon
  <2>4. QED
    BY <2>2, <2>3, Zenon
<1>12. Cleaned'
  <2>1. pos' \in (header' + 1)..(Len(url') + 1)
    BY <1>1, <1>2, <1>4, <1>8, <1>9, SMT
  <2>2. QED
    BY <1>1, <1>8, <1>9, <1>10, <1>11, <2>1, CleanedNext, SMT
<1>13. Trimmable' /\ Decoded' /\ ScreenshotIsImage'
  BY <1>1, SMT DEF Trimmable, Decoded, ScreenshotIsImage
<1>14. QED
  BY <1>8, <1>12, <1>13, Zenon DEF IInv

(* What trim_end_matches takes is behind the image.                         *)
LEMMA TrimKeeps == ASSUME IInv, Trim PROVE IInv'
<1>1. /\ phase = "cleaning" /\ phase' = phase /\ pos > Len(url) /\ pos' = pos
      /\ buf' = buf /\ nbits' = nbits /\ out' = out
      /\ text # <<>> /\ text[Len(text)] = Pad
      /\ text' = SubSeq(text, 1, Len(text) - 1)
      /\ UNCHANGED <<task, stampVars, pageVars>>
  BY SMT DEF Trim, Padded
<1>2. /\ Len(url) \in Nat /\ text \in Seq(Chars) /\ pos \in Nat \ {0} /\ pos \in Nat
      /\ nbits \in {0, 2, 4, 6} /\ buf \in Nat /\ out \in Seq(Byte)
      /\ Len(text) \in Nat /\ Len(text) # 0
  BY <1>1, SMT DEF IInv, TypeOK
<1>3. /\ text' \in Seq(Chars) /\ Len(text') = Len(text) - 1
      /\ \A k \in 1..(Len(text) - 1) : text'[k] = text[k]
  <2>1. PICK n \in Int : n = Len(text) - 1 /\ 0 <= n /\ text' = SubSeq(text, 1, n)
    BY <1>1, <1>2, SMT
  <2>2. 1 \in Int /\ \A k \in 1..n : text[k] \in Chars
    BY <1>2, <2>1, SMT
  <2>3. /\ SubSeq(text, 1, n) \in Seq(Chars)
        /\ Len(SubSeq(text, 1, n)) = IF 1 <= n THEN n - 1 + 1 ELSE 0
        /\ \A k \in 1..(n - 1 + 1) : SubSeq(text, 1, n)[k] = text[1 + k - 1]
    BY <2>2, SubSeqProperties, SMT
  <2>4. Len(text') = n
    BY <2>1, <2>3, SMT
  <2>5. \A k \in 1..n : k \in 1..(n - 1 + 1) /\ 1 + k - 1 = k
    BY <2>1, SMT
  <2>6. QED
    BY <2>1, <2>3, <2>4, <2>5, Zenon
<1>4. sent >= Sextets /\ Sextets \in Nat
  BY <1>1, SextetsNat, SMT DEF IInv, Sent
<1>5. /\ TypeOK' /\ StampsRight' /\ Sent'
      /\ Foreign' <=> Foreign
      /\ header' = header /\ url' = url /\ bytes' = bytes
  BY <1>1, <1>2, <1>3, <1>4, CaptureFrame, SMT
<1>6. /\ buf = 0 /\ nbits = 0 /\ out = <<>>
      /\ pos \in (header + 1)..(Len(url) + 1)
      /\ ~Foreign => Taken(url, header, bytes, text, pos)
      /\ AlienIn(url, header, text, pos)
  BY <1>1, CleanedInTerms, SMT DEF IInv
<1>7. ASSUME ~Foreign PROVE Taken(url, header, bytes, text', pos)
  <2>1. \A k \in DOMAIN text : text[k] = CharIn(bytes, k)
    BY <1>6, <1>7, SMT DEF Taken
  <2>2. Len(text) \in Nat \ {0} /\ TypeOK
    BY <1>2, SMT DEF IInv
  <2>3. Len(text) > Sextets
    <3>1. Char(Len(text)) = Pad
      <4>1. Len(text) \in DOMAIN text
        BY <1>2, SMT
      <4>2. QED
        BY <1>1, <2>1, <4>1, InTerms, Zenon
    <3>2. ~(Len(text) <= Sextets)
      BY <2>2, <3>1, CharRange, Zenon
    <3>3. QED
      BY <1>2, <1>4, <3>2, SMT
  <2>4. \A k \in DOMAIN text' : text'[k] = CharIn(bytes, k)
    <3>1. DOMAIN text' = 1..(Len(text) - 1) /\ 1..(Len(text) - 1) \subseteq DOMAIN text
      BY <1>2, <1>3, SMT
    <3>2. QED
      BY <1>3, <2>1, <3>1, Zenon
  <2>5. ~(pos <= Len(url)) /\ Len(text') >= Sextets
    BY <1>1, <1>2, <1>3, <1>4, <2>3, SMT
  <2>6. QED
    BY <2>4, <2>5, Zenon DEF Taken, Sextets
<1>8. AlienIn(url, header, text', pos)
  <2>1. SUFFICES ASSUME NEW k \in DOMAIN text, text[k] = Alien
                 PROVE  \E l \in DOMAIN text' : text'[l] = Alien
    BY <1>6, Zenon DEF AlienIn
  <2>2. k # Len(text)
    BY <1>1, <2>1, SMT DEF Pad, Alien
  <2>3. k \in DOMAIN text' /\ text'[k] = Alien
    BY <1>2, <1>3, <2>1, <2>2, SMT
  <2>4. QED
    BY <2>3, Zenon
<1>9. Cleaned'
  BY <1>1, <1>5, <1>6, <1>7, <1>8, CleanedNext, SMT
<1>10. Trimmable' /\ Decoded' /\ ScreenshotIsImage'
  BY <1>1, SMT DEF Trimmable, Decoded, ScreenshotIsImage
<1>11. QED
  BY <1>5, <1>9, <1>10, Zenon DEF IInv

(* What it leaves is the image: anything more would be padding.             *)
LEMMA BeginKeeps == ASSUME IInv, Begin PROVE IInv'
<1>1. /\ phase = "cleaning" /\ phase' = "decoding" /\ pos > Len(url) /\ pos' = 1
      /\ text' = text /\ buf' = buf /\ nbits' = nbits /\ out' = out
      /\ ~(text # <<>> /\ text[Len(text)] = Pad)
      /\ UNCHANGED <<task, stampVars, pageVars>>
  BY SMT DEF Begin, Padded
<1>2. /\ Len(url) \in Nat /\ text \in Seq(Chars) /\ pos \in Nat
      /\ nbits \in {0, 2, 4, 6} /\ buf \in Nat /\ out \in Seq(Byte)
      /\ Len(text) \in Nat /\ bytes \in Seq(Byte) /\ header \in Nat
  BY <1>1, SMT DEF IInv, TypeOK
<1>3. sent >= Sextets /\ Sextets \in Nat
  BY <1>1, SextetsNat, SMT DEF IInv, Sent
<1>4. /\ TypeOK' /\ StampsRight' /\ Sent'
      /\ Foreign' <=> Foreign
      /\ header' = header /\ url' = url /\ bytes' = bytes /\ Sextets' = Sextets
  BY <1>1, <1>2, <1>3, CaptureFrame, SMT
<1>5. /\ buf = 0 /\ nbits = 0 /\ out = <<>>
      /\ pos \in (header + 1)..(Len(url) + 1)
      /\ ~Foreign => Taken(url, header, bytes, text, pos)
      /\ AlienIn(url, header, text, pos)
  BY <1>1, CleanedInTerms, SMT DEF IInv
<1>6. ASSUME Foreign PROVE \E k \in DOMAIN text : text[k] = Alien
  <2>1. PICK i \in (header + 1)..Len(url) : url[i] = Alien
    BY <1>6, Zenon DEF Foreign
  <2>2. i \in (header + 1)..(pos - 1)
    BY <1>1, <1>2, <1>5, SMT
  <2>3. QED
    BY <1>5, <2>1, <2>2, Zenon DEF AlienIn
<1>7. ASSUME ~Foreign PROVE Len(text) = Sextets /\ \A k \in DOMAIN text : text[k] = Sextet(bytes, k)
  <2>1. /\ \A k \in DOMAIN text : text[k] = Char(k)
        /\ Len(text) >= Sextets
    <3>1. ~(pos <= Len(url))
      BY <1>1, <1>2, SMT
    <3>2. QED
      BY <1>5, <1>7, <3>1, InTerms, Zenon DEF Taken, Sextets
  <2>2. Len(text) = Sextets
    <3>1. SUFFICES ASSUME Len(text) > Sextets PROVE FALSE
      BY <1>2, <1>3, <2>1, SMT
    <3>2. Len(text) \in Nat \ {0} /\ Len(text) \in DOMAIN text /\ text # <<>> /\ TypeOK
      BY <1>2, <1>3, <3>1, SMT DEF IInv
    <3>3. Char(Len(text)) = Pad
      BY <3>1, <3>2, CharRange, Zenon
    <3>4. QED
      BY <1>1, <2>1, <3>2, <3>3, Zenon
  <2>3. ASSUME NEW k \in DOMAIN text PROVE text[k] = Sextet(bytes, k)
    <3>1. k \in Nat \ {0} /\ k <= Sextets
      BY <1>2, <2>2, <2>3, SMT
    <3>2. QED
      BY <2>1, <2>3, <3>1, Zenon DEF Char
  <2>4. QED
    BY <2>2, <2>3, Zenon
<1>8. Cleaned'
  BY <1>1, SMT DEF Cleaned
<1>9. Trimmable'
  <2>1. CASE Foreign
    BY <1>1, <1>4, <1>6, <2>1, Zenon DEF Trimmable
  <2>2. CASE ~Foreign
    BY <1>1, <1>4, <1>7, <2>2, Zenon DEF Trimmable
  <2>3. QED
    BY <2>1, <2>2, Zenon
<1>10. Decoded'
  <2>1. buf' % 2^nbits' = ByteAt(bytes', Len(out') + 1) \div 2^(8 - nbits')
    <3>1. PICK b \in Int : b = ByteAt(bytes, 1) /\ 0 <= b /\ b <= 255
      <4>1. 1 \in Nat \ {0}
        BY SMT
      <4>2. QED
        BY <1>2, <4>1, BytesAreBytes, Zenon
    <3>2. 0 % 1 = 0 /\ b \div 256 = 0
      BY <3>1, SMT
    <3>3. nbits' = 0 /\ 8 - nbits' = 8 /\ Len(out') + 1 = 1 /\ buf' = 0
      BY <1>1, <1>5, SMT
    <3>4. 2^nbits' = 1 /\ 2^(8 - nbits') = 256
      BY <3>3, Powers
    <3>5. ByteAt(bytes', Len(out') + 1) = b
      BY <1>4, <3>1, <3>3, Zenon
    <3>6. QED
      BY <3>2, <3>3, <3>4, <3>5, SMT
  <2>2. 8 * Len(out') + nbits' = 6 * (pos' - 1) /\ DOMAIN out' = {}
    BY <1>1, <1>5, SMT
  <2>3. pos' <= Len(text') + 1 /\ 1..(pos' - 1) = {}
    BY <1>1, <1>2, SMT
  <2>4. QED
    BY <1>1, <2>1, <2>2, <2>3, SMT DEF Decoded
<1>11. ScreenshotIsImage'
  BY <1>1, SMT DEF ScreenshotIsImage
<1>12. QED
  BY <1>4, <1>8, <1>9, <1>10, <1>11, Zenon DEF IInv

(* Character c is the next one after b, of whose last w bits, and of c, the *)
(* byte x is made, and y begun.                                            *)
Fits(b, c, w, x, y) ==
  /\ b % 2^w = x \div 2^(8 - w)
  /\ w = 0 => c = x \div 4
  /\ w = 6 => c = 16 * (x % 4) + y \div 16
  /\ w = 4 => c = 4 * (x % 16) + y \div 64
  /\ w = 2 => c = x % 64

(* What the decoder puts out, by the bits it had over.                     *)
Stepped(w, x, y, v) ==
  /\ v \in Nat
  /\ w = 0 => v % 2^6 = x \div 2^(8 - 6)
  /\ w # 0 => /\ (v \div 2^(w - 2)) % 256 = x
             /\ v % 2^(w - 2) = y \div 2^(8 - (w - 2))

LEMMA DecodeStep ==
  ASSUME NEW b \in Nat, NEW c \in Int, 0 <= c, c < 64, NEW w \in {0, 2, 4, 6},
         NEW x \in Byte, NEW y \in Byte,
         Fits(b, c, w, x, y),
         NEW v, v = (b * 64 + c) % Modulus
  PROVE  Stepped(w, x, y, v)
<1>1. x \in Int /\ 0 <= x /\ x <= 255 /\ y \in Int /\ 0 <= y /\ y <= 255
  BY SMT DEF Byte
<1>2. /\ v \in Nat
      /\ v % 64 = c
      /\ (v \div 16) % 256 = 4 * (b % 64) + c \div 16 /\ v % 16 = c % 16
      /\ (v \div 4) % 256 = 16 * (b % 16) + c \div 4 /\ v % 4 = c % 4
      /\ v % 256 = 64 * (b % 4) + c
  <2>1. Pushed(b, c, v)
    BY Push, Zenon
  <2>2. QED
    BY <2>1, Zenon DEF Pushed
<1>3. w = 0 \/ w = 2 \/ w = 4 \/ w = 6
  OBVIOUS
<1>4. ASSUME w = 0 PROVE v % 2^6 = x \div 2^(8 - 6)
  <2>1. 2^6 = 64 /\ 2^(8 - 6) = 4
    OBVIOUS
  <2>2. QED
    BY <1>2, <1>4, <2>1, SMT DEF Fits
<1>5. ASSUME w = 6 PROVE (v \div 2^(w - 2)) % 256 = x /\ v % 2^(w - 2) = y \div 2^(8 - (w - 2))
  <2>1. 2^w = 64 /\ 2^(8 - w) = 4 /\ 2^(w - 2) = 16 /\ 2^(8 - (w - 2)) = 16
    <3>1. 8 - w = 2 /\ w - 2 = 4 /\ 8 - (w - 2) = 4
      BY <1>5, SMT
    <3>2. QED
      BY <1>5, <3>1, Powers, Zenon
  <2>2. b % 64 = x \div 4 /\ c = 16 * (x % 4) + y \div 16
    BY <1>5, <2>1, Zenon DEF Fits
  <2>3. 4 * (b % 64) + c \div 16 = x /\ c % 16 = y \div 16
    BY <1>1, <2>2, SMT
  <2>4. QED
    BY <1>2, <2>1, <2>3, Zenon
<1>6. ASSUME w = 4 PROVE (v \div 2^(w - 2)) % 256 = x /\ v % 2^(w - 2) = y \div 2^(8 - (w - 2))
  <2>1. 2^w = 16 /\ 2^(8 - w) = 16 /\ 2^(w - 2) = 4 /\ 2^(8 - (w - 2)) = 64
    <3>1. 8 - w = 4 /\ w - 2 = 2 /\ 8 - (w - 2) = 6
      BY <1>6, SMT
    <3>2. QED
      BY <1>6, <3>1, Powers, Zenon
  <2>2. b % 16 = x \div 16 /\ c = 4 * (x % 16) + y \div 64
    BY <1>6, <2>1, Zenon DEF Fits
  <2>3. 16 * (b % 16) + c \div 4 = x /\ c % 4 = y \div 64
    BY <1>1, <2>2, SMT
  <2>4. QED
    BY <1>2, <2>1, <2>3, Zenon
<1>7. ASSUME w = 2 PROVE (v \div 2^(w - 2)) % 256 = x /\ v % 2^(w - 2) = y \div 2^(8 - (w - 2))
  <2>1. 2^w = 4 /\ 2^(8 - w) = 64 /\ 2^(w - 2) = 1 /\ 2^(8 - (w - 2)) = 256
    <3>1. 8 - w = 6 /\ w - 2 = 0 /\ 8 - (w - 2) = 8
      BY <1>7, SMT
    <3>2. 2^w = 4 /\ 2^(8 - w) = 64
      BY <1>7, <3>1, Powers, Zenon
    <3>3. 2^(w - 2) = 1 /\ 2^(8 - (w - 2)) = 256
      BY <3>1, Powers, SMT
    <3>4. QED
      BY <3>2, <3>3, Zenon
  <2>2. b % 4 = x \div 64 /\ c = x % 64
    BY <1>7, <2>1, Zenon DEF Fits
  <2>3. 64 * (b % 4) + c = x /\ v \div 1 = v /\ v % 1 = 0 /\ y \div 256 = 0
    BY <1>1, <1>2, <2>2, SMT
  <2>4. (v \div 1) % 256 = x /\ v % 1 = y \div 256
    BY <1>2, <2>3, SMT
  <2>5. QED
    BY <2>1, <2>4, Zenon
<1>8. QED
  BY <1>2, <1>3, <1>4, <1>5, <1>6, <1>7, Zenon DEF Stepped

(* decode_base64 puts out the image's next byte, or begins it.              *)
LEMMA DecodeKeeps == ASSUME IInv, Decode PROVE IInv'
<1>1. /\ phase = "decoding" /\ phase' = phase /\ pos \in DOMAIN text /\ text[pos] \in Base64
      /\ text' = text /\ pos' = pos + 1
      /\ buf' = (buf * 64 + text[pos]) % Modulus
      /\ UNCHANGED <<task, stampVars, pageVars>>
  BY SMT DEF Decode
<1>2. /\ text \in Seq(Chars) /\ bytes \in Seq(Byte) /\ out \in Seq(Byte) /\ pos \in Nat \ {0}
      /\ buf \in Nat /\ nbits \in {0, 2, 4, 6} /\ Len(text) \in Nat /\ Len(out) \in Nat
      /\ pos \in Int /\ pos <= Len(text)
  BY <1>1, SMT DEF IInv, TypeOK
<1>3. PICK c \in Int : c = text[pos] /\ 0 <= c /\ c < 64
  BY <1>1, SMT DEF Base64
<1>4. PICK v : v = (buf * 64 + c) % Modulus /\ v = buf'
  BY <1>1, <1>3, Zenon
<1>5. v \in Nat
  <2>1. Pushed(buf, c, v)
    BY <1>2, <1>3, <1>4, Push, Zenon
  <2>2. QED
    BY <2>1, Zenon DEF Pushed
<1>6. \/ /\ nbits = 0 /\ nbits' = 6 /\ out' = out
      \/ /\ nbits \in {2, 4, 6} /\ nbits' = nbits - 2 /\ out' = Append(out, (v \div 2^(nbits - 2)) % 256)
  <2>1. IF nbits + 6 >= 8
          THEN nbits' = nbits - 2 /\ out' = Append(out, (buf' \div 2^nbits') % 256)
          ELSE nbits' = nbits + 6 /\ out' = out
    BY Zenon DEF Decode
  <2>2. CASE nbits = 0
    <3>1. nbits' = nbits + 6 /\ out' = out
      BY <2>1, <2>2, SMT
    <3>2. QED
      BY <2>2, <3>1, SMT
  <2>3. CASE nbits \in {2, 4, 6}
    <3>1. nbits + 6 >= 8
      BY <2>3, SMT
    <3>2. QED
      BY <1>4, <2>1, <2>3, <3>1, Zenon
  <2>4. QED
    BY <1>2, <2>2, <2>3, SMT
<1>7. nbits' \in {0, 2, 4, 6}
  BY <1>6, SMT
<1>8. out' \in Seq(Byte)
  <2>1. \A z \in Int : z % 256 \in Byte
    <3>1. \A z \in Int : 0 <= z /\ z <= 255 => z \in Byte
      BY SMT DEF Byte
    <3>2. \A z \in Int : z % 256 \in Int /\ 0 <= z % 256 /\ z % 256 <= 255
      BY SMT
    <3>3. QED
      BY <3>1, <3>2, SMT
  <2>2. v \div 1 \in Int /\ v \div 4 \in Int /\ v \div 16 \in Int
    BY <1>5, SMT
  <2>3. ASSUME nbits \in {2, 4, 6} PROVE (v \div 2^(nbits - 2)) % 256 \in Byte
    <3>1. nbits - 2 = 0 \/ nbits - 2 = 2 \/ nbits - 2 = 4
      BY <2>3, SMT
    <3>2. 2^(nbits - 2) = 1 \/ 2^(nbits - 2) = 4 \/ 2^(nbits - 2) = 16
      <4>1. \A z : (z = 0 => 2^z = 1) /\ (z = 2 => 2^z = 4) /\ (z = 4 => 2^z = 16)
        BY Powers, Zenon
      <4>2. QED
        BY <3>1, <4>1, Zenon
    <3>3. v \div 2^(nbits - 2) \in Int
      BY <2>2, <3>2, Zenon
    <3>4. QED
      BY <2>1, <3>3, Zenon
  <2>4. \A z \in Byte : Append(out, z) \in Seq(Byte)
    BY <1>2, SMT
  <2>5. QED
    BY <1>2, <1>6, <2>3, <2>4, Zenon
<1>9. pos' \in Nat \ {0} /\ text' \in Seq(Chars) /\ buf' \in Nat
  BY <1>1, <1>2, <1>4, <1>5, SMT
<1>10. sent >= Sextets /\ Sextets \in Nat
  BY <1>1, SextetsNat, SMT DEF IInv, Sent
<1>11. /\ TypeOK' /\ StampsRight' /\ Sent'
       /\ Foreign' <=> Foreign
       /\ header' = header /\ url' = url /\ bytes' = bytes /\ Sextets' = Sextets
  BY <1>1, <1>7, <1>8, <1>9, <1>10, CaptureFrame, SMT
<1>12. Cleaned' /\ ScreenshotIsImage'
  BY <1>1, SMT DEF Cleaned, ScreenshotIsImage
<1>13. Trimmable'
  <2>1. IF Foreign THEN \E k \in DOMAIN text : text[k] = Alien
        ELSE Len(text) = Sextets /\ \A k \in DOMAIN text : text[k] = Sextet(bytes, k)
    BY <1>1, SMT DEF IInv, Trimmable
  <2>2. QED
    BY <1>1, <1>11, <2>1, Zenon DEF Trimmable
<1>14. /\ \A k \in 1..(pos - 1) : text[k] \in Base64
       /\ ~Foreign => /\ 8 * Len(out) + nbits = 6 * (pos - 1)
                      /\ \A k \in DOMAIN out : out[k] = ByteAt(bytes, k)
                      /\ buf % 2^nbits = ByteAt(bytes, Len(out) + 1) \div 2^(8 - nbits)
  BY <1>1, Zenon DEF IInv, Decoded
<1>15. ASSUME ~Foreign
       PROVE  /\ 8 * Len(out') + nbits' = 6 * (pos' - 1)
              /\ \A k \in DOMAIN out' : out'[k] = ByteAt(bytes, k)
              /\ buf' % 2^nbits' = ByteAt(bytes, Len(out') + 1) \div 2^(8 - nbits')
  <2>1. Len(out) + 1 \in Nat \ {0} /\ Len(out) + 2 \in Nat \ {0}
    BY <1>2, SMT
  <2>2. PICK x \in Int : x = ByteAt(bytes, Len(out) + 1) /\ 0 <= x /\ x <= 255
    BY <1>2, <2>1, BytesAreBytes, Zenon
  <2>3. PICK y \in Int : y = ByteAt(bytes, Len(out) + 2) /\ 0 <= y /\ y <= 255
    BY <1>2, <2>1, BytesAreBytes, Zenon
  <2>4. c = Sextet(bytes, pos)
    <3>1. \A k \in DOMAIN text : text[k] = Sextet(bytes, k)
      BY <1>1, <1>15, SMT DEF IInv, Trimmable
    <3>2. QED
      BY <1>1, <1>3, <3>1, Zenon
  <2>5. 8 * Len(out) + nbits = 6 * (pos - 1)
    BY <1>14, <1>15, Zenon
  <2>6. PICK n \in Nat : n = Len(out)
    BY <1>2, Zenon
  <2>7. 8 * n + nbits = 6 * (pos - 1)
    BY <2>5, <2>6, Zenon
  <2>8. /\ nbits = 0 => Sextet(bytes, pos) = ByteAt(bytes, n + 1) \div 4
        /\ nbits = 6 => Sextet(bytes, pos) = 16 * (ByteAt(bytes, n + 1) % 4) + ByteAt(bytes, n + 2) \div 16
        /\ nbits = 4 => Sextet(bytes, pos) = 4 * (ByteAt(bytes, n + 1) % 16) + ByteAt(bytes, n + 2) \div 64
        /\ nbits = 2 => Sextet(bytes, pos) = ByteAt(bytes, n + 1) % 64
    BY <1>2, <2>7, SextetAt, SMT
  <2>9. /\ nbits = 0 => c = x \div 4
        /\ nbits = 6 => c = 16 * (x % 4) + y \div 16
        /\ nbits = 4 => c = 4 * (x % 16) + y \div 64
        /\ nbits = 2 => c = x % 64
    BY <2>2, <2>3, <2>4, <2>6, <2>8, Zenon
  <2>10. buf % 2^nbits = x \div 2^(8 - nbits)
    BY <1>14, <1>15, <2>2, Zenon
  <2>11. /\ nbits = 0 => v % 2^6 = x \div 2^(8 - 6)
         /\ nbits # 0 => /\ (v \div 2^(nbits - 2)) % 256 = x
                         /\ v % 2^(nbits - 2) = y \div 2^(8 - (nbits - 2))
    <3>1. x \in Byte /\ y \in Byte
      <4>1. \A z \in Int : 0 <= z /\ z <= 255 => z \in Byte
        BY SMT DEF Byte
      <4>2. QED
        BY <2>2, <2>3, <4>1, Zenon
    <3>2. Fits(buf, c, nbits, x, y)
      BY <2>9, <2>10, Zenon DEF Fits
    <3>3. buf \in Nat /\ nbits \in {0, 2, 4, 6} /\ 0 <= c /\ c < 64 /\ v = (buf * 64 + c) % Modulus
      BY <1>2, <1>3, <1>4, Zenon
    <3>4. Stepped(nbits, x, y, v)
      BY <3>1, <3>2, <3>3, DecodeStep, Zenon
    <3>5. QED
      BY <3>4, Zenon DEF Stepped
  <2>12. CASE nbits = 0 /\ nbits' = 6 /\ out' = out
    <3>1. 8 * Len(out') + nbits' = 6 * (pos' - 1)
      <4>1. 8 * n + 6 = 6 * ((pos + 1) - 1)
        BY <1>2, <2>12, <2>7, SMT
      <4>2. QED
        BY <1>1, <2>12, <2>6, <4>1, Zenon
    <3>2. QED
      BY <1>4, <1>14, <1>15, <2>2, <2>11, <2>12, <3>1, Zenon
  <2>13. CASE nbits \in {2, 4, 6} /\ nbits' = nbits - 2 /\ out' = Append(out, x)
    <3>1. /\ Len(out') = Len(out) + 1 /\ DOMAIN out' = 1..(Len(out) + 1)
          /\ \A k \in 1..Len(out) : out'[k] = out[k]
          /\ out'[Len(out) + 1] = x
      <4>1. x \in Byte
        <5>1. \A z \in Int : 0 <= z /\ z <= 255 => z \in Byte
          BY SMT DEF Byte
        <5>2. QED
          BY <2>2, <5>1, Zenon
      <4>2. QED
        BY <1>2, <2>13, <4>1, SMT
    <3>2. 8 * Len(out') + nbits' = 6 * (pos' - 1)
      <4>1. 8 * (n + 1) + (nbits - 2) = 6 * ((pos + 1) - 1)
        BY <1>2, <2>13, <2>7, SMT
      <4>2. QED
        BY <1>1, <2>13, <2>6, <3>1, <4>1, Zenon
    <3>3. \A k \in DOMAIN out' : out'[k] = ByteAt(bytes, k)
      <4>1. \A k \in 1..(Len(out) + 1) : (k \in DOMAIN out /\ k \in 1..Len(out)) \/ k = Len(out) + 1
        BY <1>2, SMT
      <4>2. QED
        BY <1>14, <1>15, <2>2, <3>1, <4>1, Zenon
    <3>4. nbits # 0 /\ Len(out') + 1 = Len(out) + 2
      BY <1>2, <2>13, <3>1, SMT
    <3>5. QED
      BY <1>4, <2>3, <2>11, <2>13, <3>2, <3>3, <3>4, Zenon
  <2>14. QED
    <3>1. nbits \in {2, 4, 6} => nbits # 0
      BY SMT
    <3>2. QED
      BY <1>6, <2>11, <2>12, <2>13, <3>1, Zenon
<1>16. Decoded'
  <2>1. pos' <= Len(text') + 1
    BY <1>1, <1>2, SMT
  <2>2. \A k \in 1..(pos' - 1) : text'[k] \in Base64
    <3>1. \A k \in 1..(pos' - 1) : k \in 1..(pos - 1) \/ k = pos
      BY <1>1, <1>2, SMT
    <3>2. QED
      BY <1>1, <1>14, <3>1, Zenon
  <2>3. phase' # "written"
    BY <1>1, SMT
  <2>4. QED
    BY <1>11, <1>15, <2>1, <2>2, <2>3, Zenon DEF Decoded
<1>17. QED
  BY <1>11, <1>12, <1>13, <1>16, Zenon DEF IInv

(* What the last step of a capture leaves alone.                            *)
LEMMA EndFrame ==
  ASSUME IInv, phase = "decoding", phase' \in {"written", "failed", "invalid"},
         UNCHANGED <<task, stampVars, pageVars, decodeVars>>
  PROVE  /\ TypeOK' /\ StampsRight' /\ Sent' /\ Cleaned' /\ Trimmable'
         /\ Foreign' <=> Foreign
         /\ bytes' = bytes /\ text' = text /\ pos' = pos /\ buf' = buf /\ nbits' = nbits /\ out' = out
<1>1. /\ text' = text /\ pos' = pos /\ buf' = buf /\ nbits' = nbits /\ out' = out
      /\ UNCHANGED <<task, stampVars, pageVars>>
  BY Zenon DEF decodeVars
<1>2. /\ text' \in Seq(Chars) /\ pos' \in Nat \ {0} /\ nbits' \in {0, 2, 4, 6} /\ buf' \in Nat
      /\ out' \in Seq(Byte) /\ sent >= Sextets
  BY <1>1, SMT DEF IInv, TypeOK, Sent
<1>3. phase' \in {"cleaning", "decoding", "written", "failed", "invalid"}
  BY Zenon
<1>4. /\ TypeOK' /\ StampsRight' /\ Sent'
      /\ Foreign' <=> Foreign
      /\ header' = header /\ url' = url /\ bytes' = bytes /\ Sextets' = Sextets
  BY <1>1, <1>2, <1>3, CaptureFrame, SMT
<1>5. Cleaned'
  BY SMT DEF Cleaned
<1>6. Trimmable'
  <2>1. IF Foreign THEN \E k \in DOMAIN text : text[k] = Alien
        ELSE Len(text) = Sextets /\ \A k \in DOMAIN text : text[k] = Sextet(bytes, k)
    BY SMT DEF IInv, Trimmable
  <2>2. QED
    BY <1>1, <1>4, <2>1, Zenon DEF Trimmable
<1>7. QED
  BY <1>1, <1>4, <1>5, <1>6, Zenon

(* The decoder refuses no character of the image.                           *)
LEMMA RejectKeeps == ASSUME IInv, Reject PROVE IInv'
<1>1. /\ phase = "decoding" /\ phase' = "invalid" /\ pos \in DOMAIN text /\ text[pos] \notin Base64
      /\ UNCHANGED <<task, stampVars, pageVars, decodeVars>>
  BY Zenon DEF Reject
<1>2. /\ TypeOK' /\ StampsRight' /\ Sent' /\ Cleaned' /\ Trimmable'
      /\ Foreign' <=> Foreign
  BY <1>1, EndFrame, SMT
<1>3. Foreign
  <2>1. SUFFICES ASSUME ~Foreign PROVE FALSE
    OBVIOUS
  <2>2. text[pos] = Sextet(bytes, pos)
    BY <1>1, <2>1, SMT DEF IInv, Trimmable
  <2>3. pos \in Nat \ {0} /\ bytes \in Seq(Byte)
    BY SMT DEF IInv, TypeOK
  <2>4. Sextet(bytes, pos) \in Int /\ 0 <= Sextet(bytes, pos) /\ Sextet(bytes, pos) < 64
    BY <2>3, SextetRange, Zenon
  <2>5. \A z \in Int : 0 <= z /\ z < 64 => z \in Base64
    BY SMT DEF Base64
  <2>6. QED
    BY <1>1, <2>2, <2>4, <2>5, Zenon
<1>4. ScreenshotIsImage' /\ Decoded'
  BY <1>1, <1>2, <1>3, SMT DEF ScreenshotIsImage, Decoded
<1>5. QED
  BY <1>2, <1>4, Zenon DEF IInv

(* At the end of the text there are six bits at most left over, and none of *)
(* an image's byte.                                                         *)
LEMMA WriteKeeps == ASSUME IInv, Write PROVE IInv'
<1>1. /\ phase = "decoding" /\ phase' \in {"written", "failed"} /\ pos > Len(text)
      /\ UNCHANGED <<task, stampVars, pageVars, decodeVars>>
  BY Zenon DEF Write
<1>2. /\ TypeOK' /\ StampsRight' /\ Sent' /\ Cleaned' /\ Trimmable'
      /\ Foreign' <=> Foreign
      /\ bytes' = bytes /\ text' = text /\ pos' = pos /\ buf' = buf /\ nbits' = nbits /\ out' = out
  BY <1>1, EndFrame, SMT
<1>3. /\ text \in Seq(Chars) /\ bytes \in Seq(Byte) /\ out \in Seq(Byte) /\ pos \in Nat
      /\ Len(text) \in Nat /\ Len(bytes) \in Nat /\ Len(out) \in Nat /\ nbits \in {0, 2, 4, 6}
      /\ TypeOK
  BY SMT DEF IInv, TypeOK
<1>4. /\ pos <= Len(text) + 1
      /\ \A k \in 1..(pos - 1) : text[k] \in Base64
      /\ ~Foreign =>
           /\ 8 * Len(out) + nbits = 6 * (pos - 1)
           /\ \A k \in DOMAIN out : out[k] = ByteAt(bytes, k)
           /\ buf % 2^nbits = ByteAt(bytes, Len(out) + 1) \div 2^(8 - nbits)
  BY <1>1, Zenon DEF IInv, Decoded
<1>5. pos = Len(text) + 1 /\ pos - 1 = Len(text)
  BY <1>1, <1>3, <1>4, SMT
<1>6. ~Foreign
  <2>1. SUFFICES ASSUME Foreign PROVE FALSE
    OBVIOUS
  <2>2. PICK k \in DOMAIN text : text[k] = Alien
    BY <1>1, <2>1, SMT DEF IInv, Trimmable
  <2>3. k \in 1..(pos - 1)
    BY <1>3, <1>5, SMT
  <2>4. Alien \notin Base64
    BY SMT DEF Alien, Base64
  <2>5. QED
    BY <1>4, <2>2, <2>3, <2>4, Zenon
<1>7. Len(out) = Len(bytes)
  <2>1. Len(text) = Sextets
    BY <1>1, <1>6, SMT DEF IInv, Trimmable
  <2>2. PICK n \in Int : n = Len(out)
    BY <1>3, SMT
  <2>3. PICK m \in Int : m = Len(bytes)
    BY <1>3, SMT
  <2>4. PICK s \in Int : s = Sextets /\ 8 * m <= 6 * s /\ 6 * s <= 8 * m + 5
    BY <1>3, <2>3, SextetsNat, SMT
  <2>5. 8 * n + nbits = 6 * s
    <3>1. 8 * Len(out) + nbits = 6 * (pos - 1)
      BY <1>4, <1>6, Zenon
    <3>2. QED
      BY <1>5, <2>1, <2>2, <2>4, <3>1, Zenon
  <2>6. n = m
    BY <1>3, <2>4, <2>5, SMT
  <2>7. QED
    BY <2>2, <2>3, <2>6, Zenon
<1>8. out = bytes
  <2>1. \A k \in 1..Len(out) : out[k] = bytes[k]
    <3>1. \A k \in 1..Len(out) : k \in DOMAIN out /\ k <= Len(bytes)
      BY <1>3, <1>7, SMT
    <3>2. \A k \in DOMAIN out : out[k] = ByteAt(bytes, k)
      BY <1>4, <1>6, Zenon
    <3>3. QED
      BY <3>1, <3>2, Zenon DEF ByteAt
  <2>2. QED
    BY <1>3, <1>7, <2>1, SeqEqual, Zenon
<1>9. Decoded'
  <2>1. \A k \in 1..(pos' - 1) : text'[k] \in Base64
    BY <1>2, <1>4, Zenon
  <2>2. pos' = Len(text') + 1 /\ pos' <= Len(text') + 1
    BY <1>2, <1>4, <1>5, Zenon
  <2>3. /\ 8 * Len(out') + nbits' = 6 * (pos' - 1)
        /\ \A k \in DOMAIN out' : out'[k] = ByteAt(bytes', k)
        /\ buf' % 2^nbits' = ByteAt(bytes', Len(out') + 1) \div 2^(8 - nbits')
    BY <1>2, <1>4, <1>6, Zenon
  <2>4. QED
    BY <2>1, <2>2, <2>3, Zenon DEF Decoded
<1>10. ScreenshotIsImage'
  BY <1>1, <1>2, <1>6, <1>8, SMT DEF ScreenshotIsImage
<1>11. QED
  BY <1>2, <1>9, <1>10, Zenon DEF IInv

(* A stuttering step changes none of it.                                    *)
LEMMA StutterKeeps == ASSUME IInv, UNCHANGED vars PROVE IInv'
<1>1. /\ UNCHANGED <<task, pageVars, decodeVars, phase>>
      /\ day' = day /\ time' = time /\ date' = date /\ clock' = clock
  BY SMT DEF vars, stampVars
<1>2. day' \in 0..LastDay /\ time' \in Nat /\ time' < 86400
  BY <1>1, SMT DEF IInv, TypeOK
<1>3. StampsRight'
  BY <1>1, SMT DEF IInv, StampsRight
<1>4. QED
  BY <1>1, <1>2, <1>3, StampFrame, SMT

(* The inductive invariant holds throughout: it relates the characters the  *)
(* filter and the decoder of capture_screenshot have gone through to the    *)
(* bits of the image they stand for.                                        *)
THEOREM Invariance == Spec => []IInv
<1>1. Init => IInv
  BY InitIInv, Zenon
<1>2. IInv /\ [Next]_vars => IInv'
  <2> SUFFICES ASSUME IInv, [Next]_vars PROVE IInv'
    OBVIOUS
  <2>1. CASE NextDay
    BY <2>1, NextDayKeeps, Zenon
  <2>2. CASE NextSecond
    BY <2>2, NextSecondKeeps, Zenon
  <2>3. CASE Send
    BY <2>3, SendKeeps, Zenon
  <2>4. CASE SendNoise
    BY <2>4, NoiseKeeps, Zenon
  <2>5. CASE Respond
    BY <2>5, RespondKeeps, Zenon
  <2>6. CASE Clean
    BY <2>6, CleanKeeps, Zenon
  <2>7. CASE Trim
    BY <2>7, TrimKeeps, Zenon
  <2>8. CASE Begin
    BY <2>8, BeginKeeps, Zenon
  <2>9. CASE Decode
    BY <2>9, DecodeKeeps, Zenon
  <2>10. CASE Reject
    BY <2>10, RejectKeeps, Zenon
  <2>11. CASE Write
    BY <2>11, WriteKeeps, Zenon
  <2>12. CASE UNCHANGED vars
    BY <2>12, StutterKeeps, Zenon
  <2>13. QED
    BY <2>1, <2>2, <2>3, <2>4, <2>5, <2>6, <2>7, <2>8, <2>9, <2>10, <2>11, <2>12, Zenon DEF Next
<1>3. QED
  BY <1>1, <1>2, PTL DEF Spec

(* Every time stamp of the tapes (now_iso, format_iso_utc) is the date and  *)
(* the time of the calendar, on every day from 1970 on.                     *)
THEOREM StampsAreRight == Spec => []StampsRight
<1>1. IInv => StampsRight
  BY Zenon DEF IInv
<1>2. QED
  BY <1>1, Invariance, PTL

(* capture_screenshot writes the image the page sent, and refuses one if    *)
(* and only if there is a character in it that is not base64.               *)
THEOREM ScreenshotsAreImages == Spec => []ScreenshotIsImage
<1>1. IInv => ScreenshotIsImage
  BY Zenon DEF IInv
<1>2. QED
  BY <1>1, Invariance, PTL
=============================================================================
