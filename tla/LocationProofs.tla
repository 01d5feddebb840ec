---------------------------- MODULE LocationProofs ----------------------------
(***************************************************************************)
(* The arithmetic of get_location for the source's sizes and every index   *)
(* of 32 bits.  Powers are not in the provers' theory: each is evaluated   *)
(* where it is literal, and the arguments go through the cases.            *)
(***************************************************************************)
EXTENDS Location, TLAPS

\* 2^a is the power of two next below n.
Below(n, a) == 2^a <= n /\ n < 2^(a + 1)

LEMMA Powers2 ==
  /\ 2^0 = 1 /\ 2^1 = 2 /\ 2^2 = 4 /\ 2^3 = 8 /\ 2^4 = 16
  /\ 2^5 = 32 /\ 2^6 = 64 /\ 2^7 = 128 /\ 2^8 = 256 /\ 2^9 = 512
  /\ 2^10 = 1024 /\ 2^11 = 2048 /\ 2^12 = 4096 /\ 2^13 = 8192 /\ 2^14 = 16384
  /\ 2^15 = 32768 /\ 2^16 = 65536 /\ 2^17 = 131072 /\ 2^18 = 262144 /\ 2^19 = 524288
  /\ 2^20 = 1048576 /\ 2^21 = 2097152 /\ 2^22 = 4194304 /\ 2^23 = 8388608 /\ 2^24 = 16777216
  /\ 2^25 = 33554432 /\ 2^26 = 67108864 /\ 2^27 = 134217728 /\ 2^28 = 268435456 /\ 2^29 = 536870912
  /\ 2^30 = 1073741824
BY SMT

LEMMA Powers4 ==
  /\ 4^0 = 1 /\ 4^1 = 4 /\ 4^2 = 16 /\ 4^3 = 64
  /\ 4^4 = 256 /\ 4^5 = 1024 /\ 4^6 = 4096 /\ 4^7 = 16384
  /\ 4^8 = 65536 /\ 4^9 = 262144 /\ 4^10 = 1048576 /\ 4^11 = 4194304
  /\ 4^12 = 16777216 /\ 4^13 = 67108864 /\ 4^14 = 268435456 /\ 4^15 = 1073741824
BY SMT

\* The STARTS table (vec.rs:246-262) is what the sizes add up to: the chunks of
\* 32 * 4^k elements follow each other without a gap or an overlap.
THEOREM Starts ==
  ASSUME FirstChunk = 32
  PROVE
    /\ Start(0) = 0 /\ Start(1) = 32 /\ Start(2) = 160
    /\ Start(3) = 672 /\ Start(4) = 2720 /\ Start(5) = 10912
    /\ Start(6) = 43680 /\ Start(7) = 174752 /\ Start(8) = 699040
    /\ Start(9) = 2796192 /\ Start(10) = 11184800 /\ Start(11) = 44739232
    /\ Start(12) = 178956960 /\ Start(13) = 715827872 /\ Start(14) = 2863311520
    /\ \A k \in 0 .. 13 : Start(k + 1) = Start(k) + ChunkSize(k)
<1>0. Start(0) = 0 /\ ChunkSize(0) = 32
  BY SMT, Powers4 DEF Start, ChunkSize
<1>1. Start(1) = 32 /\ ChunkSize(1) = 128
  BY SMT, Powers4 DEF Start, ChunkSize
<1>2. Start(2) = 160 /\ ChunkSize(2) = 512
  BY SMT, Powers4 DEF Start, ChunkSize
<1>3. Start(3) = 672 /\ ChunkSize(3) = 2048
  BY SMT, Powers4 DEF Start, ChunkSize
<1>4. Start(4) = 2720 /\ ChunkSize(4) = 8192
  BY SMT, Powers4 DEF Start, ChunkSize
<1>5. Start(5) = 10912 /\ ChunkSize(5) = 32768
  BY SMT, Powers4 DEF Start, ChunkSize
<1>6. Start(6) = 43680 /\ ChunkSize(6) = 131072
  BY SMT, Powers4 DEF Start, ChunkSize
<1>7. Start(7) = 174752 /\ ChunkSize(7) = 524288
  BY SMT, Powers4 DEF Start, ChunkSize
<1>8. Start(8) = 699040 /\ ChunkSize(8) = 2097152
  BY SMT, Powers4 DEF Start, ChunkSize
<1>9. Start(9) = 2796192 /\ ChunkSize(9) = 8388608
  BY SMT, Powers4 DEF Start, ChunkSize
<1>10. Start(10) = 11184800 /\ ChunkSize(10) = 33554432
  BY SMT, Powers4 DEF Start, ChunkSize
<1>11. Start(11) = 44739232 /\ ChunkSize(11) = 134217728
  BY SMT, Powers4 DEF Start, ChunkSize
<1>12. Start(12) = 178956960 /\ ChunkSize(12) = 536870912
  BY SMT, Powers4 DEF Start, ChunkSize
<1>13. Start(13) = 715827872 /\ ChunkSize(13) = 2147483648
  BY SMT, Powers4 DEF Start, ChunkSize
<1>14. Start(14) = 2863311520 /\ ChunkSize(14) = 8589934592
  BY SMT, Powers4 DEF Start, ChunkSize
<1>15. ASSUME NEW k \in 0 .. 13  PROVE Start(k + 1) = Start(k) + ChunkSize(k)
  <2>0. CASE k = 0
    <3>1. k + 1 = 1  BY SMT, <2>0
    <3>. QED  BY SMT, <2>0, <3>1, <1>0, <1>1
  <2>1. CASE k = 1
    <3>1. k + 1 = 2  BY SMT, <2>1
    <3>. QED  BY SMT, <2>1, <3>1, <1>1, <1>2
  <2>2. CASE k = 2
    <3>1. k + 1 = 3  BY SMT, <2>2
    <3>. QED  BY SMT, <2>2, <3>1, <1>2, <1>3
  <2>3. CASE k = 3
    <3>1. k + 1 = 4  BY SMT, <2>3
    <3>. QED  BY SMT, <2>3, <3>1, <1>3, <1>4
  <2>4. CASE k = 4
    <3>1. k + 1 = 5  BY SMT, <2>4
    <3>. QED  BY SMT, <2>4, <3>1, <1>4, <1>5
  <2>5. CASE k = 5
    <3>1. k + 1 = 6  BY SMT, <2>5
    <3>. QED  BY SMT, <2>5, <3>1, <1>5, <1>6
  <2>6. CASE k = 6
    <3>1. k + 1 = 7  BY SMT, <2>6
    <3>. QED  BY SMT, <2>6, <3>1, <1>6, <1>7
  <2>7. CASE k = 7
    <3>1. k + 1 = 8  BY SMT, <2>7
    <3>. QED  BY SMT, <2>7, <3>1, <1>7, <1>8
  <2>8. CASE k = 8
    <3>1. k + 1 = 9  BY SMT, <2>8
    <3>. QED  BY SMT, <2>8, <3>1, <1>8, <1>9
  <2>9. CASE k = 9
    <3>1. k + 1 = 10  BY SMT, <2>9
    <3>. QED  BY SMT, <2>9, <3>1, <1>9, <1>10
  <2>10. CASE k = 10
    <3>1. k + 1 = 11  BY SMT, <2>10
    <3>. QED  BY SMT, <2>10, <3>1, <1>10, <1>11
  <2>11. CASE k = 11
    <3>1. k + 1 = 12  BY SMT, <2>11
    <3>. QED  BY SMT, <2>11, <3>1, <1>11, <1>12
  <2>12. CASE k = 12
    <3>1. k + 1 = 13  BY SMT, <2>12
    <3>. QED  BY SMT, <2>12, <3>1, <1>12, <1>13
  <2>13. CASE k = 13
    <3>1. k + 1 = 14  BY SMT, <2>13
    <3>. QED  BY SMT, <2>13, <3>1, <1>13, <1>14
  <2>. QED  BY SMT, <2>0, <2>1, <2>2, <2>3, <2>4, <2>5, <2>6, <2>7, <2>8, <2>9, <2>10, <2>11, <2>12, <2>13
<1>. QED  BY SMT, <1>0, <1>1, <1>2, <1>3, <1>4, <1>5, <1>6, <1>7, <1>8, <1>9, <1>10, <1>11, <1>12, <1>13, <1>14, <1>15

\* There is a power of two next below each n that get_location meets.
LEMMA Bracketed ==
  ASSUME NEW n \in Nat, 1 <= n, n <= 402653184
  PROVE  \E a \in 0 .. 28 : Below(n, a)
<1>0. CASE 1 <= n /\ n <= 1
  <2>1. Below(n, 0)
    <3>1. 0 + 1 = 1  BY SMT
    <3>. QED  BY SMT, <1>0, <3>1, Powers2 DEF Below
  <2>. QED  BY SMT, <2>1
<1>1. CASE 2 <= n /\ n <= 3
  <2>1. Below(n, 1)
    <3>1. 1 + 1 = 2  BY SMT
    <3>. QED  BY SMT, <1>1, <3>1, Powers2 DEF Below
  <2>. QED  BY SMT, <2>1
<1>2. CASE 4 <= n /\ n <= 7
  <2>1. Below(n, 2)
    <3>1. 2 + 1 = 3  BY SMT
    <3>. QED  BY SMT, <1>2, <3>1, Powers2 DEF Below
  <2>. QED  BY SMT, <2>1
<1>3. CASE 8 <= n /\ n <= 15
  <2>1. Below(n, 3)
    <3>1. 3 + 1 = 4  BY SMT
    <3>. QED  BY SMT, <1>3, <3>1, Powers2 DEF Below
  <2>. QED  BY SMT, <2>1
<1>4. CASE 16 <= n /\ n <= 31
  <2>1. Below(n, 4)
    <3>1. 4 + 1 = 5  BY SMT
    <3>. QED  BY SMT, <1>4, <3>1, Powers2 DEF Below
  <2>. QED  BY SMT, <2>1
<1>5. CASE 32 <= n /\ n <= 63
  <2>1. Below(n, 5)
    <3>1. 5 + 1 = 6  BY SMT
    <3>. QED  BY SMT, <1>5, <3>1, Powers2 DEF Below
  <2>. QED  BY SMT, <2>1
<1>6. CASE 64 <= n /\ n <= 127
  <2>1. Below(n, 6)
    <3>1. 6 + 1 = 7  BY SMT
    <3>. QED  BY SMT, <1>6, <3>1, Powers2 DEF Below
  <2>. QED  BY SMT, <2>1
<1>7. CASE 128 <= n /\ n <= 255
  <2>1. Below(n, 7)
    <3>1. 7 + 1 = 8  BY SMT
    <3>. QED  BY SMT, <1>7, <3>1, Powers2 DEF Below
  <2>. QED  BY SMT, <2>1
<1>8. CASE 256 <= n /\ n <= 511
  <2>1. Below(n, 8)
    <3>1. 8 + 1 = 9  BY SMT
    <3>. QED  BY SMT, <1>8, <3>1, Powers2 DEF Below
  <2>. QED  BY SMT, <2>1
<1>9. CASE 512 <= n /\ n <= 1023
  <2>1. Below(n, 9)
    <3>1. 9 + 1 = 10  BY SMT
    <3>. QED  BY SMT, <1>9, <3>1, Powers2 DEF Below
  <2>. QED  BY SMT, <2>1
<1>10. CASE 1024 <= n /\ n <= 2047
  <2>1. Below(n, 10)
    <3>1. 10 + 1 = 11  BY SMT
    <3>. QED  BY SMT, <1>10, <3>1, Powers2 DEF Below
  <2>. QED  BY SMT, <2>1
<1>11. CASE 2048 <= n /\ n <= 4095
  <2>1. Below(n, 11)
    <3>1. 11 + 1 = 12  BY SMT
    <3>. QED  BY SMT, <1>11, <3>1, Powers2 DEF Below
  <2>. QED  BY SMT, <2>1
<1>12. CASE 4096 <= n /\ n <= 8191
  <2>1. Below(n, 12)
    <3>1. 12 + 1 = 13  BY SMT
    <3>. QED  BY SMT, <1>12, <3>1, Powers2 DEF Below
  <2>. QED  BY SMT, <2>1
<1>13. CASE 8192 <= n /\ n <= 16383
  <2>1. Below(n, 13)
    <3>1. 13 + 1 = 14  BY SMT
    <3>. QED  BY SMT, <1>13, <3>1, Powers2 DEF Below
  <2>. QED  BY SMT, <2>1
<1>14. CASE 16384 <= n /\ n <= 32767
  <2>1. Below(n, 14)
    <3>1. 14 + 1 = 15  BY SMT
    <3>. QED  BY SMT, <1>14, <3>1, Powers2 DEF Below
  <2>. QED  BY SMT, <2>1
<1>15. CASE 32768 <= n /\ n <= 65535
  <2>1. Below(n, 15)
    <3>1. 15 + 1 = 16  BY SMT
    <3>. QED  BY SMT, <1>15, <3>1, Powers2 DEF Below
  <2>. QED  BY SMT, <2>1
<1>16. CASE 65536 <= n /\ n <= 131071
  <2>1. Below(n, 16)
    <3>1. 16 + 1 = 17  BY SMT
    <3>. QED  BY SMT, <1>16, <3>1, Powers2 DEF Below
  <2>. QED  BY SMT, <2>1
<1>17. CASE 131072 <= n /\ n <= 262143
  <2>1. Below(n, 17)
    <3>1. 17 + 1 = 18  BY SMT
    <3>. QED  BY SMT, <1>17, <3>1, Powers2 DEF Below
  <2>. QED  BY SMT, <2>1
<1>18. CASE 262144 <= n /\ n <= 524287
  <2>1. Below(n, 18)
    <3>1. 18 + 1 = 19  BY SMT
    <3>. QED  BY SMT, <1>18, <3>1, Powers2 DEF Below
  <2>. QED  BY SMT, <2>1
<1>19. CASE 524288 <= n /\ n <= 1048575
  <2>1. Below(n, 19)
    <3>1. 19 + 1 = 20  BY SMT
    <3>. QED  BY SMT, <1>19, <3>1, Powers2 DEF Below
  <2>. QED  BY SMT, <2>1
<1>20. CASE 1048576 <= n /\ n <= 2097151
  <2>1. Below(n, 20)
    <3>1. 20 + 1 = 21  BY SMT
    <3>. QED  BY SMT, <1>20, <3>1, Powers2 DEF Below
  <2>. QED  BY SMT, <2>1
<1>21. CASE 2097152 <= n /\ n <= 4194303
  <2>1. Below(n, 21)
    <3>1. 21 + 1 = 22  BY SMT
    <3>. QED  BY SMT, <1>21, <3>1, Powers2 DEF Below
  <2>. QED  BY SMT, <2>1
<1>22. CASE 4194304 <= n /\ n <= 8388607
  <2>1. Below(n, 22)
    <3>1. 22 + 1 = 23  BY SMT
    <3>. QED  BY SMT, <1>22, <3>1, Powers2 DEF Below
  <2>. QED  BY SMT, <2>1
<1>23. CASE 8388608 <= n /\ n <= 16777215
  <2>1. Below(n, 23)
    <3>1. 23 + 1 = 24  BY SMT
    <3>. QED  BY SMT, <1>23, <3>1, Powers2 DEF Below
  <2>. QED  BY SMT, <2>1
<1>24. CASE 16777216 <= n /\ n <= 33554431
  <2>1. Below(n, 24)
    <3>1. 24 + 1 = 25  BY SMT
    <3>. QED  BY SMT, <1>24, <3>1, Powers2 DEF Below
  <2>. QED  BY SMT, <2>1
<1>25. CASE 33554432 <= n /\ n <= 67108863
  <2>1. Below(n, 25)
    <3>1. 25 + 1 = 26  BY SMT
    <3>. QED  BY SMT, <1>25, <3>1, Powers2 DEF Below
  <2>. QED  BY SMT, <2>1
<1>26. CASE 67108864 <= n /\ n <= 134217727
  <2>1. Below(n, 26)
    <3>1. 26 + 1 = 27  BY SMT
    <3>. QED  BY SMT, <1>26, <3>1, Powers2 DEF Below
  <2>. QED  BY SMT, <2>1
<1>27. CASE 134217728 <= n /\ n <= 268435455
  <2>1. Below(n, 27)
    <3>1. 27 + 1 = 28  BY SMT
    <3>. QED  BY SMT, <1>27, <3>1, Powers2 DEF Below
  <2>. QED  BY SMT, <2>1
<1>28. CASE 268435456 <= n /\ n <= 402653184
  <2>1. Below(n, 28)
    <3>1. 28 + 1 = 29  BY SMT
    <3>. QED  BY SMT, <1>28, <3>1, Powers2 DEF Below
  <2>. QED  BY SMT, <2>1
<1>. QED  BY SMT, <1>0, <1>1, <1>2, <1>3, <1>4, <1>5, <1>6, <1>7, <1>8, <1>9, <1>10, <1>11, <1>12, <1>13, <1>14, <1>15, <1>16, <1>17, <1>18, <1>19, <1>20, <1>21, <1>22, <1>23, <1>24, <1>25, <1>26, <1>27, <1>28

LEMMA Chosen ==
  ASSUME NEW n, \E a \in 0 .. 28 : Below(n, a)
  PROVE  Log2(n) \in 0 .. 28 /\ Below(n, Log2(n))
<1>. DEFINE P(a) == 2^a <= n /\ n < 2^(a + 1)
<1>1. \E a \in 0 .. 28 : P(a)  BY Zenon DEF Below
<1>2. Log2(n) = CHOOSE a \in 0 .. 28 : P(a)  BY Zenon DEF Log2
<1>. HIDE DEF P
<1>3. Log2(n) \in 0 .. 28 /\ P(Log2(n))  BY <1>1, <1>2, Zenon
<1>. QED  BY <1>3, Zenon DEF P, Below

\* The chunk of an index, half the logarithm, is the one whose range has it.
LEMMA Halved ==
  ASSUME NEW n \in Nat, NEW a \in Nat, Below(n, a),
         NEW k \in 0 .. 14, a = 2 * k \/ a = 2 * k + 1
  PROVE  4^k <= n /\ n < 4^(k + 1)
<1>0. CASE k = 0
  <2>1. k + 1 = 1 /\ 4^0 = 1 /\ 4^1 = 4  BY SMT, <1>0, Powers4
  <2>2. CASE a = 0
    <3>1. a + 1 = 1  BY SMT, <2>2
    <3>. QED  BY SMT, <1>0, <2>1, <2>2, <3>1, Powers2 DEF Below
  <2>3. CASE a = 1
    <3>1. a + 1 = 2  BY SMT, <2>3
    <3>. QED  BY SMT, <1>0, <2>1, <2>3, <3>1, Powers2 DEF Below
  <2>. QED  BY SMT, <1>0, <2>2, <2>3
<1>1. CASE k = 1
  <2>1. k + 1 = 2 /\ 4^1 = 4 /\ 4^2 = 16  BY SMT, <1>1, Powers4
  <2>2. CASE a = 2
    <3>1. a + 1 = 3  BY SMT, <2>2
    <3>. QED  BY SMT, <1>1, <2>1, <2>2, <3>1, Powers2 DEF Below
  <2>3. CASE a = 3
    <3>1. a + 1 = 4  BY SMT, <2>3
    <3>. QED  BY SMT, <1>1, <2>1, <2>3, <3>1, Powers2 DEF Below
  <2>. QED  BY SMT, <1>1, <2>2, <2>3
<1>2. CASE k = 2
  <2>1. k + 1 = 3 /\ 4^2 = 16 /\ 4^3 = 64  BY SMT, <1>2, Powers4
  <2>2. CASE a = 4
    <3>1. a + 1 = 5  BY SMT, <2>2
    <3>. QED  BY SMT, <1>2, <2>1, <2>2, <3>1, Powers2 DEF Below
  <2>3. CASE a = 5
    <3>1. a + 1 = 6  BY SMT, <2>3
    <3>. QED  BY SMT, <1>2, <2>1, <2>3, <3>1, Powers2 DEF Below
  <2>. QED  BY SMT, <1>2, <2>2, <2>3
<1>3. CASE k = 3
  <2>1. k + 1 = 4 /\ 4^3 = 64 /\ 4^4 = 256  BY SMT, <1>3, Powers4
  <2>2. CASE a = 6
    <3>1. a + 1 = 7  BY SMT, <2>2
    <3>. QED  BY SMT, <1>3, <2>1, <2>2, <3>1, Powers2 DEF Below
  <2>3. CASE a = 7
    <3>1. a + 1 = 8  BY SMT, <2>3
    <3>. QED  BY SMT, <1>3, <2>1, <2>3, <3>1, Powers2 DEF Below
  <2>. QED  BY SMT, <1>3, <2>2, <2>3
<1>4. CASE k = 4
  <2>1. k + 1 = 5 /\ 4^4 = 256 /\ 4^5 = 1024  BY SMT, <1>4, Powers4
  <2>2. CASE a = 8
    <3>1. a + 1 = 9  BY SMT, <2>2
    <3>. QED  BY SMT, <1>4, <2>1, <2>2, <3>1, Powers2 DEF Below
  <2>3. CASE a = 9
    <3>1. a + 1 = 10  BY SMT, <2>3
    <3>. QED  BY SMT, <1>4, <2>1, <2>3, <3>1, Powers2 DEF Below
  <2>. QED  BY SMT, <1>4, <2>2, <2>3
<1>5. CASE k = 5
  <2>1. k + 1 = 6 /\ 4^5 = 1024 /\ 4^6 = 4096  BY SMT, <1>5, Powers4
  <2>2. CASE a = 10
    <3>1. a + 1 = 11  BY SMT, <2>2
    <3>. QED  BY SMT, <1>5, <2>1, <2>2, <3>1, Powers2 DEF Below
  <2>3. CASE a = 11
    <3>1. a + 1 = 12  BY SMT, <2>3
    <3>. QED  BY SMT, <1>5, <2>1, <2>3, <3>1, Powers2 DEF Below
  <2>. QED  BY SMT, <1>5, <2>2, <2>3
<1>6. CASE k = 6
  <2>1. k + 1 = 7 /\ 4^6 = 4096 /\ 4^7 = 16384  BY SMT, <1>6, Powers4
  <2>2. CASE a = 12
    <3>1. a + 1 = 13  BY SMT, <2>2
    <3>. QED  BY SMT, <1>6, <2>1, <2>2, <3>1, Powers2 DEF Below
  <2>3. CASE a = 13
    <3>1. a + 1 = 14  BY SMT, <2>3
    <3>. QED  BY SMT, <1>6, <2>1, <2>3, <3>1, Powers2 DEF Below
  <2>. QED  BY SMT, <1>6, <2>2, <2>3
<1>7. CASE k = 7
  <2>1. k + 1 = 8 /\ 4^7 = 16384 /\ 4^8 = 65536  BY SMT, <1>7, Powers4
  <2>2. CASE a = 14
    <3>1. a + 1 = 15  BY SMT, <2>2
    <3>. QED  BY SMT, <1>7, <2>1, <2>2, <3>1, Powers2 DEF Below
  <2>3. CASE a = 15
    <3>1. a + 1 = 16  BY SMT, <2>3
    <3>. QED  BY SMT, <1>7, <2>1, <2>3, <3>1, Powers2 DEF Below
  <2>. QED  BY SMT, <1>7, <2>2, <2>3
<1>8. CASE k = 8
  <2>1. k + 1 = 9 /\ 4^8 = 65536 /\ 4^9 = 262144  BY SMT, <1>8, Powers4
  <2>2. CASE a = 16
    <3>1. a + 1 = 17  BY SMT, <2>2
    <3>. QED  BY SMT, <1>8, <2>1, <2>2, <3>1, Powers2 DEF Below
  <2>3. CASE a = 17
    <3>1. a + 1 = 18  BY SMT, <2>3
    <3>. QED  BY SMT, <1>8, <2>1, <2>3, <3>1, Powers2 DEF Below
  <2>. QED  BY SMT, <1>8, <2>2, <2>3
<1>9. CASE k = 9
  <2>1. k + 1 = 10 /\ 4^9 = 262144 /\ 4^10 = 1048576  BY SMT, <1>9, Powers4
  <2>2. CASE a = 18
    <3>1. a + 1 = 19  BY SMT, <2>2
    <3>. QED  BY SMT, <1>9, <2>1, <2>2, <3>1, Powers2 DEF Below
  <2>3. CASE a = 19
    <3>1. a + 1 = 20  BY SMT, <2>3
    <3>. QED  BY SMT, <1>9, <2>1, <2>3, <3>1, Powers2 DEF Below
  <2>. QED  BY SMT, <1>9, <2>2, <2>3
<1>10. CASE k = 10
  <2>1. k + 1 = 11 /\ 4^10 = 1048576 /\ 4^11 = 4194304  BY SMT, <1>10, Powers4
  <2>2. CASE a = 20
    <3>1. a + 1 = 21  BY SMT, <2>2
    <3>. QED  BY SMT, <1>10, <2>1, <2>2, <3>1, Powers2 DEF Below
  <2>3. CASE a = 21
    <3>1. a + 1 = 22  BY SMT, <2>3
    <3>. QED  BY SMT, <1>10, <2>1, <2>3, <3>1, Powers2 DEF Below
  <2>. QED  BY SMT, <1>10, <2>2, <2>3
<1>11. CASE k = 11
  <2>1. k + 1 = 12 /\ 4^11 = 4194304 /\ 4^12 = 16777216  BY SMT, <1>11, Powers4
  <2>2. CASE a = 22
    <3>1. a + 1 = 23  BY SMT, <2>2
    <3>. QED  BY SMT, <1>11, <2>1, <2>2, <3>1, Powers2 DEF Below
  <2>3. CASE a = 23
    <3>1. a + 1 = 24  BY SMT, <2>3
    <3>. QED  BY SMT, <1>11, <2>1, <2>3, <3>1, Powers2 DEF Below
  <2>. QED  BY SMT, <1>11, <2>2, <2>3
<1>12. CASE k = 12
  <2>1. k + 1 = 13 /\ 4^12 = 16777216 /\ 4^13 = 67108864  BY SMT, <1>12, Powers4
  <2>2. CASE a = 24
    <3>1. a + 1 = 25  BY SMT, <2>2
    <3>. QED  BY SMT, <1>12, <2>1, <2>2, <3>1, Powers2 DEF Below
  <2>3. CASE a = 25
    <3>1. a + 1 = 26  BY SMT, <2>3
    <3>. QED  BY SMT, <1>12, <2>1, <2>3, <3>1, Powers2 DEF Below
  <2>. QED  BY SMT, <1>12, <2>2, <2>3
<1>13. CASE k = 13
  <2>1. k + 1 = 14 /\ 4^13 = 67108864 /\ 4^14 = 268435456  BY SMT, <1>13, Powers4
  <2>2. CASE a = 26
    <3>1. a + 1 = 27  BY SMT, <2>2
    <3>. QED  BY SMT, <1>13, <2>1, <2>2, <3>1, Powers2 DEF Below
  <2>3. CASE a = 27
    <3>1. a + 1 = 28  BY SMT, <2>3
    <3>. QED  BY SMT, <1>13, <2>1, <2>3, <3>1, Powers2 DEF Below
  <2>. QED  BY SMT, <1>13, <2>2, <2>3
<1>14. CASE k = 14
  <2>1. k + 1 = 15 /\ 4^14 = 268435456 /\ 4^15 = 1073741824  BY SMT, <1>14, Powers4
  <2>2. CASE a = 28
    <3>1. a + 1 = 29  BY SMT, <2>2
    <3>. QED  BY SMT, <1>14, <2>1, <2>2, <3>1, Powers2 DEF Below
  <2>3. CASE a = 29
    <3>1. a + 1 = 30  BY SMT, <2>3
    <3>. QED  BY SMT, <1>14, <2>1, <2>3, <3>1, Powers2 DEF Below
  <2>. QED  BY SMT, <1>14, <2>2, <2>3
<1>. QED  BY SMT, <1>0, <1>1, <1>2, <1>3, <1>4, <1>5, <1>6, <1>7, <1>8, <1>9, <1>10, <1>11, <1>12, <1>13, <1>14

LEMMA ChunkBounds ==
  ASSUME NEW n \in Nat, \E a \in 0 .. 28 : Below(n, a),
         NEW k, k = Log2(n) \div 2
  PROVE  k \in 0 .. 14 /\ 4^k <= n /\ n < 4^(k + 1)
<1>1. Log2(n) \in 0 .. 28 /\ Below(n, Log2(n))  BY Chosen, Zenon
<1>2. k \in 0 .. 14 /\ (Log2(n) = 2 * k \/ Log2(n) = 2 * k + 1) /\ Log2(n) \in Nat
  BY SMT, <1>1
<1>. QED  BY Zenon, <1>1, <1>2, Halved

\* get_location finds, for every index of 32 bits, one of the 15 chunks and an
\* offset within it, and the index is where that chunk starts plus the offset:
\* no access is out of bounds and no two indices share a place (vec.rs:228-268).
THEOREM Located ==
  ASSUME FirstChunk = 32, NEW idx \in Nat, idx <= 4294967295
  PROVE  /\ ChunkOf(idx) \in 0 .. 14
         /\ 0 <= OffsetOf(idx) /\ OffsetOf(idx) < ChunkSize(ChunkOf(idx))
         /\ idx = Start(ChunkOf(idx)) + OffsetOf(idx)
<1>. DEFINE n == (3 * idx) \div 32 + 1
            k == ChunkOf(idx)
<1>1. n \in Nat /\ 1 <= n /\ n <= 402653184  BY SMT
<1>2. k = Log2(n) \div 2  BY SMT DEF ChunkOf
<1>. HIDE DEF n, k
<1>3. k \in 0 .. 14 /\ 4^k <= n /\ n < 4^(k + 1)
  <2>1. \E a \in 0 .. 28 : Below(n, a)  BY SMT, <1>1, Bracketed
  <2>. QED  BY SMT, <1>1, <1>2, <2>1, ChunkBounds
<1>4. ASSUME NEW c \in Nat, NEW d \in Nat, c <= n, n < 4 * c, 3 * d = 32 * (c - 1)
      PROVE  idx - d \in 0 .. (32 * c) - 1
  BY SMT, <1>4 DEF n
<1>5. Start(k) <= idx /\ idx < Start(k) + ChunkSize(k) /\ Start(k) \in Nat /\ ChunkSize(k) \in Nat
  <2>0. CASE k = 0
    <3>1. 1 <= n /\ n < 4 * 1
      <4>1. k + 1 = 1  BY SMT, <2>0
      <4>. QED  BY SMT, <1>3, <2>0, <4>1, Powers4
    <3>2. 0 <= idx /\ idx < 0 + 32 * 1  BY SMT, <1>4, <3>1
    <3>3. ChunkSize(0) = 32  BY SMT, Powers4 DEF ChunkSize
    <3>. QED  BY SMT, <2>0, <3>2, <3>3, Starts
  <2>1. CASE k = 1
    <3>1. 4 <= n /\ n < 4 * 4
      <4>1. k + 1 = 2  BY SMT, <2>1
      <4>. QED  BY SMT, <1>3, <2>1, <4>1, Powers4
    <3>2. 32 <= idx /\ idx < 32 + 32 * 4  BY SMT, <1>4, <3>1
    <3>3. ChunkSize(1) = 128  BY SMT, Powers4 DEF ChunkSize
    <3>. QED  BY SMT, <2>1, <3>2, <3>3, Starts
  <2>2. CASE k = 2
    <3>1. 16 <= n /\ n < 4 * 16
      <4>1. k + 1 = 3  BY SMT, <2>2
      <4>. QED  BY SMT, <1>3, <2>2, <4>1, Powers4
    <3>2. 160 <= idx /\ idx < 160 + 32 * 16  BY SMT, <1>4, <3>1
    <3>3. ChunkSize(2) = 512  BY SMT, Powers4 DEF ChunkSize
    <3>. QED  BY SMT, <2>2, <3>2, <3>3, Starts
  <2>3. CASE k = 3
    <3>1. 64 <= n /\ n < 4 * 64
      <4>1. k + 1 = 4  BY SMT, <2>3
      <4>. QED  BY SMT, <1>3, <2>3, <4>1, Powers4
    <3>2. 672 <= idx /\ idx < 672 + 32 * 64  BY SMT, <1>4, <3>1
    <3>3. ChunkSize(3) = 2048  BY SMT, Powers4 DEF ChunkSize
    <3>. QED  BY SMT, <2>3, <3>2, <3>3, Starts
  <2>4. CASE k = 4
    <3>1. 256 <= n /\ n < 4 * 256
      <4>1. k + 1 = 5  BY SMT, <2>4
      <4>. QED  BY SMT, <1>3, <2>4, <4>1, Powers4
    <3>2. 2720 <= idx /\ idx < 2720 + 32 * 256  BY SMT, <1>4, <3>1
    <3>3. ChunkSize(4) = 8192  BY SMT, Powers4 DEF ChunkSize
    <3>. QED  BY SMT, <2>4, <3>2, <3>3, Starts
  <2>5. CASE k = 5
    <3>1. 1024 <= n /\ n < 4 * 1024
      <4>1. k + 1 = 6  BY SMT, <2>5
      <4>. QED  BY SMT, <1>3, <2>5, <4>1, Powers4
    <3>2. 10912 <= idx /\ idx < 10912 + 32 * 1024  BY SMT, <1>4, <3>1
    <3>3. ChunkSize(5) = 32768  BY SMT, Powers4 DEF ChunkSize
    <3>. QED  BY SMT, <2>5, <3>2, <3>3, Starts
  <2>6. CASE k = 6
    <3>1. 4096 <= n /\ n < 4 * 4096
      <4>1. k + 1 = 7  BY SMT, <2>6
      <4>. QED  BY SMT, <1>3, <2>6, <4>1, Powers4
    <3>2. 43680 <= idx /\ idx < 43680 + 32 * 4096  BY SMT, <1>4, <3>1
    <3>3. ChunkSize(6) = 131072  BY SMT, Powers4 DEF ChunkSize
    <3>. QED  BY SMT, <2>6, <3>2, <3>3, Starts
  <2>7. CASE k = 7
    <3>1. 16384 <= n /\ n < 4 * 16384
      <4>1. k + 1 = 8  BY SMT, <2>7
      <4>. QED  BY SMT, <1>3, <2>7, <4>1, Powers4
    <3>2. 174752 <= idx /\ idx < 174752 + 32 * 16384  BY SMT, <1>4, <3>1
    <3>3. ChunkSize(7) = 524288  BY SMT, Powers4 DEF ChunkSize
    <3>. QED  BY SMT, <2>7, <3>2, <3>3, Starts
  <2>8. CASE k = 8
    <3>1. 65536 <= n /\ n < 4 * 65536
      <4>1. k + 1 = 9  BY SMT, <2>8
      <4>. QED  BY SMT, <1>3, <2>8, <4>1, Powers4
    <3>2. 699040 <= idx /\ idx < 699040 + 32 * 65536  BY SMT, <1>4, <3>1
    <3>3. ChunkSize(8) = 2097152  BY SMT, Powers4 DEF ChunkSize
    <3>. QED  BY SMT, <2>8, <3>2, <3>3, Starts
  <2>9. CASE k = 9
    <3>1. 262144 <= n /\ n < 4 * 262144
      <4>1. k + 1 = 10  BY SMT, <2>9
      <4>. QED  BY SMT, <1>3, <2>9, <4>1, Powers4
    <3>2. 2796192 <= idx /\ idx < 2796192 + 32 * 262144  BY SMT, <1>4, <3>1
    <3>3. ChunkSize(9) = 8388608  BY SMT, Powers4 DEF ChunkSize
    <3>. QED  BY SMT, <2>9, <3>2, <3>3, Starts
  <2>10. CASE k = 10
    <3>1. 1048576 <= n /\ n < 4 * 1048576
      <4>1. k + 1 = 11  BY SMT, <2>10
      <4>. QED  BY SMT, <1>3, <2>10, <4>1, Powers4
    <3>2. 11184800 <= idx /\ idx < 11184800 + 32 * 1048576  BY SMT, <1>4, <3>1
    <3>3. ChunkSize(10) = 33554432  BY SMT, Powers4 DEF ChunkSize
    <3>. QED  BY SMT, <2>10, <3>2, <3>3, Starts
  <2>11. CASE k = 11
    <3>1. 4194304 <= n /\ n < 4 * 4194304
      <4>1. k + 1 = 12  BY SMT, <2>11
      <4>. QED  BY SMT, <1>3, <2>11, <4>1, Powers4
    <3>2. 44739232 <= idx /\ idx < 44739232 + 32 * 4194304  BY SMT, <1>4, <3>1
    <3>3. ChunkSize(11) = 134217728  BY SMT, Powers4 DEF ChunkSize
    <3>. QED  BY SMT, <2>11, <3>2, <3>3, Starts
  <2>12. CASE k = 12
    <3>1. 16777216 <= n /\ n < 4 * 16777216
      <4>1. k + 1 = 13  BY SMT, <2>12
      <4>. QED  BY SMT, <1>3, <2>12, <4>1, Powers4
    <3>2. 178956960 <= idx /\ idx < 178956960 + 32 * 16777216  BY SMT, <1>4, <3>1
    <3>3. ChunkSize(12) = 536870912  BY SMT, Powers4 DEF ChunkSize
    <3>. QED  BY SMT, <2>12, <3>2, <3>3, Starts
  <2>13. CASE k = 13
    <3>1. 67108864 <= n /\ n < 4 * 67108864
      <4>1. k + 1 = 14  BY SMT, <2>13
      <4>. QED  BY SMT, <1>3, <2>13, <4>1, Powers4
    <3>2. 715827872 <= idx /\ idx < 715827872 + 32 * 67108864  BY SMT, <1>4, <3>1
    <3>3. ChunkSize(13) = 2147483648  BY SMT, Powers4 DEF ChunkSize
    <3>. QED  BY SMT, <2>13, <3>2, <3>3, Starts
  <2>14. CASE k = 14
    <3>1. 268435456 <= n /\ n < 4 * 268435456
      <4>1. k + 1 = 15  BY SMT, <2>14
      <4>. QED  BY SMT, <1>3, <2>14, <4>1, Powers4
    <3>2. 2863311520 <= idx /\ idx < 2863311520 + 32 * 268435456  BY SMT, <1>4, <3>1
    <3>3. ChunkSize(14) = 8589934592  BY SMT, Powers4 DEF ChunkSize
    <3>. QED  BY SMT, <2>14, <3>2, <3>3, Starts
  <2>. QED  BY SMT, <1>3, <2>0, <2>1, <2>2, <2>3, <2>4, <2>5, <2>6, <2>7, <2>8, <2>9, <2>10, <2>11, <2>12, <2>13, <2>14
<1>6. OffsetOf(idx) = idx - Start(k)  BY SMT DEF OffsetOf, k
<1>. QED  BY SMT, <1>3, <1>5, <1>6 DEF k
=============================================================================
