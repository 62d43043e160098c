------------------------------ MODULE CLibrary ------------------------------
(***************************************************************************)
(* The string functions of kernel/src/memory.c and the conversions of      *)
(* kernel/src/stdlib.c, as operators.                                      *)
(*                                                                         *)
(* A memory is a function from addresses 0 .. N to bytes; an operator that *)
(* writes returns the memory after the call.  A digit is its value, and a  *)
(* text a sequence of characters without its terminator.                   *)
(***************************************************************************)
EXTENDS Integers, SequencesExt

CONSTANTS
    Word,   \* the bytes memset writes at once: 8
    Width,  \* of an int, in bits: 32, and 64 for ltoa
    Cells,  \* bound: the size of the memories the properties are about
    Bytes   \* bound: the bytes in them, 0 included

ASSUME CLibraryAssumption ==
    /\ Word \in Nat \ {0}
    /\ Width \in Nat /\ Width >= 8 /\ Width % 4 = 0
    /\ Cells \in Nat /\ Cells > 1
    /\ 0 \in Bytes /\ Bytes \subseteq 0 .. 255

NULL == -1

Minus == 99

(* Where a loop that starts at a, and leaves when P holds, stops.          *)
Stop(m, a, P(_)) ==
    CHOOSE p \in {q \in DOMAIN m : q >= a} : P(p) /\ \A q \in a .. p - 1 : ~P(q)

Fill(m, cells, c) == [a \in DOMAIN m |-> IF a \in cells THEN c ELSE m[a]]

-----------------------------------------------------------------------------
(* Blocks of memory.                                                       *)

(* Mutant: only the pointer is aligned before words are written.           *)
HeadOfPointer(s, n) == Min({k \in 0 .. n : k = n \/ (s + k) % Word = 0})

(* The bytes that are written one by one.                                  *)
Head8(s, n) ==
    Min({k \in 0 .. n : k = n \/ ((s + k) % Word = 0 /\ (n - k) % Word = 0)})

memset(m, s, c, n) ==
    LET k == Head8(s, n)
        words == (n - k + Word - 1) \div Word
    IN  Fill(Fill(m, s .. s + k - 1, c), s + k .. s + k + Word * words - 1, c)

CopyBytes(m, d, s, offsets) ==
    LET Copied[k \in 0 .. Len(offsets)] ==
            IF k = 0 THEN m
            ELSE LET r == Copied[k - 1] IN [r EXCEPT ![d + offsets[k]] = r[s + offsets[k]]]
    IN  Copied[Len(offsets)]

Upwards(n) == [i \in 1 .. n |-> i - 1]

memcpy(m, d, s, n) == CopyBytes(m, d, s, Upwards(n))

memmove(m, d, s, n) ==
    CopyBytes(m, d, s, IF s < d THEN Reverse(Upwards(n)) ELSE Upwards(n))

Difference(m, a, b, offsets) ==
    LET differing == {i \in offsets : m[a + i] # m[b + i]} IN
    IF differing = {} THEN 0 ELSE m[a + Min(differing)] - m[b + Min(differing)]

(* n is tested after it was decremented: n = 0 compares without an end.    *)
memcmp(m, a, b, n) ==
    Difference(m, a, b, IF n = 0 THEN {i \in DOMAIN m : a + i \in DOMAIN m /\ b + i \in DOMAIN m}
                        ELSE 0 .. n - 1)

-----------------------------------------------------------------------------
(* Strings.                                                                *)

strlen(m, s) == Stop(m, s, LAMBDA a : m[a] = 0) - s

strnlen(m, s, limit) == Stop(m, s, LAMBDA a : m[a] = 0 \/ a - s >= limit) - s

(* It does not stop at the terminators.                                    *)
strncmp(m, a, b, n) == Difference(m, a, b, 0 .. n - 1)

Signed8(c) == IF c < 128 THEN c ELSE c - 256

strcmp(m, a, b) ==
    LET p == Stop(m, a, LAMBDA q : m[q] # m[b + (q - a)] \/ m[q] = 0) IN
    Signed8(m[p]) - Signed8(m[b + (p - a)])

(* The terminator is not copied, and the rest of dest is left alone.       *)
strncpy(m, d, text, n) ==
    [a \in DOMAIN m |-> IF a \in d .. d + Min({n, Len(text)}) - 1
                        THEN text[a - d + 1] ELSE m[a]]

strncat(m, d, text, n) ==
    LET end == d + strlen(m, d)
        last == end + Min({n, Len(text)})
    IN  [strncpy(m, end, text, n) EXCEPT ![last] = 0]

strchr(m, s, c) ==
    LET p == Stop(m, s, LAMBDA a : m[a] = c \/ m[a] = 0) IN
    IF m[p] = c THEN p ELSE NULL

(* The first character is stepped over, whatever it is.                    *)
strrchr(m, s, c) ==
    LET found == {a \in s + 1 .. s + 1 + strlen(m, s + 1) : m[a] = c /\ m[a] # 0} IN
    IF found = {} THEN NULL ELSE Max(found)

(* Mutant: a failed comparison skips all it has looked at.                 *)
SearchSkipping(m, h, left, needle, len) ==
    LET From[b \in DOMAIN m] ==
            LET a == Stop(m, b, LAMBDA q : m[q] = 0 \/ m[q] = m[needle])
            IN  IF m[a] = 0 \/ left - (a - h) < len THEN NULL
                ELSE IF strncmp(m, a, needle, len) = 0 THEN a ELSE From[a + len]
    IN  From[h]

(* Both loops step over one character, so they are one: it leaves at the   *)
(* end, or at the first character of needle if that is too close to the    *)
(* end or begins it.                                                       *)
Search(m, h, left, needle, len) ==
    LET short(a) == left - (a - h) < len
        p == Stop(m, h, LAMBDA a : \/ m[a] = 0
                                   \/ /\ m[a] = m[needle]
                                      /\ short(a) \/ strncmp(m, a, needle, len) = 0)
    IN  IF m[p] = 0 \/ short(p) THEN NULL ELSE p

strstr(m, h, needle) ==
    IF m[needle] = 0 THEN h
    ELSE Search(m, h, strlen(m, h), needle, strlen(m, needle))

-----------------------------------------------------------------------------
(* Numbers.                                                                *)

Power(b, n) ==
    LET Of[k \in 0 .. n] == IF k = 0 THEN 1 ELSE b * Of[k - 1]
    IN  Of[n]

Unsigned(v) == v % Power(2, Width)

Signed(u) == IF u < Power(2, Width - 1) THEN u ELSE u - Power(2, Width)

(* The digits, the least one first.                                        *)
Digits(u, base) ==
    LET From[v \in 0 .. u] == IF v = 0 THEN << >> ELSE <<v % base>> \o From[v \div base]
    IN  From[u]

(* itoa and ltoa differ in the width only.  They write the digits and the  *)
(* sign backwards, then reverse the text.                                  *)
itoa(v, base) ==
    LET minus == v < 0 /\ base = 10 IN
    IF v = 0 THEN <<0>>
    ELSE Reverse(Digits(Unsigned(IF minus THEN -v ELSE v), base)
                 \o (IF minus THEN <<Minus>> ELSE << >>))

(* What atoi has read, shifted once more.  The low digit of val is 0 where *)
(* the next is or'ed to it.                                                *)
Shifted(text) ==
    LET Val[k \in 0 .. Len(text)] == IF k = 0 THEN 0 ELSE Unsigned((Val[k - 1] + text[k]) * 16)
    IN  Val[Len(text)]

(* Mutant: the last shift is not taken back.                               *)
AtoiShifted(text) == Signed(Shifted(text))

(* For base 16; for any other the code returns -1 and reads nothing, and   *)
(* no caller asks for it.                                                  *)
atoi(text) == Signed(Shifted(text)) \div 16

(* print_int8 .. print_uint64 of debug.c.                                  *)
PRINT_BITCNT(v) ==
    [k \in 1 .. Width \div 4 |-> (Unsigned(v) \div Power(16, Width \div 4 - k)) % 16]

-----------------------------------------------------------------------------
(* What the functions promise.                                             *)

(* The last cell ends every string.                                        *)
Memories == {m \in [0 .. Cells -> Bytes] : m[Cells] = 0}

Addresses == 0 .. Cells

Text(m, s) ==
    LET end == CHOOSE e \in DOMAIN m : e >= s /\ m[e] = 0 /\ \A a \in s .. e - 1 : m[a] # 0
    IN  [i \in 1 .. end - s |-> m[s + i - 1]]

(* The blocks of a memory: where, and how long.                            *)
Blocks == {b \in Addresses \X (1 .. Cells) : b[1] + b[2] <= Cells + 1}

(* Positive, zero or negative as the first string is greater, equal or     *)
(* less, byte by byte and without signs.                                   *)
Order(t, u) ==
    LET at(w, i) == IF i <= Len(w) THEN w[i] ELSE 0
        differing == {i \in 1 .. Max({Len(t), Len(u)}) : at(t, i) # at(u, i)}
    IN  IF differing = {} THEN 0 ELSE at(t, Min(differing)) - at(u, Min(differing))

SameSign(x, y) == (x > 0 <=> y > 0) /\ (x < 0 <=> y < 0)

(* memset changes its block and no other byte, though it writes whole      *)
(* words; memmove moves a block onto one that overlaps it, on either side, *)
(* and memcpy onto one that begins at a lower address or lies apart.       *)
BlockFunctionsAgree ==
    \A m \in Memories, b \in Blocks :
        LET s == b[1]  n == b[2] IN
        /\ \A c \in Bytes : memset(m, s, c, n) = Fill(m, s .. s + n - 1, c)
        /\ \A d \in {x \in Addresses : <<x, n>> \in Blocks} :
              LET moved == [a \in DOMAIN m |-> IF a \in d .. d + n - 1 THEN m[s + a - d] ELSE m[a]]
              IN  /\ memmove(m, d, s, n) = moved
                  /\ d <= s \/ d >= s + n => memcpy(m, d, s, n) = moved
                  /\ memcmp(m, d, s, n) = 0 <=> \A i \in 0 .. n - 1 : m[d + i] = m[s + i]

(* The functions on one string find what they are asked for, and strncat   *)
(* joins.  strrchr fails for a match on the first character, and reads     *)
(* past an empty string.                                                   *)
SearchesAgree ==
    \A m \in Memories, s \in Addresses :
        LET t == Text(m, s) IN
        /\ strlen(m, s) = Len(t)
        /\ \A n \in 0 .. Cells - s : strnlen(m, s, n) = Min({n, Len(t)})
        /\ \A c \in Bytes \ {0} :
              LET at == {i \in 1 .. Len(t) : t[i] = c} IN
              /\ strchr(m, s, c) = IF at = {} THEN NULL ELSE s + Min(at) - 1
              /\ t # << >> => strrchr(m, s, c) =
                     IF at \ {1} = {} THEN NULL ELSE s + Max(at \ {1}) - 1
        /\ \A b \in Addresses :
              LET needle == Text(m, b)
                  at == {i \in 0 .. Len(t) : IsPrefix(needle, SubSeq(t, i + 1, Len(t)))}
              IN  strstr(m, s, b) = IF at = {} THEN NULL ELSE s + Min(at)

(* Two strings are ordered as their bytes are: for strcmp below 128 only,  *)
(* for strncmp unless it goes on behind two equal strings.                 *)
ComparisonsAgree ==
    \A m \in Memories, a, b \in Addresses :
        LET t == Text(m, a)  u == Text(m, b) IN
        /\ (\A c \in ToSet(t) \cup ToSet(u) : c < 128) =>
               SameSign(strcmp(m, a, b), Order(t, u))
        /\ \A n \in 0 .. Cells - Max({a, b}) :
               LET tn == SubSeq(t, 1, Min({n, Len(t)}))  un == SubSeq(u, 1, Min({n, Len(u)}))
               IN  tn # un \/ Len(t) >= n => SameSign(strncmp(m, a, b, n), Order(tn, un))

(* strncat appends at most n characters and ends the string; strncpy puts  *)
(* them in front of what is there.  Neither touches any other byte.        *)
JoinsAgree ==
    \A m \in Memories, d \in Addresses, text \in SeqOf(Bytes \ {0}, 2), n \in 0 .. 2 :
        LET head == SubSeq(text, 1, Min({n, Len(text)}))
            t == Text(m, d)
            cat == strncat(m, d, text, n)
            cpy == strncpy(m, d, text, n)
        IN  d + Len(t \o head) <= Cells =>
              /\ Text(cat, d) = t \o head
              /\ \A a \in Addresses \ (d .. d + Len(t \o head)) : cat[a] = m[a]
              /\ Len(head) <= Len(t) => Text(cpy, d) = head \o SubSeq(t, Len(head) + 1, Len(t))
              /\ \A a \in Addresses \ (d .. d + Len(head) - 1) : cpy[a] = m[a]

StringFunctionsAgree == SearchesAgree /\ ComparisonsAgree /\ JoinsAgree

Value(text, base) ==
    LET Of[k \in 0 .. Len(text)] == IF k = 0 THEN 0 ELSE Of[k - 1] * base + text[k]
    IN  Of[Len(text)]

(* What itoa, ltoa and the print functions write is the number.  atoi      *)
(* takes it back just for the numbers that fit with their sign into        *)
(* Width - 4 bits, as its last shift drops four: of 32 bits, 0x07FFFFFF    *)
(* and 0xF8000000 are read back, and 0x08000000 is not.                    *)
NumberFunctionsAgree ==
    \A v \in -Power(2, Width - 1) .. Power(2, Width - 1) - 1 :
        /\ Value(PRINT_BITCNT(v), 16) = Unsigned(v)
        /\ \A base \in {2, 10, 16, 36} :
              LET t == itoa(v, base)
                  digits == IF t[1] = Minus THEN Tail(t) ELSE t
              IN  /\ Minus \notin ToSet(digits) /\ (digits[1] = 0 => digits = <<0>>)
                  /\ IF base # 10 THEN Value(t, base) = Unsigned(v)
                     ELSE v = (IF t[1] = Minus THEN -1 ELSE 1) * Value(digits, 10)
        /\ atoi(itoa(v, 16)) = v <=> v \in -Power(2, Width - 5) .. Power(2, Width - 5) - 1

=============================================================================
