------------------------------- MODULE Base62 -------------------------------
(***************************************************************************)
(* The base62 codec of the TURN user names (turn.rs): b62_encode takes six  *)
(* bits at a time from the end of the bytes, or five where the next four of *)
(* them are all set; b62_decode, with which the TURN server reads the user  *)
(* name again, must find out which it was.                                  *)
(*                                                                         *)
(* One step is one round of a loop.  A digit is its index in B62.           *)
(***************************************************************************)
EXTENDS Integers, Sequences

CONSTANT Sources   \* the byte strings that are encoded

Byte == 0 .. 255

ASSUME SourcesAssumption == Sources \subseteq Seq(Byte)

VARIABLES
    src,       \* the bytes
    codec,     \* the loop that runs: "encode", "decode" or "done"
    pos,       \* b62_encode: bits of src that are left
    digits,    \* b62_encode: out
    at,        \* b62_decode: the digits that were read
    bits,      \* b62_decode: pos, bits of acc that are not written
    acc,       \* b62_decode: b
    idx,       \* b62_decode: idx
    dst        \* b62_decode: dst[idx..]

base62Vars == <<src, codec, pos, digits, at, bits, acc, idx, dst>>

Base62Init ==
    /\ src \in Sources
    /\ codec = "encode"
    /\ pos = 8 * Len(src)
    /\ digits = <<>>
    /\ at = 0 /\ bits = 0 /\ acc = 0 /\ idx = 0 /\ dst = <<>>

-----------------------------------------------------------------------------

\* b & COMPACT == COMPACT.
Compact(b) == (b \div 2) % 16 = 15

\* The six bits of src that end at p; fewer at the start of src.
SixBits(p) ==
    LET r == IF p % 8 = 0 THEN 8 ELSE p % 8
        i == IF p % 8 = 0 THEN p \div 8 ELSE (p \div 8) + 1
        high == IF r < 6 /\ i > 1 THEN src[i - 1] * 2^r ELSE 0
    IN ((src[i] \div 2^(8 - r)) + high) % 64

\* How many of them, b, a digit takes, and the digit.
Size(b, p) == IF Compact(b) /\ (p > 6 \/ b > 31) THEN 5 ELSE 6

Digit(b) == IF Compact(b) THEN b % 32 ELSE b

\* One round of b62_encode.
EncodeDigit ==
    /\ codec = "encode"
    /\ pos > 0
    /\ LET b == SixBits(pos)
       IN /\ digits' = Append(digits, Digit(b))
          /\ pos' = pos - Size(b, pos)
    /\ UNCHANGED <<src, codec, at, bits, acc, idx, dst>>

\* The end of b62_encode and the start of b62_decode.
BeginDecode ==
    /\ codec = "encode"
    /\ pos <= 0
    /\ codec' = "decode"
    /\ idx' = ((Len(digits) * 6) \div 8) + 1
    /\ UNCHANGED <<src, pos, digits, at, bits, acc, dst>>

\* bit_len of a digit.
BitLen(x) == CHOOSE n \in 0 .. 6 : x < 2^n /\ (n = 0 \/ x >= 2^(n - 1))

\* Mutant: the last digit counts for as many bits as any other.
LastDigitFull(x, last) == IF Compact(x) THEN 5 ELSE 6

\* How many bits a digit stands for.
DigitBits(x, last) ==
    IF last THEN BitLen(x) ELSE IF Compact(x) THEN 5 ELSE 6

\* One round of b62_decode.
DecodeDigit ==
    /\ codec = "decode"
    /\ at < Len(digits)
    /\ LET x == digits[at + 1]
           b == acc + x * 2^bits
           n == bits + DigitBits(x, at + 1 = Len(digits))
       IN \/ /\ n >= 8
             /\ idx' = idx - 1
             /\ dst' = <<b % 256>> \o dst
             /\ bits' = n % 8
             /\ acc' = b \div 256
          \/ /\ n < 8
             /\ bits' = n
             /\ acc' = b
             /\ UNCHANGED <<idx, dst>>
    /\ at' = at + 1
    /\ UNCHANGED <<src, codec, pos, digits>>

\* What is left over after the last digit.
EndDecode ==
    /\ codec = "decode"
    /\ at = Len(digits)
    /\ codec' = "done"
    /\ \/ /\ bits > 0
          /\ idx' = idx - 1
          /\ dst' = <<acc % 256>> \o dst
       \/ /\ bits = 0
          /\ UNCHANGED <<idx, dst>>
    /\ UNCHANGED <<src, pos, digits, at, bits, acc>>

Base62Next == EncodeDigit \/ BeginDecode \/ DecodeDigit \/ EndDecode

Base62Spec == Base62Init /\ [][Base62Next]_base62Vars

-----------------------------------------------------------------------------
(* Properties *)

\* The user name that ice_servers hands out is the one auth_handle reads: the
\* decoder finds the boundary of every digit, and the buffer it allots (dst_len)
\* is never too short.
UserNameKept ==
    /\ idx >= 0
    /\ codec = "done" => dst = src

=============================================================================
