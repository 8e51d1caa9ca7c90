------------------------------- MODULE Arrays -------------------------------
(* The index arithmetic of src/src/libcore/src/ccm/util/Arrays.cpp:         *)
(* RangeCheck, CheckOffsetAndCount, BinarySearch0, the ranged Fill and     *)
(* CopyOf, as operators over W-bit two's-complement Integers.  An array is *)
(* a function from 0..length-1.  The code's Integer is 32 bits wide; the   *)
(* operators take the width as a constant so that the wrap-around of       *)
(* low + high and of offset + count is reached with arrays TLC can         *)
(* enumerate.  Signed overflow is undefined in C++; the builds wrap, so    *)
(* the model wraps.                                                        *)
EXTENDS Integers, FiniteSets, Bitwise

CONSTANT W   \* the width of Integer in bits

MaxInt == 2^(W - 1) - 1
MinInt == -(2^(W - 1))
Int32 == MinInt..MaxInt   \* the values of an Integer

\* An Integer operation's result, wrapped to W bits.
Wrap(x) == ((x - MinInt) % 2^W) + MinInt
\* (unsigned Integer)x.
Unsigned(x) == x % 2^W

NOERROR == "NOERROR"
IllegalArgument == "E_ILLEGAL_ARGUMENT_EXCEPTION"
OutOfBounds == "E_ARRAY_INDEX_OUT_OF_BOUNDS_EXCEPTION"
\* a[mid] with mid outside the array: a value no search returns.
BadRead == MaxInt + 1

Length(a) == Cardinality(DOMAIN a)

\* A plausible fault: the end of the range is not checked.
RangeCheckWithoutEnd(arrayLength, fromIndex, toIndex) ==
    CASE fromIndex > toIndex -> IllegalArgument
      [] fromIndex < 0 -> OutOfBounds
      [] OTHER -> NOERROR

RangeCheck(arrayLength, fromIndex, toIndex) ==
    CASE fromIndex > toIndex -> IllegalArgument
      [] fromIndex < 0 -> OutOfBounds
      [] toIndex > arrayLength -> OutOfBounds
      [] OTHER -> NOERROR

\* (offset | count) < 0: the sign bit of either is set.
EitherNegative(offset, count) == (Unsigned(offset) | Unsigned(count)) > MaxInt

\* A plausible fault: the end of the range computed as offset + count.
CheckOffsetAndCountBySum(arrayLength, offset, count) ==
    IF EitherNegative(offset, count) \/ Wrap(offset + count) > arrayLength
    THEN OutOfBounds ELSE NOERROR

CheckOffsetAndCount(arrayLength, offset, count) ==
    IF \/ EitherNegative(offset, count)
       \/ offset > arrayLength
       \/ Wrap(arrayLength - offset) < count
    THEN OutOfBounds ELSE NOERROR

\* A plausible fault: the midpoint computed with a signed shift.
Midpoint(low, high) == Wrap(low + high) \div 2

\* ((unsigned Integer)(low + high)) >> 1
UnsignedMidpoint(low, high) == shiftR(Unsigned(Wrap(low + high)), 1)

\* The loop of BinarySearch0, from one value of (low, high).
RECURSIVE Search(_, _, _, _)
Search(a, low, high, key) ==
    IF low > high THEN Wrap(-(low + 1))   \* key not found
    ELSE LET mid == UnsignedMidpoint(low, high) IN
         IF mid \notin DOMAIN a THEN BadRead
         ELSE IF a[mid] < key THEN Search(a, Wrap(mid + 1), high, key)
         ELSE IF a[mid] > key THEN Search(a, low, Wrap(mid - 1), key)
         ELSE mid                             \* key found

BinarySearch0(a, fromIndex, toIndex, key) ==
    Search(a, fromIndex, Wrap(toIndex - 1), key)

BinarySearch(a, key) == BinarySearch0(a, 0, Length(a), key)

\* Fill(a, fromIndex, toIndex, value): the error, or the array and the
\* indices the loop wrote.
Fill(a, fromIndex, toIndex, value) ==
    LET rc == RangeCheck(Length(a), fromIndex, toIndex) IN
    IF rc # NOERROR THEN [ec |-> rc, array |-> a, wrote |-> {}]
    ELSE [ec |-> NOERROR,
          array |-> [i \in DOMAIN a |-> IF i \in fromIndex..toIndex - 1
                                        THEN value ELSE a[i]],
          wrote |-> fromIndex..toIndex - 1]

\* Fill(a, value): every element.
FillAll(a, value) == [i \in DOMAIN a |-> value]

\* CopyOf(original, newLength): the error, or the copy and the indices of
\* original it read.  Elements past the original are null.
CopyOf(original, newLength, null) ==
    LET n == IF Length(original) < newLength THEN Length(original) ELSE newLength IN
    IF newLength < 0 THEN [ec |-> IllegalArgument, array |-> <<>>, read |-> {}]
    ELSE [ec |-> NOERROR,
          array |-> [i \in 0..newLength - 1 |-> IF i < n THEN original[i] ELSE null],
          read |-> 0..n - 1]
=============================================================================
