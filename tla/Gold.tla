-------------------------------- MODULE Gold --------------------------------
(***************************************************************************)
(* The int that holds a player's gold (std::atomic<int> Player::m_gold):    *)
(* what is paid comes out of a uint32_t of a packet, and neither that       *)
(* conversion nor an addition or subtraction is checked for overflow.       *)
(***************************************************************************)
EXTENDS Integers

CONSTANT IntMax   \* the largest int, 2^31 - 1 in the code

IntRange == -(IntMax + 1) .. IntMax
UIntRange == 0 .. 2 * IntMax + 1

\* The int that n becomes, for n a uint32_t or a sum or difference of two ints:
\* these are less than a turn of 2^32 outside.
ToInt(n) ==
  IF n > IntMax THEN n - 2 * (IntMax + 1)
  ELSE IF n < -(IntMax + 1) THEN n + 2 * (IntMax + 1)
  ELSE n

=============================================================================
