------------------------------ MODULE StakeDec ------------------------------
(***************************************************************************)
(* The decimals of math/dec.go that shares are counted in, and the         *)
(* exchange of tokens for shares of x/staking/types/validator.go.  A       *)
(* decimal is an integer number of its smallest units; Unit of them are 1  *)
(* (10^18 in the code).                                                    *)
(***************************************************************************)
EXTENDS Integers

CONSTANT Unit

ASSUME UnitAssumption == Unit \in Nat \ {0}

Dec(n) == n * Unit
TruncateInt(x) == x \div Unit

\* Banker's rounding of the digits that a product or a quotient has too many.
ChopPrecisionAndRound(x) ==
    LET quo == x \div Unit
        rem == x % Unit
    IN  IF 2 * rem < Unit \/ (2 * rem = Unit /\ quo % 2 = 0) THEN quo ELSE quo + 1

Mul(x, y) == ChopPrecisionAndRound(x * y)
Quo(x, y) == ChopPrecisionAndRound((x * Unit * Unit) \div y)

-----------------------------------------------------------------------------
(* val has its tokens, an integer, and the shares they are divided into.   *)

InvalidExRate(val) == val.tokens = 0 /\ val.shares > 0

TokensFromShares(val, shares) == Quo(shares * val.tokens, val.shares)

\* Rounded down, so that nobody gains by it.
SharesFromTokens(val, amt) == (val.shares * amt) \div val.tokens

IssuedShares(val, amt) == IF val.shares = 0 THEN Dec(amt) ELSE SharesFromTokens(val, amt)

\* The last share takes all the tokens that are left.
IssuedTokens(val, shares) ==
    IF val.shares = shares THEN val.tokens ELSE TruncateInt(TokensFromShares(val, shares))
=============================================================================
