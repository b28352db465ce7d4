------------------------------- MODULE ShareMath -------------------------------
(***************************************************************************)
(* The arithmetic every staking pool of the network pallet is built from:  *)
(* saturating u128 addition and subtraction, and the conversion between an *)
(* amount of TENSOR and shares of a pool (stake/staking_utils.rs).         *)
(*                                                                         *)
(* The pools follow the ERC-4626 "virtual offset" scheme: a conversion     *)
(* sees VirtualShares more shares and one more token than the pool holds,  *)
(* and the first deposit mints MIN_LIQUIDITY shares nobody owns.           *)
(***************************************************************************)
EXTENDS Integers

CONSTANT MaxBalance     \* u128::MAX, the largest amount or number of shares

ASSUME MaxBalanceAssumption == MaxBalance \in Nat

Balance == 0 .. MaxBalance

MIN_LIQUIDITY == 1000
VirtualShares == 10

(* saturating_accrue / saturating_add and saturating_reduce / saturating_sub *)
SatAdd(x, y) == IF x + y \in Balance THEN x + y ELSE MaxBalance
SatSub(x, y) == IF x - y \in Balance THEN x - y ELSE 0

(* checked_mul_div in 256 bits, then the conversion back to 128 bits.      *)
MulDiv(x, y, z) == LET q == (x * y) \div z IN IF q \in Balance THEN q ELSE MaxBalance

(* Mutant: the quotient rounded up.                                        *)
MulDivRoundsUp(x, y, z) ==
  LET q == (x * y + z - 1) \div z IN IF q \in Balance THEN q ELSE MaxBalance

convert_to_shares(balance, total_shares, total_balance) ==
  IF total_shares = 0 THEN balance
  ELSE MulDiv(balance, total_shares + VirtualShares, total_balance + 1)

(* Mutant: the conversion with its rounding turned around.                 *)
ConvertToBalanceRoundsUp(shares, total_shares, total_balance) ==
  IF total_shares = 0 THEN shares
  ELSE MulDivRoundsUp(shares, total_balance + 1, total_shares + VirtualShares)

convert_to_balance(shares, total_shares, total_balance) ==
  IF total_shares = 0 THEN shares
  ELSE MulDiv(shares, total_balance + 1, total_shares + VirtualShares)
================================================================================
