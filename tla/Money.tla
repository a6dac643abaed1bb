-------------------------------- MODULE Money --------------------------------
(* Amounts in columns of type Float, of any number of decimals, and the two *)
(* ways in which they become whole cents (report-money.utils.ts; the        *)
(* columns of type DECIMAL(18, 2)).                                         *)
(*                                                                          *)
(* An amount is the decimal that was entered, counted in parts of a cent.   *)
(* Additions of Floats are exact here: their binary error is far below a    *)
(* part.  At half a cent it matters: moneyToCents multiplies the binary     *)
(* fraction nearest to the decimal, which may be below it, so that 1.005    *)
(* becomes 100 cents; PostgreSQL rounds the decimal itself, to 101.         *)
EXTENDS Integers

CONSTANTS
  Parts,    \* parts of a cent: as many as the finest amount needs
  TiesUp    \* amounts at half a cent that moneyToCents rounds up

ASSUME PartsAssumption == Parts \in Nat \ {0}

\* Nearer to the cent above than to the one below.
AboveHalf(a) == 2 * (a % Parts) > Parts
AtHalf(a) == 2 * (a % Parts) = Parts

MoneyToCents(a) ==
  IF AboveHalf(a) \/ (AtHalf(a) /\ a \in TiesUp)
  THEN a \div Parts + 1 ELSE a \div Parts

\* What a DECIMAL(18, 2) keeps of an amount, in cents.
ToDecimal(a) ==
  IF AboveHalf(a) \/ AtHalf(a) THEN a \div Parts + 1 ELSE a \div Parts

\* Number(decimal)
ToFloat(cents) == cents * Parts

\* The cents are what n amounts, `parts' together, were rounded to one by one.
RoundedFrom(cents, parts, n) ==
  /\ 2 * (ToFloat(cents) - parts) <= n * Parts
  /\ 2 * (parts - ToFloat(cents)) <= n * Parts
=============================================================================
