--------------------------- MODULE ConversionRate ---------------------------
(***************************************************************************)
(* helpers/basic_helper.js: the conversion factor of a branded token (1 OST *)
(* is that many tokens), which people and the token file use, and the      *)
(* conversion rate with its decimals, which the contracts keep.  A factor  *)
(* is a decimal number; here it is a whole number of the smallest step a   *)
(* factor may have, 10^-Digits.                                            *)
(***************************************************************************)
EXTENDS Integers

Decimals == 5   \* CONVERSION_RATE_DECIMALS
Digits   == 6   \* one digit more than a rate can carry

\* 10^n for n in 0..Digits.
Pow10(n) == <<1, 10, 100, 1000, 10000, 100000, 1000000>>[n + 1]

isBTConversionFactorValid(factor) == factor > 0
isBTConversionRateValid(rate) == rate >= 1
isBTConversionRateDecimalsValid(decimals) == decimals \in 0..Decimals

Failure == [ok |-> FALSE, rate |-> 0, decimals |-> 0]

\* factor * 10^Decimals must be a whole number.
RateStep == Pow10(Digits - Decimals)

MutantRoundsDown(factor) ==
  IF isBTConversionFactorValid(factor)
  THEN [ok |-> TRUE, rate |-> factor \div RateStep, decimals |-> Decimals]
  ELSE Failure
convertConversionFactorToConversionRate(factor) ==
  IF isBTConversionFactorValid(factor) /\ factor % RateStep = 0
  THEN [ok |-> TRUE, rate |-> factor \div RateStep, decimals |-> Decimals]
  ELSE Failure

\* The factor, or 0 for a rate or decimals that cannot be.
convertConversionRateToConversionFactor(rate, decimals) ==
  IF isBTConversionRateValid(rate) /\ isBTConversionRateDecimalsValid(decimals)
  THEN rate * Pow10(Digits - decimals)
  ELSE 0
=============================================================================
