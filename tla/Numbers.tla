------------------------------- MODULE Numbers -------------------------------
(***************************************************************************)
(* The conversions of numbers between the program's edges:                    *)
(* REQUEST_TIMEOUT_SECONDS to a client's timeout, an amount in a token's       *)
(* smallest unit to the balance that the app shows and to its value.  Each     *)
(* behaviour is one such conversion; the properties compare it with what the   *)
(* number stands for.                                                         *)
(***************************************************************************)
EXTENDS Integers, FiniteSetsExt

CONSTANTS
  MaxInt,      \* the largest int, 2^63 - 1 in the program
  Second,      \* time.Second
  PriceDigits, \* digits after the point in a price, 12
  ValueDigits, \* digits after the point in a value, 8
  Seconds,     \* integers that the environment may hold
  Raws, Decimals,        \* amounts in a smallest unit, decimals of a token
  Prices                 \* numerals of the market, or NoPrice

ASSUME MachineIntegers ==
  /\ {MaxInt, Second, PriceDigits, ValueDigits} \subseteq Nat
  /\ 0 < Second /\ 15 * Second <= MaxInt
  /\ Seconds \subseteq Int

\* What tokens, nodes and the market count in: a uint256, a table's decimals or a
\* uint8, and a price that is not negative.
ASSUME Amounts ==
  /\ Raws \subseteq Nat /\ Decimals \subseteq Nat
  /\ Prices \subseteq [m : Nat, k : Nat]

VARIABLES asked, result

conversion == <<asked, result>>

\* The number m / 10^k, written with k digits after the point.
Numeral(m, k) == [m |-> m, k |-> k]

NoPrice == Numeral(0, 0) \* a token that the market did not list

Nothing == [op |-> "none"]

\* A machine integer keeps the low bits.
Wrap(x) == ((x + MaxInt + 1) % (2 * (MaxInt + 1))) - (MaxInt + 1)

\* 0 stands for every text that Atoi refuses, numbers above MaxInt included.
ParsePositive(value, fallback) ==
  IF value \in 1..MaxInt THEN value ELSE fallback

RequestTimeout(seconds) == Wrap(ParsePositive(seconds, 15) * Second)

\* Mutant of ClientTimeout: the clients take the configuration's word.
ClientTimeoutAsIs(seconds) == RequestTimeout(seconds)

\* To http.Client a timeout of 0 or less is no timeout at all.
ClientTimeout(seconds) ==
  IF RequestTimeout(seconds) > 0 THEN RequestTimeout(seconds) ELSE 15 * Second

\* 10 to the n-th.
Ten[n \in Nat] == IF n = 0 THEN 1 ELSE 10 * Ten[n - 1]

\* Without the zeros at the end of its last `among` digits.
WithoutZeros(n, among) ==
  LET zeros == Max({j \in 0..among : n.m % Ten[j] = 0})
  IN  Numeral(n.m \div Ten[zeros], Max({n.k - zeros, 0}))

\* TrimRight of the zeros and then of the point.
Trimmed(n) == WithoutZeros(n, n.k)

\* Mutant of Rounded: the digits that do not fit are cut off.
Truncated(m, k, digits) ==
  Trimmed(IF k <= digits THEN Numeral(m, k) ELSE Numeral(m \div Ten[k - digits], digits))

\* Text of m / 10^k with so many digits, trimmed.  A tie goes up here.  Go sends
\* it to the even digit, or either way where the tie has no exact binary form;
\* what ValueIsNearest allows is the same.
Rounded(m, k, digits) ==
  IF k <= digits THEN Trimmed(Numeral(m, k))
  ELSE LET unit == Ten[k - digits]
       IN  Trimmed(Numeral((m + unit \div 2) \div unit, digits))

\* Mutant of FormatTokenAmount: without the case of a token without decimals,
\* whose text has no point to stop the trimming.
FormatTokenAmountPlain(raw, decimals) ==
  WithoutZeros(Numeral(raw, decimals), IF decimals = 0 THEN 2 ELSE decimals)

\* Negative decimals do not occur: the tables have none, uint8 holds none.
FormatTokenAmount(raw, decimals) ==
  IF decimals = 0 THEN Numeral(raw, 0) ELSE Trimmed(Numeral(raw, decimals))

FormatUSDPrice(price) == Rounded(price.m, price.k, PriceDigits)

\* A price that the market did not give is blank, and the value then "0".
CalculateEqualUSDT(balance, price) ==
  Rounded(balance.m * price.m, balance.k + price.k, ValueDigits)

-----------------------------------------------------------------------------
Ask ==
  /\ result = Nothing
  /\ asked \in [op : {"timeout"}, seconds : Seconds]
           \cup [op : {"value"}, raw : Raws, decimals : Decimals, price : Prices]

Asked(op) == result = Nothing /\ asked.op = op /\ UNCHANGED asked

Configure ==
  /\ Asked("timeout")
  /\ result' = [op |-> "timeout", timeout |-> ClientTimeout(asked.seconds)]

Show ==
  /\ Asked("value")
  /\ LET balance == FormatTokenAmount(asked.raw, asked.decimals)
         price == FormatUSDPrice(asked.price)
     IN  result' = [op |-> "value", balance |-> balance,
                    value |-> CalculateEqualUSDT(balance, price)]

Convert == Configure \/ Show

Conversions == Ask /\ [][Convert]_conversion

-----------------------------------------------------------------------------
(* Properties *)

\* Whatever the environment says, the clients of CoinGecko and Alchemy have a
\* timeout, the one it says if a duration can hold it.
TimeoutIsSet ==
  result.op = "timeout" =>
    /\ result.timeout \in 1..MaxInt
    /\ LET said == ParsePositive(asked.seconds, 15) * Second
       IN  said <= MaxInt => result.timeout = said

\* A balance reads as the raw amount, to the last digit, and in one way only:
\* it has no zero at the end of its fraction.
BalanceIsExact ==
  result.op = "value" =>
    LET b == result.balance
    IN  /\ b.k <= asked.decimals
        /\ b.m * Ten[asked.decimals - b.k] = asked.raw
        /\ b.k > 0 => b.m % 10 # 0

Abs(x) == IF x < 0 THEN -x ELSE x

\* A value is the amount at the market's price but for the roundings to
\* PriceDigits and ValueDigits, half a unit each.
ValueIsNearest ==
  result.op = "value" =>
    LET p == asked.price
        scale == asked.decimals + p.k
        At(n, k) == n * Ten[scale + ValueDigits + PriceDigits - k]
        exact == At(asked.raw * p.m, scale)
    IN  2 * Abs(At(result.value.m, result.value.k) - exact)
          <= At(1, ValueDigits) + At(asked.raw, asked.decimals + PriceDigits)

=============================================================================
