----------------------------- MODULE SupplyApr ------------------------------
(***************************************************************************)
(* The native supply rate of a Solend reserve                              *)
(* (bins/solfrontier-mcp/src/finalize_market.rs), the integer arithmetic   *)
(* that decides when a rule fires.  A u128 has 2 * HalfBits bits and a u64 *)
(* half of them; NULL is an error.                                         *)
(***************************************************************************)
EXTENDS Naturals, Null

CONSTANTS
    HalfBits,
    SOLEND_WAD,             \* the unit of a fixed-point number
    Hundred,                \* percents in a whole
    BPS_WAD,                \* a basis point
    APR_BPS_SANITY_MAX

ASSUME WadAssumption ==
    /\ {HalfBits, SOLEND_WAD, Hundred, BPS_WAD} \subseteq Nat \ {0}
    /\ APR_BPS_SANITY_MAX \in Nat
    /\ SOLEND_WAD % Hundred = 0 /\ SOLEND_WAD % BPS_WAD = 0

\* The powers of two that fit into two words, as a function of the exponent.
pow2[n \in 0 .. 4 * HalfBits] == IF n = 0 THEN 1 ELSE 2 * pow2[n - 1]

U64 == pow2[HalfBits]
U128 == pow2[2 * HalfBits]

\* As 10^18 is a u128 and 10^16, a percent, is a u64.
ASSUME WidthAssumption == SOLEND_WAD < U128 /\ SOLEND_WAD \div Hundred <= U64
ASSUME ErrorAssumption == NULL \notin Nat

checked(n) == IF n < U128 THEN n ELSE NULL

\* left * right in two words, by the four products of their halves.
WideProduct(left, right) ==
    LET low_low   == (left % U64) * (right % U64)
        low_high  == (left % U64) * (right \div U64)
        high_low  == (left \div U64) * (right % U64)
        high_high == (left \div U64) * (right \div U64)
        middle    == (low_high + high_low) % U128
        carry     == IF middle < low_high THEN U64 ELSE 0
        low       == low_low + ((middle * U64) % U128)
    IN  [high |-> high_high + (middle \div U64) + (low \div U128) + carry,
         low  |-> low % U128]

bit_of_u256(wide, index) ==
    IF index < 2 * HalfBits THEN (wide.low \div pow2[index]) % 2
    ELSE (wide.high \div pow2[index - 2 * HalfBits]) % 2

\* One round: the next bit comes down, and the divisor goes into the remainder
\* once or not at all.  What is shifted out of the remainder is remembered for
\* this round, what is shifted out of the quotient for good.
DivisionRound(before, bit, divisor) ==
    LET remainder == ((2 * before.remainder) % U128) + bit
        subtract  == 2 * before.remainder >= U128 \/ remainder >= divisor
    IN  [quotient  |-> ((2 * before.quotient) % U128) + (IF subtract THEN 1 ELSE 0),
         overflow  |-> before.overflow \/ 2 * before.quotient >= U128,
         remainder |-> IF subtract THEN (U128 + remainder - divisor) % U128
                       ELSE remainder]

\* The quotient of the two words by a divisor, a bit at a time from the top.
LongDivision(wide, divisor) ==
    LET Bits == 4 * HalfBits
        round[n \in 0 .. Bits] ==
            IF n = 0 THEN [quotient |-> 0, overflow |-> FALSE, remainder |-> 0]
            ELSE DivisionRound(round[n - 1], bit_of_u256(wide, Bits - n), divisor)
    IN  IF round[Bits].overflow THEN NULL ELSE round[Bits].quotient

mul_div_floor_u128(left, right, divisor) ==
    IF divisor = 0 THEN NULL
    ELSE IF left * right < U128 THEN (left * right) \div divisor
    ELSE LongDivision(WideProduct(left, right), divisor)

pct_to_wad(percent) == checked(percent * (SOLEND_WAD \div Hundred))

\* Mutant: rounds to the nearest.
mul_wad_Nearest(left, right) ==
    IF NULL \in {left, right} THEN NULL
    ELSE checked((left * right + SOLEND_WAD \div 2) \div SOLEND_WAD)

\* An operation on results has no result when an operand has none.
mul_wad(left, right) ==
    IF NULL \in {left, right} THEN NULL ELSE mul_div_floor_u128(left, right, SOLEND_WAD)

div_wad(numerator, denominator) ==
    IF NULL \in {numerator, denominator} THEN NULL
    ELSE mul_div_floor_u128(numerator, SOLEND_WAD, denominator)

checked_add(left, right) == IF NULL \in {left, right} THEN NULL ELSE checked(left + right)

\* The numbers of a reserve are words: borrowed_amount_wads a u128, the others
\* no wider than a u64.
ReserveRateSnapshot(reserve) ==
    /\ {"borrowed", "available", "minRate", "optimalRate", "maxRate", "superMaxRate",
        "optimalUtilization", "maxUtilization", "takeRate"} \subseteq DOMAIN reserve
    /\ reserve.borrowed \in 0 .. U128 - 1
    /\ {reserve.available, reserve.minRate, reserve.optimalRate, reserve.maxRate,
        reserve.superMaxRate, reserve.optimalUtilization, reserve.maxUtilization,
        reserve.takeRate} \subseteq 0 .. U64 - 1

is_reserve_config_valid(reserve) ==
    /\ reserve.minRate <= reserve.optimalRate
    /\ reserve.optimalRate <= reserve.maxRate
    /\ reserve.maxRate <= reserve.superMaxRate
    /\ reserve.optimalUtilization <= reserve.maxUtilization
    /\ reserve.maxUtilization <= Hundred
    /\ reserve.takeRate <= Hundred

utilization_wad(reserve) ==
    IF reserve.borrowed = 0 THEN 0
    ELSE div_wad(reserve.borrowed,
                 checked_add(reserve.borrowed, checked(reserve.available * SOLEND_WAD)))

\* From one rate to another as the weight goes from nothing to a whole.
Interpolated(from, to, weight) ==
    checked_add(mul_wad(weight, pct_to_wad(to - from)), pct_to_wad(from))

\* The curve has three pieces; a piece that is empty is its left end.
current_borrow_rate_wad(reserve) ==
    LET u       == utilization_wad(reserve)
        optimal == pct_to_wad(reserve.optimalUtilization)
        max     == pct_to_wad(reserve.maxUtilization)
    IN  IF NULL \in {u, optimal, max} THEN NULL
        ELSE IF u <= optimal
        THEN IF optimal = 0 THEN pct_to_wad(reserve.minRate)
             ELSE Interpolated(reserve.minRate, reserve.optimalRate, div_wad(u, optimal))
        ELSE IF u <= max
        THEN IF max = optimal THEN pct_to_wad(reserve.optimalRate)
             ELSE Interpolated(reserve.optimalRate, reserve.maxRate,
                               div_wad(u - optimal, max - optimal))
        ELSE IF max = SOLEND_WAD THEN pct_to_wad(reserve.superMaxRate)
        ELSE Interpolated(reserve.maxRate, reserve.superMaxRate,
                          div_wad(u - max, SOLEND_WAD - max))

supply_apr_wad(reserve) ==
    IF ~is_reserve_config_valid(reserve) THEN NULL
    ELSE mul_wad(current_borrow_rate_wad(reserve),
                 mul_wad(utilization_wad(reserve),
                         SOLEND_WAD - pct_to_wad(reserve.takeRate)))

apr_bps_from_wad(wad) == wad \div BPS_WAD

\* NULL also for a reserve that does not decode, or a rate that is not sane.
native_supply_apr_from_reserve_data(reserve) ==
    LET apr == IF reserve.decodes THEN supply_apr_wad(reserve) ELSE NULL
    IN  IF apr = NULL THEN NULL
        ELSE IF apr_bps_from_wad(apr) > APR_BPS_SANITY_MAX THEN NULL ELSE apr

-----------------------------------------------------------------------------
(* The rate itself, as a fraction over unbounded integers.                 *)

Share(reserve) == [n |-> reserve.borrowed,
                   d |-> reserve.borrowed + reserve.available * SOLEND_WAD]

\* from + (to - from) * (share - left) / (right - left), all in percents.
Line(share, from, to, left, right) ==
    [n |-> from * (right - left) * share.d + (to - from) * (share.n * Hundred - left * share.d),
     d |-> Hundred * (right - left) * share.d]

BorrowRate(reserve) ==
    LET share == Share(reserve)
        upTo(percent) == share.n * Hundred <= percent * share.d
    IN  IF upTo(reserve.optimalUtilization)
        THEN IF reserve.optimalUtilization = 0 THEN [n |-> reserve.minRate, d |-> Hundred]
             ELSE Line(share, reserve.minRate, reserve.optimalRate,
                       0, reserve.optimalUtilization)
        ELSE IF upTo(reserve.maxUtilization)
        THEN Line(share, reserve.optimalRate, reserve.maxRate,
                  reserve.optimalUtilization, reserve.maxUtilization)
        ELSE Line(share, reserve.maxRate, reserve.superMaxRate,
                  reserve.maxUtilization, Hundred)

SupplyRate(reserve) ==
    IF reserve.borrowed = 0 THEN [n |-> 0, d |-> 1]
    ELSE [n |-> BorrowRate(reserve).n * Share(reserve).n * (Hundred - reserve.takeRate),
          d |-> BorrowRate(reserve).d * Share(reserve).d * Hundred]

=============================================================================
