---------------------------- MODULE WebTokenProofs ----------------------------
(***************************************************************************)
(* Theorems about WebToken, for longs of any width and seconds of any      *)
(* length.                                                                 *)
(***************************************************************************)
EXTENDS WebToken, TLAPS

(* The date of a claim is at most a second before the one it is made of. *)
LEMMA InSecondsBounds ==
  ASSUME NEW millis \in Nat
  PROVE  /\ InSeconds(millis) \in Nat
         /\ InSeconds(millis) <= millis
         /\ millis < InSeconds(millis) + Second
  BY SecondAssumption DEF InSeconds

(* The sum of the clock and a time to live is either exact or negative: the test
   for a positive sum is a test for overflow. *)
LEMMA SumIsExactOrNegative ==
  ASSUME NEW now \in 1..LongMax, NEW ttlMillis \in 0..LongMax
  PROVE  /\ PlusLong(now, ttlMillis) \in Longs
         /\ PlusLong(now, ttlMillis) > 0 <=> now + ttlMillis <= LongMax
         /\ PlusLong(now, ttlMillis) > 0 => PlusLong(now, ttlMillis) = now + ttlMillis
  BY LongMaxAssumption DEF PlusLong, Longs

(* What is signed for every clock and setting. *)
LEMMA ExpirationAsAsked ==
  ASSUME NEW now \in 1..LongMax, NEW ttlMillis \in Settings
  PROVE  /\ Expiration(now, ttlMillis) \in Longs \cup {Null}
         /\ ttlMillis # Null /\ ttlMillis >= 0 =>
              LET exp == Expiration(now, ttlMillis) IN
              \/ exp = Null /\ now + ttlMillis > LongMax
              \/ exp \in Nat /\ exp <= now + ttlMillis /\ now + ttlMillis < exp + Second
  <1> DEFINE sum == PlusLong(now, ttlMillis)
  <1>1. CASE ttlMillis # Null /\ ttlMillis >= 0 /\ sum > 0
    <2>1. ttlMillis \in 0..LongMax
      BY <1>1, LongMaxAssumption DEF Settings, Longs
    <2>2. sum \in Nat /\ sum = now + ttlMillis /\ sum <= LongMax
      BY <1>1, <2>1, SumIsExactOrNegative, LongMaxAssumption
    <2>3. Expiration(now, ttlMillis) = InSeconds(sum)
      BY <1>1 DEF Expiration
    <2>4. InSeconds(sum) \in Longs
      BY <2>2, InSecondsBounds, LongMaxAssumption DEF Longs
    <2> QED
      BY <2>2, <2>3, <2>4, InSecondsBounds
  <1>2. CASE ttlMillis # Null /\ ttlMillis >= 0 /\ ~(sum > 0)
    <2>1. ttlMillis \in 0..LongMax
      BY <1>2, LongMaxAssumption DEF Settings, Longs
    <2>2. now + ttlMillis > LongMax
      BY <1>2, <2>1, SumIsExactOrNegative, LongMaxAssumption
    <2> QED
      BY <1>2, <2>2 DEF Expiration
  <1>3. CASE ~(ttlMillis # Null /\ ttlMillis >= 0)
    BY <1>3 DEF Expiration
  <1> QED
    BY <1>1, <1>2, <1>3

(* A token carries the expiry of the moment it was signed. *)
TokenInv ==
  /\ WebTokenTypeOK
  /\ token # Null => token.exp = Expiration(token.issuedAt, token.ttlMillis)

LEMMA TokenInvariant == Spec => []TokenInv
  <1>1. Init => TokenInv
    BY DEF Init, TokenInv, WebTokenTypeOK
  <1>2. TokenInv /\ [Next]_vars => TokenInv'
    <2> SUFFICES ASSUME TokenInv, [Next]_vars
                 PROVE  TokenInv'
      OBVIOUS
    <2>1. CASE CreateToken
      <3>1. Expiration(clock, expiration) \in Longs \cup {Null}
        BY ExpirationAsAsked DEF TokenInv, WebTokenTypeOK
      <3> QED
        BY <2>1, <3>1 DEF CreateToken, TokenInv, WebTokenTypeOK, Tokens
    <2>2. CASE Reload
      BY <2>2 DEF Reload, TokenInv, WebTokenTypeOK
    <2>3. CASE Tick
      BY <2>3, LongMaxAssumption DEF Tick, TokenInv, WebTokenTypeOK
    <2>4. CASE UNCHANGED vars
      BY <2>4 DEF vars, TokenInv, WebTokenTypeOK
    <2> QED
      BY <2>1, <2>2, <2>3, <2>4 DEF Next
  <1> QED
    BY <1>1, <1>2, PTL DEF Spec

-----------------------------------------------------------------------------
(* The clock, the setting and every claim of a token fit into a long
   (WebToken). *)
THEOREM WebTokenTypeCorrect == Spec => []WebTokenTypeOK
  <1>1. TokenInv => WebTokenTypeOK
    BY DEF TokenInv
  <1> QED
    BY <1>1, TokenInvariant, PTL

(* A key lives to the second as long as was asked for, whatever the width of the
   clock: the sum that wraps around is always noticed (createWebToken). *)
THEOREM LifetimeKept == Spec => []LivesAsLongAsAsked
  <1>1. TokenInv => LivesAsLongAsAsked
    <2> SUFFICES ASSUME TokenInv, token # Null, IsLimited
                 PROVE  /\ clock <= End - Second => IsAccepted
                        /\ IsAccepted => clock <= End
      BY DEF LivesAsLongAsAsked
    <2>1. token \in Tokens /\ clock \in 1..LongMax
      BY DEF TokenInv, WebTokenTypeOK
    <2>2. /\ token.issuedAt \in 1..LongMax
          /\ token.ttlMillis \in 0..LongMax
      BY <2>1, LongMaxAssumption DEF Tokens, Settings, Longs, IsLimited
    <2>3. \/ token.exp = Null /\ End > LongMax
          \/ token.exp \in Nat /\ token.exp <= End /\ End < token.exp + Second
      BY <2>1, <2>2, ExpirationAsAsked DEF TokenInv, Tokens, IsLimited, End
    <2>4. End \in Nat
      BY <2>2, LongMaxAssumption DEF End
    <2> QED
      BY <2>1, <2>3, <2>4, LongMaxAssumption, SecondAssumption, NullAssumption
      DEF IsAccepted
  <1> QED
    BY <1>1, TokenInvariant, PTL
=============================================================================
