-------------------------------- MODULE Jwt --------------------------------
(***************************************************************************)
(* The JSON web tokens minted by TokenService (createJwtAccessToken,       *)
(* createJwtRefreshToken) and the clock they are minted from.              *)
(*                                                                         *)
(* A JWT is a deterministic function of its payload, its secret and the    *)
(* second in which it is signed: the payload carries no nonce, so two      *)
(* tokens of one kind signed for one user in the same second are the same  *)
(* string.  The model keeps exactly that: a token is the record of what    *)
(* tells two token strings apart.                                          *)
(*                                                                         *)
(* Time is a count of ticks.  A tick is the millisecond of Date.now(); the *)
(* instances use a coarser tick, a second being TicksPerSecond of them.    *)
(***************************************************************************)
EXTENDS Integers

CONSTANTS
    Users,             \* the accounts that can sign in
    TicksPerSecond,    \* 1000 in the program
    JwtExpAccess,      \* jwt.jwtExpAccessToken, a bare number
    JwtExpRefresh      \* jwt.jwtExpRefreshToken, a bare number

ASSUME TicksAssumption == TicksPerSecond \in Nat \ {0}
ASSUME ExpAssumption   == JwtExpAccess \in Nat /\ JwtExpRefresh \in Nat

Kinds  == {"access", "refresh"}
Tokens == [kind: Kinds, user: Users, iat: Int]

(* The `iat' claim: jsonwebtoken signs floor(Date.now() / 1000). *)
Second(t) == t \div TicksPerSecond

AccessToken(u, t)  == [kind |-> "access",  user |-> u, iat |-> Second(t)]
RefreshToken(u, t) == [kind |-> "refresh", user |-> u, iat |-> Second(t)]

(* jsonwebtoken reads a numeric expiresIn as SECONDS: exp = iat + expiresIn. *)
ExpiresIn(kind) == IF kind = "access" THEN JwtExpAccess ELSE JwtExpRefresh

(* jwtService.verifyAsync: the secret of the kind, and clock < exp. *)
Verifies(tok, kind, t) ==
    /\ tok.kind = kind
    /\ Second(t) < tok.iat + ExpiresIn(kind)
=============================================================================
