-------------------------------- MODULE Auth --------------------------------
(***************************************************************************)
(* Access tokens: JWTManager of pkg/jwt/jwt.go, and AuthMiddleware of      *)
(* transport/middleware/auth.go, which every request to the API passes.    *)
(*                                                                         *)
(* A token is what there is to know of it: whether the service's secret    *)
(* signed it (with an HMAC), whether its time is over, and its claims, a   *)
(* record.  A claim that should name a user names one of its users, or is  *)
(* no ULID at all.                                                         *)
(***************************************************************************)
EXTENDS ErrorHandler

NotULID == "not a ULID"

(* The token of a user, good from now on until it is stale.                *)
NewAccessToken(u) ==
    [signed |-> TRUE, stale |-> FALSE, claims |-> [user_id |-> u]]

(* The errors of VerifyAccessToken, jwt's and ulid's; "" is none.          *)
VerifyError(token) ==
    IF ~token.signed THEN "jwt.ErrTokenSignatureInvalid"
    ELSE IF token.stale THEN "jwt.ErrTokenExpired"
    ELSE IF "sub" \notin DOMAIN token.claims THEN "jwt.ErrTokenMalformed"
    ELSE IF token.claims.sub = NotULID THEN "ulid.ErrDataSize"
    ELSE ""

(* The user VerifyAccessToken returns when there is no error.              *)
VerifiedUser(token) == token.claims.sub

(* The errors AuthMiddleware answers with 401.                             *)
TokenErrors == {"domain.ErrInvalidToken", "domain.ErrTokenExpired"}

(* AuthMiddleware: NoError is the call of the handler behind it.           *)
AuthMiddleware(bearer, token) ==
    LET err == VerifyError(token)
    IN  IF ~bearer \/ err \in TokenErrors THEN AppError(401, "INVALID_REQUEST")
        ELSE IF err # "" THEN AppError(500, "INTERNAL_ERROR")
        ELSE NoError
=============================================================================
