---------------------------- MODULE ErrorHandler ----------------------------
(***************************************************************************)
(* Errors of an HTTP request and the answers CustomHTTPErrorHandler of     *)
(* error_handler.go makes of them.  An error is an AppError, one of echo's *)
(* HTTPErrors, or any other; messages are left out.                        *)
(***************************************************************************)
EXTENDS Naturals, Sequences

ErrorOf(kind, status, code) == [kind |-> kind, status |-> status, code |-> code]

NoError                == ErrorOf("none", 0, "")
AppError(status, code) == ErrorOf("app", status, code)
HTTPError(status)      == ErrorOf("http", status, "")
OtherError             == ErrorOf("other", 500, "")

(* echo's status codes and the codes of the API.                           *)
CodeOf(status) ==
    CASE status = 400 -> "INVALID_REQUEST"
      [] status = 401 -> "UNAUTHORIZED"
      [] status = 403 -> "FORBIDDEN"
      [] status = 404 -> "NOT_FOUND"
      [] OTHER        -> "INTERNAL_ERROR"

ErrorResponse(err) ==
    [status |-> err.status,
     code   |-> IF err.kind = "app" THEN err.code ELSE CodeOf(err.status)]

\* Variant: the handler does not look at Committed.
AfterErrorAgain(sent, err) == Append(sent, ErrorResponse(err))

(* CustomHTTPErrorHandler: what has been sent for the request once it has  *)
(* been given the error; nothing more, when something was sent before.     *)
AfterError(sent, err) ==
    IF sent # <<>> THEN sent ELSE <<ErrorResponse(err)>>
=============================================================================
