---------------------------- MODULE ControlPlane ----------------------------
(***************************************************************************)
(* How the control-plane client (client.go, control.go, errors.go) turns   *)
(* the answer to one HTTP request into the error its caller sees.  An      *)
(* answer is its status code and whether its body decodes as the JSON the  *)
(* caller asked for; error texts are abstracted to one name per case a     *)
(* caller can tell apart with errors.Is or by its prefix.                  *)
(***************************************************************************)
EXTENDS Integers

OK                  == "nil"
ErrSandboxNotFound  == "ErrSandboxNotFound"
ErrSandboxDestroyed == "ErrSandboxDestroyed"
ErrNoResource       == "resource not found"
ErrAuthentication   == "authentication failed"
ErrStatus           == "request failed with status"
ErrDecode           == "invalid response body"
ErrTransport        == "request not answered"
ErrContext          == "context done"

(* The status codes the client's decisions tell apart. *)
Statuses == {200, 204, 401, 404, 409, 500}

(* Mutated: the sentinel is used for every failure. *)
normalizeHTTPError_AlwaysNotFound(status, notFoundErr) ==
  IF notFoundErr # OK THEN notFoundErr ELSE ErrStatus

normalizeHTTPError(status, notFoundErr) ==
  IF status = 404 
  THEN IF notFoundErr # OK THEN notFoundErr ELSE ErrNoResource
  ELSE IF status \in {401, 403} THEN ErrAuthentication ELSE ErrStatus

(* The order matters: an allowed status wins over the error class it is in,
   and a body is decoded only when the caller asked for one. *)
doJSONWithResponse(status, decodes, allowedEmptyStatuses, wantsBody, notFoundErr) ==
  IF status \in allowedEmptyStatuses THEN OK
  ELSE IF status >= 300 THEN normalizeHTTPError(status, notFoundErr)
  ELSE IF wantsBody /\ ~decodes THEN ErrDecode ELSE OK

(* Mutated: a template that is not found is taken for a sandbox. *)
createSandbox_Sentinel(status, decodes) == 
  doJSONWithResponse(status, decodes, {}, TRUE, ErrSandboxNotFound)

(* No sentinel: there is no sandbox yet that could be unknown. *)
createSandbox(status, decodes) == doJSONWithResponse(status, decodes, {}, TRUE, OK)

destroySandbox(status) == 
  doJSONWithResponse(status, TRUE, {204}, FALSE, ErrSandboxNotFound)

(* Mutated: the caller forgets to name the sentinel. *)
connectSandbox_NoSentinel(status, decodes) == doJSONWithResponse(status, decodes, {}, TRUE, OK)

connectSandbox(status, decodes) == 
  doJSONWithResponse(status, decodes, {}, TRUE, ErrSandboxNotFound)

(* 409 says the sandbox is paused already: no error, and the boolean result
   of pauseSandbox (not modelled here) is FALSE. *)
pauseSandbox(status) == 
  doJSONWithResponse(status, TRUE, {204, 409}, FALSE, ErrSandboxNotFound)

(* getSandboxInfo, getSandboxMetrics and createSnapshot decode a body;
   setSandboxTimeout does not, and its results are among theirs. *)
querySandbox(status, decodes) == 
  doJSONWithResponse(status, decodes, {}, TRUE, ErrSandboxNotFound)
=============================================================================
