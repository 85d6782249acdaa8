------------------------------- MODULE Access -------------------------------
(***************************************************************************)
(* common/auth.py: the status with which a deployment answers credentials, *)
(* 200 when they are admitted.  Settings s: local, tenant, jwt and apiKey  *)
(* (whether a secret and a key are configured).  Credentials c: token and  *)
(* key.  A token is what decoding tells of it.                             *)
(***************************************************************************)
EXTENDS Naturals

CONSTANTS NoTenant, NoToken, NoKey

Viewers == {"viewer", "analyst", "admin"}
Analysts == {"analyst", "admin"}
Admins == {"admin"}

(* The library checks signature, algorithm, audience, issuer and expiry;   *)
(* outside local development the claims exp and sub must also be there.    *)
_decode_token(s, token) ==
  /\ token # NoToken
  /\ ~token.forged /\ ~token.expired
  /\ s.local \/ token.complete

(* A tenant claim that is no string, or blank, is no tenant. *)
extract_tenant(token) == token.tenant

get_current_user(s, token) == IF _decode_token(s, token) THEN 200 ELSE 401

require_roles(token, allowed) == IF token.roles \cap allowed # {} THEN 200 ELSE 403

ByToken(s, token, allowed) ==
  IF get_current_user(s, token) # 200 THEN 401
  ELSE IF ~s.local /\ extract_tenant(token) # s.tenant THEN 403
  ELSE require_roles(token, allowed)

ByKey(key) == IF key = NoKey THEN 401 ELSE IF key # "right" THEN 403 ELSE 200

(* Mutant of require_privileged_access: who has no token may use the key. *)
AccessByEither(s, c, allowed) ==
  IF ~s.local /\ s.tenant = NoTenant THEN 503
  ELSE IF s.jwt /\ c.token # NoToken THEN ByToken(s, c.token, allowed)
  ELSE IF s.apiKey THEN ByKey(c.key)
  ELSE IF s.local THEN 200 ELSE 503

(* Outside local development nothing is open: an incomplete configuration  *)
(* refuses everyone.  A token takes precedence over the key.               *)
require_privileged_access(s, c, allowed) ==
  IF ~s.local /\ s.tenant = NoTenant THEN 503
  ELSE IF s.jwt THEN ByToken(s, c.token, allowed)
  ELSE IF s.apiKey THEN ByKey(c.key)
  ELSE IF s.local THEN 200 ELSE 503

require_deployment_access(s, c) ==
  IF s.local THEN 200 ELSE require_privileged_access(s, c, Viewers)
=============================================================================
