-------------------------------- MODULE Authz -------------------------------
(***************************************************************************)
(* Who may do what: the identity a request is given (security/authn.py and *)
(* _get_auth_context in api/routes.py), the API version it asks for        *)
(* (api/versioning.py), the roles of each endpoint, and the scopes, rules  *)
(* and ownership of security/authz.py, which the endpoints do not call.    *)
(*                                                                         *)
(* A request is a record: what its bearer token decodes to, or None when   *)
(* there is none or it does not decode, its X-User-Id and X-Roles headers, *)
(* and its X-API-Version.  An access is what check_scope is asked: user,   *)
(* scope, roles, tenant, the roles its jwt holds, the granted scopes or    *)
(* None, the tags of the resource and whether there is one.                *)
(***************************************************************************)
EXTENDS Naturals, Sequences

CONSTANTS AuthRequired,   \* settings.auth_required
          Lower,          \* str.lower, on the names that are not in lower case
          None

LowerCase(name) == IF name \in DOMAIN Lower THEN Lower[name] ELSE name

Roles == {"reader", "writer", "admin"}
Versions == {"missing", "unsupported", "deprecated", "current"}
Endpoints == {"query", "docs", "docs_status", "feedback", "metrics"}

(* parse_bearer_token: a token without roles is a reader's.                *)
TokenRoles(token) == IF token.roles = {} THEN {"reader"} ELSE token.roles

(* _get_auth_context: the roles of the token, or those of the headers.     *)
Identified(r) == r.token # None \/ ~AuthRequired \/ r.user # None
RolesOf(r) == CASE r.token # None -> TokenRoles(r.token)
                [] r.token = None /\ r.roles = None -> {"reader"}
                [] OTHER -> r.roles

(* _authorize: the roles each endpoint asks for.                           *)
Required(endpoint) == IF endpoint = "docs" THEN {"writer", "admin"} ELSE Roles

(* The dependencies of an endpoint (401; 400, 426 or 410), then _authorize *)
(* (403): none of them changes anything, so their order is left out.       *)
Admits(endpoint, r) ==
    /\ Identified(r)
    /\ r.version = "current"
    /\ RolesOf(r) \intersect Required(endpoint) # {}

-----------------------------------------------------------------------------
DefaultRoleScopes ==
    [admin |-> {"admin", "write", "read", "delete", "ingest", "public"},
     editor |-> {"write", "read", "ingest", "public"},
     reader |-> {"read", "public"}, public |-> {"public"}]

(* _role_scopes: SHRAG_ROLE_SCOPES is parsed to a mapping, to an empty one *)
(* when it is unset or no JSON, or to something else, None, for which      *)
(* alone the defaults of the module are there.                             *)
RoleScopes(setting) == IF setting = None THEN DefaultRoleScopes ELSE setting

(* _scopes_for_user.                                                       *)
ScopesOfRole(mapping, role) == IF role \in DOMAIN mapping THEN mapping[role] ELSE {}
ScopesForUser(mapping, user, roles) ==
    LET effective == UNION {ScopesOfRole(mapping, role) : role \in roles} IN
    IF user = None THEN {"public"}
    ELSE IF effective # {} THEN effective
    ELSE IF "reader" \in DOMAIN mapping THEN mapping["reader"] ELSE {"read", "public"}

(* The roles check_scope works with: the jwt's when it is given no others. *)
RolesAsked(a) == IF a.roles = {} THEN {LowerCase(role) : role \in a.jwt} ELSE a.roles

(* A rule is an item of SHRAG_ABAC_RULES_JSON, whose effect, scope and     *)
(* roles _load_abac_rules lower-cases.  The conditions of a rule that an   *)
(* access meets: {} asks for nothing, and a tag that is missing is "".     *)
TagOf(a, tag) == IF tag \in DOMAIN a.tags THEN a.tags[tag] ELSE ""
Applies(rule, a) ==
    /\ LowerCase(rule.scope) \in {"*", LowerCase(a.scope)}
    /\ rule.roles # {} =>
          RolesAsked(a) \intersect {LowerCase(role) : role \in rule.roles} # {}
    /\ rule.tenants # {} => a.tenant \in rule.tenants
    /\ \A tag \in DOMAIN rule.tags : TagOf(a, tag) = rule.tags[tag]

Denying(rule)  == LowerCase(rule.effect) = "deny"
Allowing(rule) == LowerCase(rule.effect) = "allow"
Effect(decision, rule) ==
    IF Denying(rule) THEN "denied" ELSE IF Allowing(rule) THEN "allowed" ELSE decision
(* Mutant: the first rule that applies decides.                            *)
FirstDecides(decision, rule, a) ==
    IF decision = "default" /\ Applies(rule, a) THEN Effect(decision, rule) ELSE decision
(* One turn of the loop of _abac_allows: a deny returns, an allow goes on. *)
Decide(decision, rule, a) ==
    IF decision # "denied" /\ Applies(rule, a) THEN Effect(decision, rule) ELSE decision

AbacAllows(rules, a) ==
    LET decision[n \in 0..Len(rules)] ==
          IF n = 0 THEN "default" ELSE Decide(decision[n - 1], rules[n], a)
    IN  decision[Len(rules)] # "denied"

(* check_scope; owner is who _resource_owned_by finds, None when the       *)
(* lookup fails.                                                           *)
CheckScope(setting, rules, a, owner) ==
    LET effective == IF a.granted # None THEN a.granted
                     ELSE ScopesForUser(RoleScopes(setting), a.user, RolesAsked(a)) IN
    /\ a.scope \in effective
    /\ AbacAllows(rules, a)
    /\ (a.resource /\ a.user # None /\ "admin" \notin effective) =>
          owner = a.user \/ a.scope \in {"read", "public"}
=============================================================================
