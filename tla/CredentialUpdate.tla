---------------------------- MODULE CredentialUpdate ----------------------------
(* The tasks that change a named credential, an external credential or an       *)
(* identity provider in an org. Each reads the whole metadata, merges the       *)
(* parameters it was given into the list it found, writes all of it back, and   *)
(* then, where there are secrets, writes them credential by credential.         *)
EXTENDS Integers, Sequences, SequencesExt

CONSTANTS
  MaxAdminEdits   \* bound on what others change in the org meanwhile

ASSUME CredentialAssumption == MaxAdminEdits \in Nat

VARIABLES
  credPc,      \* where the task is
  credKind,    \* which of the three tasks: "named", "external" or "provider"
  credOptions, \* parameters and then transform_parameters: [regular, transform]
  credEnv,     \* external: the value of the variable "VAR", or "-"
  orgMeta,     \* external: the metadata in the org
  orgSecrets,  \* external: the credentials of the principals in the org
  credRead,    \* history: the metadata the task read
  credMeta,    \* the metadata the task makes
  credNext,    \* the option whose credential is next
  credVerb,    \* what the read of that credential called for
  adminEdits

credVars == <<credPc, credKind, credOptions, credEnv, orgMeta, orgSecrets, credRead, credMeta,
              credNext, credVerb, adminEdits>>

\* "-" is a field that is null in the org, and one that an option leaves out; an option
\* that writes null says so. "secret" is the credential an option brings for its principal.
Param(type, name, group, seq, ref, value) ==
  [type |-> type, name |-> name, group |-> group, seq |-> seq, ref |-> ref, value |-> value]
NoParam == Param("-", "-", "-", "-", "-", "-")
Option(params, principal, secret) == [params |-> params, principal |-> principal, secret |-> secret]
Plain(param) == Option(<<param>>, "-", "-")

AuthHeader(seq, v) == Plain(Param("AuthHeader", "h", "DefaultGroup", seq, "-", v))
AuthProvider(r) == Plain(Param("AuthProvider", "AuthProvider", "DefaultGroup", "-", r, "-"))
IdentityProvider(r) ==
  Plain(Param("ExternalAuthIdentityProvider", "ExternalAuthIdentityProvider", "DefaultGroup", "-", r, "-"))
SigningCertificate(r) ==
  Plain(Param("SigningCertificate", "SigningCertificate", "DefaultGroup", "-", r, r))

\* What a principal is given, by its protocol: a client with its secret, or a user with a
\* password; each with the other half, and none of the other protocol's.
Given(protocol, client, user) == [protocol |-> protocol, client |-> client, user |-> user]
validate_auth_fields(g) ==
  /\ g.protocol \in {"OAuth", "OAuth2"} => g.user = <<"-", "-">>
  /\ g.protocol = "Basic" => g.client = <<"-", "-">>
  /\ \A pair \in {g.client, g.user} : (pair[1] = "-") = (pair[2] = "-")

\* The secret that is sent: of any protocol but one, that of the client.
get_credential_parameter(g) == IF g.protocol = "Basic" THEN g.user[2] ELSE g.client[2]

NamedPrincipal(n, g) ==
  Option(<<Param("NamedPrincipal", n, n, "-", "-", "null")>>, n, get_credential_parameter(g))
Nobody == <<"-", "-">>
Url(v) == Plain(Param("Url", "-", "-", "-", "-", v))
ClientCertificate(r) == Plain(Param("ClientCertificate", "ClientCertificate", "-", "-", r, r))
Header(n, v) == Param("HttpHeader", n, "-", "-", "-", v)
TokenUrl(v) == Plain(Param("TokenUrl", "TokenUrl", "-", "-", "-", v))
CustomParameter(n, v) == Plain(Param("CustomParameter", n, "-", "-", "-", v))
ProviderCredential(secret) == Option(<<>>, "n1", secret)

Principals == {"n1", "n2"}
OptionsOf(kind) ==
  CASE kind = "external" ->
         {AuthHeader("-", "VAR"), AuthHeader("2", "a"), AuthProvider("r1"), IdentityProvider("r2"),
          SigningCertificate("c1")}
         \cup {NamedPrincipal("n1", g) : g \in
                 {x \in {Given("OAuth", <<"i", "VAR">>, Nobody), Given("Basic", Nobody, <<"u", "s">>),
                        Given("OAuth", Nobody, <<"u", "s">>), Given("Custom", Nobody, <<"u", "s">>)} :
                    validate_auth_fields(x)}}
         \cup {NamedPrincipal("n2", Given("Basic", Nobody, <<"u", "s">>))}
    [] kind = "named" ->
         {Url("VAR"), Url("u"), ClientCertificate("c1"),
          Option(<<Header("a", "VAR")>>, "-", "-"), Option(<<Header("b", "x"), Header("a", "y")>>, "-", "-")}
    [] kind = "provider" ->
         {TokenUrl("VAR"), TokenUrl("t"), CustomParameter("x", "1"), CustomParameter("y", "2"),
          ProviderCredential("VAR"), ProviderCredential("s"), ProviderCredential("-")}

InOrg(options) == [i \in DOMAIN options |-> options[i].params[1]]
Metas(kind) ==
  LET lists == CASE kind = "external" ->
                      {<<>>, InOrg(<<AuthHeader("2", "old"), AuthProvider("r0")>>),
                       InOrg(<<IdentityProvider("r0"), AuthHeader("-", "old"), SigningCertificate("c0")>>)}
                 [] kind = "named" ->
                      {<<>>, <<Header("a", "old")>> \o InOrg(<<Url("old"), ClientCertificate("c0")>>)}
                 [] kind = "provider" ->
                      {<<>>, InOrg(<<CustomParameter("x", "old"), TokenUrl("old")>>)}
  IN  {m \in [params : lists, secured : BOOLEAN, listed : BOOLEAN, merge : {FALSE}] :
         (m.listed \/ m.params = <<>>) /\ (m.secured \/ kind = "named")}

Values == {"-", "null", "s", "env", "other", "VAR"}

CredentialTypeOK ==
  /\ credPc \in {"id", "object", "merge", "patch", "read", "write", "done", "failed"}
  /\ credKind \in {"named", "external", "provider"} /\ credEnv \in {"-", "env"}
  /\ credNext \in 1..(Len(credOptions.regular) + Len(credOptions.transform) + 1)
  /\ credVerb \in {"-", "PUT", "POST"} /\ adminEdits \in 0..MaxAdminEdits
  /\ orgSecrets \in [Principals -> Values]
  /\ \A i \in DOMAIN orgMeta.params : DOMAIN orgMeta.params[i] = DOMAIN NoParam

Upto(S, n) == UNION {[1..k -> S] : k \in 0..n}

NamesVar(o) == o.secret = "VAR" \/ \E i \in DOMAIN o.params : o.params[i].value = "VAR"

CredInitOf(kinds) ==
  /\ credKind \in kinds /\ credPc = "id"
  /\ \E given \in Upto(OptionsOf(credKind), 2), transforms \in Upto(OptionsOf(credKind), 1) :
        /\ Len(given) + Len(transforms) \in 1..2
        /\ credOptions = [regular |-> given, transform |-> transforms,
                          body |-> IF credKind = "named" THEN "true" ELSE "-"]
        /\ credEnv \in IF \E o \in ToSet(given) \cup ToSet(transforms) : NamesVar(o) THEN {"-", "env"} ELSE {"-"}
  /\ orgMeta \in Metas(credKind) /\ orgSecrets = [p \in Principals |-> "-"]
  /\ credRead = orgMeta /\ credMeta = orgMeta /\ credNext = 1 /\ credVerb = "-" /\ adminEdits = 0

-----------------------------------------------------------------------------
(* What an option asks for.                                                    *)

\* os.getenv: of two tasks without a default, of the third with the name itself.
getenv(kind, v) ==
  IF v \in {"-", "null"} THEN v
  ELSE IF v = "VAR" /\ credEnv # "-" THEN credEnv
  ELSE IF kind = "provider" THEN v ELSE "null"

\* A header has the value of the first of its name in the list.
get_parameter_to_update(params) ==
  [i \in DOMAIN params |->
     [params[i] EXCEPT !.value = params[SelectInSeq(params, LAMBDA p : p.name = params[i].name)].value]]

\* A transform of a named credential refers to what the variable names; the others keep
\* what they refer to and lose the value.
Transformed(kind, o) ==
  [o EXCEPT !.params = [i \in DOMAIN o.params |->
       LET v == getenv(kind, o.params[i].value)
       IN  [o.params[i] EXCEPT !.value = v,
                               !.ref = IF kind = "named" /\ o.params[i].ref # "-" THEN v ELSE @]],
     !.secret = getenv(kind, @)]

Asked ==
  LET of(o) == IF credKind = "named" THEN [o EXCEPT !.params = get_parameter_to_update(@)] ELSE o
  IN  [i \in DOMAIN credOptions.regular |-> of(credOptions.regular[i])]
      \o [i \in DOMAIN credOptions.transform |-> Transformed(credKind, of(credOptions.transform[i]))]

\* A mutant: parameters are known by their type alone.
MatchFieldsTypeOnly(kind) == {"type"}
\* The fields by which a parameter that is there is known.
MatchFields(kind) ==
  CASE kind = "external" -> {"type", "name", "group", "seq", "ref"}
    [] kind = "named" -> {"type", "name", "seq"}
    [] kind = "provider" -> {"type", "seq"}

Matches(kind, want, p) == \A f \in MatchFields(kind) : want[f] \in {"-", p[f]}

Updated(p, want) ==
  [f \in DOMAIN p |-> CASE want[f] = "-" -> p[f] [] want[f] = "null" -> "-" [] OTHER -> want[f]]

\* The template of a new parameter: the first URL of a named credential, without its value.
Template(kind, params) ==
  LET urls == SelectSeq(params, LAMBDA p : p.type = "Url")
  IN  IF kind = "named" /\ urls # <<>>
      THEN [Head(urls) EXCEPT !.name = "-", !.type = "-", !.value = "-", !.seq = "-"]
      ELSE NoParam

\* A mutant: nothing is removed.
_remove_conflicting_parametersNothing(params, type) == params
_remove_conflicting_parameters(params, type) == SelectSeq(params, LAMBDA p : p.type # type)

Exclusive == [AuthProvider |-> "ExternalAuthIdentityProvider",
              ExternalAuthIdentityProvider |-> "AuthProvider"]

\* One parameter merged: those of its own kind are removed first if only one may be, the
\* first match is updated or a new one added, and the kind it excludes goes.
_update_parameter(kind, template, params, want) ==
  LET exclusive == kind = "external" /\ want.type \in DOMAIN Exclusive
      left == IF exclusive THEN _remove_conflicting_parameters(params, want.type) ELSE params
      at == SelectInSeq(left, LAMBDA p : Matches(kind, want, p))
      with == IF at = 0 THEN Append(left, Updated(template, want))
              ELSE [left EXCEPT ![at] = Updated(@, want)]
  IN  IF exclusive THEN _remove_conflicting_parameters(with, Exclusive[want.type]) ELSE with

Merged(kind, params, wants) ==
  LET template == Template(kind, params)
  IN  FoldLeft(LAMBDA l, w : _update_parameter(kind, template, l, w), params, wants)

Wants == FlattenSeq([i \in DOMAIN Asked |-> Asked[i].params])

-----------------------------------------------------------------------------
(* The task.                                                                   *)

Fails(pc) == credPc = pc /\ credPc' = "failed" /\
  UNCHANGED <<credKind, credOptions, credEnv, orgMeta, orgSecrets, credRead, credMeta, credNext,
              credVerb, adminEdits>>

GetsId(kind) ==
  /\ credKind = kind
  /\ \/ Fails("id")
     \/ /\ credPc = "id" /\ credPc' = "object"
        /\ UNCHANGED <<credKind, credOptions, credEnv, orgMeta, orgSecrets, credRead, credMeta, credNext,
                       credVerb, adminEdits>>

GetsObject(kind) ==
  /\ credKind = kind
  /\ \/ Fails("object")
     \/ /\ credPc = "object"
        /\ credPc' = IF kind = "named" /\ ~orgMeta.secured THEN "failed" ELSE "merge"
        /\ credRead' = orgMeta /\ credMeta' = orgMeta
        /\ UNCHANGED <<credKind, credOptions, credEnv, orgMeta, orgSecrets, credNext, credVerb, adminEdits>>

_get_external_credential_id == GetsId("external")
_get_named_credential_id == GetsId("named")
_get_external_auth_identity_provider_id == GetsId("provider")
_get_external_credential_object == GetsObject("external")
\* A named credential that is not a secured endpoint is left alone.
_get_named_credential_object == GetsObject("named")
_get_external_auth_identity_provider_object == GetsObject("provider")

Merges(kind, list) ==
  /\ credKind = kind /\ credPc = "merge" /\ credPc' = "patch"
  /\ credMeta' = [credMeta EXCEPT !.params = list, !.listed = @ \/ list # <<>>,
                                  !.merge = @ \/ credOptions.body = "true"]
  /\ UNCHANGED <<credKind, credOptions, credEnv, orgMeta, orgSecrets, credRead, credNext, credVerb,
                 adminEdits>>

_update_external_credential_parameters == Merges("external", Merged("external", credMeta.params, Wants))

\* Callout options are set when they are true. A named credential without the key of its
\* parameters cannot take a new one; the others get a list.
_update_named_credential_parameters ==
  LET list == Merged("named", credMeta.params, Wants)
  IN  IF ~credMeta.listed /\ list # <<>> THEN credKind = "named" /\ Fails("merge") ELSE Merges("named", list)

_update_external_auth_identity_provider_parameters ==
  Merges("provider", Merged("provider", credMeta.params, Wants))

Patches(kind, next) ==
  /\ credKind = kind
  /\ \/ Fails("patch")
     \/ /\ credPc = "patch" /\ orgMeta' = credMeta /\ credPc' = next
        /\ UNCHANGED <<credKind, credOptions, credEnv, orgSecrets, credRead, credMeta, credNext, credVerb,
                       adminEdits>>

_update_external_credential_object == Patches("external", "read")
_update_named_credential_object == Patches("named", "done")
_update_external_auth_identity_provider_object == Patches("provider", "read")

\* The options that bring a credential: it was given before it was looked up.
HasCredential(i) ==
  LET given == credOptions.regular \o credOptions.transform
  IN  i \in DOMAIN given /\ given[i].secret # "-"

\* Options without a credential are passed over; with none left the task is done.
_skip_option ==
  /\ credPc = "read" /\ ~HasCredential(credNext)
  /\ IF credNext > Len(Asked) THEN credPc' = "done" /\ UNCHANGED credNext
     ELSE credNext' = credNext + 1 /\ UNCHANGED credPc
  /\ UNCHANGED <<credKind, credOptions, credEnv, orgMeta, orgSecrets, credRead, credMeta, credVerb,
                 adminEdits>>

\* The credential is read to see whether there is one.
_read_credential ==
  \/ HasCredential(credNext) /\ Fails("read")
  \/ /\ credPc = "read" /\ HasCredential(credNext)
     /\ credPc' = "write"
     /\ credVerb' = IF orgSecrets[Asked[credNext].principal] = "-" THEN "POST" ELSE "PUT"
     /\ UNCHANGED <<credKind, credOptions, credEnv, orgMeta, orgSecrets, credRead, credMeta, credNext,
                    adminEdits>>

\* External: a credential that is there is not created again, and one that is not is not
\* replaced.
Writes(kind, next) ==
  /\ credKind = kind
  /\ \/ Fails("write")
     \/ /\ credPc = "write" /\ credPc' = next /\ credNext' = credNext + 1
        /\ LET p == Asked[credNext].principal
           IN  /\ credVerb = (IF orgSecrets[p] = "-" THEN "POST" ELSE "PUT")
               /\ orgSecrets' = [orgSecrets EXCEPT ![p] = Asked[credNext].secret]
        /\ UNCHANGED <<credKind, credOptions, credEnv, orgMeta, credRead, credMeta, credVerb, adminEdits>>

_update_external_credential == Writes("external", "read")
\* The credential of an identity provider is written once: the task returns.
_update_provider_credential == Writes("provider", "done")

\* Somebody edits the parameters in the org, or creates a credential there.
AdminEdits ==
  /\ adminEdits < MaxAdminEdits /\ adminEdits' = adminEdits + 1
  /\ credPc \notin {"done", "failed"}
  /\ \/ /\ orgMeta' = [orgMeta EXCEPT !.params = Append(@, [NoParam EXCEPT !.type = "Admin"]), !.listed = TRUE]
        /\ UNCHANGED orgSecrets
     \/ /\ \E p \in Principals :
             orgSecrets[p] = "-" /\ orgSecrets' = [orgSecrets EXCEPT ![p] = "other"]
        /\ UNCHANGED orgMeta
  /\ UNCHANGED <<credPc, credKind, credOptions, credEnv, credRead, credMeta, credNext, credVerb>>

CredNext ==
  \/ _get_external_credential_id \/ _get_named_credential_id \/ _get_external_auth_identity_provider_id
  \/ _get_external_credential_object \/ _get_named_credential_object
  \/ _get_external_auth_identity_provider_object
  \/ _update_external_credential_parameters \/ _update_named_credential_parameters
  \/ _update_external_auth_identity_provider_parameters
  \/ _update_external_credential_object \/ _update_named_credential_object
  \/ _update_external_auth_identity_provider_object
  \/ _skip_option \/ _read_credential \/ _update_external_credential \/ _update_provider_credential
  \/ AdminEdits

CredInit == CredInitOf({"named", "external", "provider"})
CredSpec == CredInit /\ [][CredNext]_credVars

-----------------------------------------------------------------------------
(* Properties.                                                                 *)

\* What a later option says again.
SameParam(kind, a, b) ==
  /\ a.type = b.type
  /\ (a.name = b.name \/ a.type \in DOMAIN Exclusive \/ kind = "provider")
\* The options that nothing later replaces or excludes.
Lasting(wants) ==
  {i \in DOMAIN wants : \A j \in (i+1)..Len(wants) :
      /\ ~SameParam(credKind, wants[i], wants[j])
      /\ ~(credKind = "external" /\ wants[i].type \in DOMAIN Exclusive
             /\ wants[j].type = Exclusive[wants[i].type])}

\* What is written back has every parameter as the last option for it asks, transforms
\* after the others: found among what was there, updated or added, over two lists.
WrittenAsAsked ==
  credPc \in {"patch", "read", "write", "done"} =>
    LET wants == Wants IN
    \A i \in Lasting(wants) : \E p \in ToSet(credMeta.params) :
       \A f \in DOMAIN p :
          wants[i][f] = "-" \/ p[f] = wants[i][f] \/ (wants[i][f] = "null" /\ p[f] = "-")

\* A parameter that no option is about is written back as it was read, unless it is the
\* provider that the option's provider excludes.
OthersAreKept ==
  credPc \in {"patch", "read", "write", "done"} =>
    LET wants == Wants IN
    \A p \in ToSet(credRead.params) :
       \/ p \in ToSet(credMeta.params)
       \/ \E i \in DOMAIN wants :
            SameParam(credKind, p, wants[i])
              \/ (p.type \in DOMAIN Exclusive /\ wants[i].type = Exclusive[p.type])

\* An external credential that is given a provider is left with one provider, of one kind.
OneProvider ==
  credKind = "external" /\ credPc \in {"patch", "read", "write", "done"}
    /\ (\E w \in ToSet(Wants) : w.type \in DOMAIN Exclusive) =>
    Len(SelectSeq(credMeta.params, LAMBDA p : p.type \in DOMAIN Exclusive)) = 1

\* A task that is done has left in the org the last credential given for each principal of
\* an external credential, and of an identity provider the first.
CredentialsAreThere ==
  credPc = "done" /\ credKind # "named" =>
    LET asked == Asked IN
    \A i \in DOMAIN asked :
       HasCredential(i)
         /\ (\A j \in DOMAIN asked \ {i} : HasCredential(j) /\ asked[j].principal = asked[i].principal
               => IF credKind = "provider" THEN j > i ELSE j < i)
       => orgSecrets[asked[i].principal] = asked[i].secret

\* A task that fails before it writes leaves the org as others made it; one that fails later
\* has changed the parameters and no credential it has not come to.
FailedWroteNothingMore ==
  credPc = "failed" =>
    LET asked == Asked IN
    \A i \in DOMAIN asked :
       i >= credNext /\ HasCredential(i)
         /\ (\A j \in 1..(credNext-1) : HasCredential(j) => asked[j].principal # asked[i].principal)
       => orgSecrets[asked[i].principal] \in {"-", "other"}

\* The comment before the last line of update_external_auth_identity_provider.py: "Return
\* True if no credentials to update or all updates succeeded". It ends after the first.
AllUpdatesSucceeded ==
  credPc = "done" /\ credKind = "provider" =>
    LET asked == Asked IN
    \A i \in DOMAIN asked :
       HasCredential(i) /\ (\A j \in (i+1)..Len(asked) : ~HasCredential(j))
         => orgSecrets[asked[i].principal] = asked[i].secret

\* What somebody added while the task worked is there afterwards. The task writes back the
\* whole list it read.
AdminEditsStay ==
  credPc = "done" /\ adminEdits > 0 /\ (\A p \in Principals : orgSecrets[p] # "other") =>
    \E i \in DOMAIN orgMeta.params : orgMeta.params[i].type = "Admin"

\* An external credential has one signing certificate. One that is changed is another
\* parameter, for the certificate is among the fields compared.
OneCertificate ==
  credPc = "done" =>
    Len(SelectSeq(credMeta.params, LAMBDA p : p.type = "SigningCertificate")) <= 1

CredentialsAreSound ==
  /\ WrittenAsAsked /\ OthersAreKept /\ OneProvider /\ CredentialsAreThere /\ FailedWroteNothingMore
=============================================================================
