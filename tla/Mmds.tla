-------------------------------- MODULE Mmds -------------------------------
(***************************************************************************)
(* The microVM metadata service (mmds/src): the JSON data store the API    *)
(* fills, the guest's HTTP requests on it and the session tokens of        *)
(* version 2.  A JSON value is null, a string, another leaf ("other": a    *)
(* number, a Boolean or an array) or an object.  A URI is a sequence of    *)
(* "/" and keys.  Encryption is external: a token can be read with the key *)
(* and the additional data it was made with, and with no others.           *)
(***************************************************************************)
EXTENDS Naturals, Sequences, FiniteSets, FiniteSetsExt

CONSTANTS
    Puts, Patches,       \* the documents the API sends
    Uris,                \* the paths the guest asks for
    DataStoreLimit,
    MaxCount,            \* u32::MAX, the tokens one key may encrypt
    MinTtl, MaxTtl, Ttls, MsPerSecond,
    MaxTime, MaxIssued, MaxKeys  \* bounds on the clock, the tokens and the keys of restores

VARIABLES
    data_store, is_initialized,
    authority,           \* NoAuthority for version 1
    clock, issued,       \* monotonic time; every token handed to the guest
    response             \* the last guest request: method, token, status of the answer
mvars == <<data_store, is_initialized, authority, clock, issued, response>>

Null == [k |-> "null"]
Obj(m) == [k |-> "obj", m |-> m]
is_object(v) == v.k = "obj"

-----------------------------------------------------------------------------
(* JSON Merge Patch.                                                       *)

Entry(doc, key) == IF key \in DOMAIN doc THEN doc[key] ELSE Null

RECURSIVE json_patch(_, _)

json_patch(target, patch) ==
    IF ~is_object(patch) THEN patch
    ELSE LET doc == IF is_object(target) THEN target.m ELSE << >>
             gone == {key \in DOMAIN patch.m : patch.m[key] = Null}
         IN  Obj([key \in (DOMAIN doc \cup DOMAIN patch.m) \ gone |->
                    IF key \in DOMAIN patch.m THEN json_patch(Entry(doc, key), patch.m[key])
                    ELSE doc[key]])

\* The length of a serialised document, reduced to its keys and values.
RECURSIVE Size(_)
Size(v) == IF is_object(v) THEN 1 + MapThenSumSet(LAMBDA key : 1 + Size(v.m[key]), DOMAIN v.m)
           ELSE 1

-----------------------------------------------------------------------------
(* Paths.                                                                  *)

\* uri.replace("//", "/"): pairs, left to right.
RECURSIVE replace(_)
replace(uri) ==
    IF Len(uri) < 2 THEN uri
    ELSE IF uri[1] = "/" /\ uri[2] = "/" THEN <<"/">> \o replace(SubSeq(uri, 3, Len(uri)))
         ELSE <<uri[1]>> \o replace(Tail(uri))

\* The loop: until a pass shortens nothing.
RECURSIVE sanitize_uri(_)
sanitize_uri(uri) == IF Len(replace(uri)) < Len(uri) THEN sanitize_uri(replace(uri)) ELSE uri

\* serde_json's Value::pointer, external: the value at /k1/k2.., or none.
RECURSIVE pointer(_, _)
pointer(v, path) ==
    IF path = <<>> THEN {v}
    ELSE IF Len(path) >= 2 /\ is_object(v) /\ path[2] \in DOMAIN v.m
         THEN pointer(v.m[path[2]], SubSeq(path, 3, Len(path))) ELSE {}

Ok(body) == [status |-> "OK", body |-> body]
Err(status) == [status |-> status, body |-> Null]

\* For an object the IMDS format lists the keys, those of objects marked.
format_imds(v) ==
    CASE is_object(v) -> Ok(Obj([key \in DOMAIN v.m |-> IF is_object(v.m[key]) THEN Obj(<< >>) ELSE Null]))
      [] v.k = "str"  -> Ok(v)
      [] OTHER        -> Err("NotImplemented")

get_value(path, format) ==
    LET strict == IF path # <<>> /\ path[Len(path)] = "/" THEN SubSeq(path, 1, Len(path) - 1) ELSE path
        found == pointer(data_store, strict)
    IN  IF found = {} THEN Err("NotFound")
        ELSE LET v == CHOOSE u \in found : TRUE
             IN  IF format = "Json" THEN Ok(v) ELSE format_imds(v)

-----------------------------------------------------------------------------
(* The token authority.                                                    *)

NoAuthority == <<>>
\* cipher is the number of the key: every key is fresh.
new_authority(key) == [cipher |-> key, num_encrypted_tokens |-> 0, aad |-> ""]

check_ttl(ttl) == ttl \in MinTtl..MaxTtl
compute_expiry(ttl) == clock + ttl * MsPerSecond
KeysUsed == {t.cipher : t \in issued} \cup (IF authority = NoAuthority THEN {} ELSE {authority.cipher})
FreshKey == 1 + Max(KeysUsed \cup {0})

\* check_encryption_count: a full key is replaced, whatever becomes of the request.
check_encryption_count ==
    IF authority.num_encrypted_tokens = MaxCount
    THEN [authority EXCEPT !.cipher = FreshKey, !.num_encrypted_tokens = 0]
    ELSE authority

decrypts(token) == token.cipher = authority.cipher /\ token.aad = authority.aad
\* Mutant: any token of the current key will do.
is_readable(token) == decrypts(token)
is_valid(token) == decrypts(token) /\ token.expiry > clock

-----------------------------------------------------------------------------
(* Requests.                                                               *)

version == IF authority = NoAuthority THEN "V1" ELSE "V2"
PATH_TO_TOKEN == <<"/", "latest", "/", "api", "/", "token">>

Answer(req, r) == response' = [method |-> req.method, token |-> req.token, status |-> r.status]

respond_to_get_request_unchecked(req) == get_value(sanitize_uri(req.uri), req.accept)

respond_to_get_request_checked(req) ==
    IF req.token = {} THEN Err("Unauthorized")
    ELSE IF \E t \in req.token : is_valid(t) THEN respond_to_get_request_unchecked(req)
         ELSE Err("Unauthorized")

\* generate_token_secret, and respond_to_put_request around it.
Token(auth, ttl) == [cipher |-> auth.cipher, aad |-> auth.aad, expiry |-> compute_expiry(ttl),
                     n |-> auth.num_encrypted_tokens + 1]
respond_to_put_request(req) ==
    CASE req.forwarded -> Answer(req, Err("BadRequest")) /\ UNCHANGED <<authority, issued>>
      [] ~req.forwarded /\ sanitize_uri(req.uri) # PATH_TO_TOKEN ->
           Answer(req, Err("NotFound")) /\ UNCHANGED <<authority, issued>>
      [] ~req.forwarded /\ sanitize_uri(req.uri) = PATH_TO_TOKEN /\ req.ttl = {} ->
           Answer(req, Err("BadRequest")) /\ UNCHANGED <<authority, issued>>
      [] OTHER ->
           LET auth == check_encryption_count
               ttl == CHOOSE t \in req.ttl : TRUE
           IN  IF check_ttl(ttl)
               THEN /\ authority' = [auth EXCEPT !.num_encrypted_tokens = @ + 1]
                    /\ issued' = issued \cup {Token(auth, ttl)}
                    /\ Answer(req, Ok(Null))
               ELSE authority' = auth /\ UNCHANGED issued /\ Answer(req, Err("BadRequest"))

\* The requests of the guest; parses says whether the ttl header is a number.
Request ==
    [method : {"Get"}, uri : Uris, accept : {"Json", "Imds"}, parses : BOOLEAN,
     token : {{}} \cup {{t} : t \in issued}, ttl : {{}}, forwarded : {FALSE}]
    \cup [method : {"Put"}, uri : Uris, accept : {"Json"}, parses : BOOLEAN, token : {{}},
          ttl : {{}} \cup {{t} : t \in Ttls}, forwarded : BOOLEAN]
    \cup [method : {"Patch"}, uri : Uris, accept : {"Json"}, parses : {TRUE}, token : {{}}, ttl : {{}},
          forwarded : {FALSE}]

\* convert_to_response.
GuestRequest ==
    \E req \in Request :
      /\ Cardinality(issued) < MaxIssued \/ req.method # "Put"
      /\ UNCHANGED <<data_store, is_initialized, clock>>
      /\ CASE version = "V1" ->
                /\ Answer(req, IF req.method = "Get" THEN respond_to_get_request_unchecked(req)
                               ELSE Err("MethodNotAllowed"))
                /\ UNCHANGED <<authority, issued>>
           [] version = "V2" /\ ~req.parses ->
                Answer(req, Err("BadRequest")) /\ UNCHANGED <<authority, issued>>
           [] version = "V2" /\ req.parses /\ req.method = "Get" ->
                Answer(req, respond_to_get_request_checked(req)) /\ UNCHANGED <<authority, issued>>
           [] version = "V2" /\ req.parses /\ req.method = "Put" -> respond_to_put_request(req)
           [] OTHER -> Answer(req, Err("MethodNotAllowed")) /\ UNCHANGED <<authority, issued>>

-----------------------------------------------------------------------------
(* The API and the configuration.                                          *)

fits(v) == Size(v) <= DataStoreLimit
Quiet == response' = << >>

put_data ==
    \E data \in Puts :
      /\ IF fits(data) THEN data_store' = data /\ is_initialized' = TRUE
         ELSE UNCHANGED <<data_store, is_initialized>>
      /\ Quiet /\ UNCHANGED <<authority, clock, issued>>

patched_fits(old, patch) == fits(json_patch(old, patch))

patch_data ==
    \E patch \in Patches :
      /\ is_initialized
      /\ data_store' = IF patched_fits(data_store, patch) THEN json_patch(data_store, patch) ELSE data_store
      /\ Quiet /\ UNCHANGED <<is_initialized, authority, clock, issued>>

\* set_version then set_aad, before the guest starts.
Configure ==
    /\ issued = {}
    /\ \/ authority' = NoAuthority
       \/ authority' = [(IF authority = NoAuthority THEN new_authority(FreshKey) ELSE authority)
                          EXCEPT !.aad = "microvmid"]
    /\ Quiet /\ UNCHANGED <<data_store, is_initialized, clock, issued>>

\* A microVM, this one or a clone with another id, starts from a snapshot: the
\* restore of the devices calls set_mmds_version on an empty store, so only the
\* version is kept, while the guest still holds its tokens.
Restore ==
    /\ \E instance_id \in {"microvmid", "cloneid"} :
         authority' = IF authority = NoAuthority THEN NoAuthority
                      ELSE [new_authority(FreshKey) EXCEPT !.aad = instance_id]
    /\ authority # NoAuthority => FreshKey <= MaxKeys
    /\ data_store' = Null /\ is_initialized' = FALSE
    /\ Quiet /\ UNCHANGED <<clock, issued>>

Tick == clock < MaxTime /\ clock' = clock + 1 /\ Quiet /\ UNCHANGED <<data_store, is_initialized, authority, issued>>

MmdsInit ==
    /\ data_store = Null /\ is_initialized = FALSE /\ authority = NoAuthority
    /\ clock = 0 /\ issued = {} /\ response = << >>
MmdsNext == GuestRequest \/ put_data \/ patch_data \/ Configure \/ Restore \/ Tick
MmdsSpec == MmdsInit /\ [][MmdsNext]_mvars

-----------------------------------------------------------------------------
(* Properties.                                                             *)

\* Types of the data store, the tokens and the clock.
MmdsTypeOK ==
    /\ data_store.k \in {"null", "str", "other", "obj"} /\ is_initialized \in BOOLEAN
    /\ clock \in 0..MaxTime
    /\ authority # NoAuthority => authority.num_encrypted_tokens \in 0..MaxCount

\* With version 2 the guest reads metadata only with a token of the authority
\* now in force, made by this microVM and not past its lifetime, and such a
\* token is never refused (respond_to_get_request_checked, is_valid).
TokensGuardReads ==
    response # << >> /\ version = "V2" /\ response.method = "Get" /\ response.status # "BadRequest" =>
        ((response.status # "Unauthorized") <=>
            \E t \in response.token :
               t.cipher = authority.cipher /\ t.aad = authority.aad /\ clock < t.expiry)

=============================================================================
