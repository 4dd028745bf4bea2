---------------------------- MODULE SecretCommands ----------------------------
(* The secrets of one environment: api/v1/secrets.rs with its projection.     *)
(* The encrypted contents are kept beside the log, in secret_material and     *)
(* secret_versions.                                                           *)
EXTENDS ResourceLog

VARIABLE sversions  \* secret_versions, each with its material

\* A version has the hash of its content, which stands for the content, and its material.
SecretVersion == [bundle : Nat, version : Nat, content : Values,
                  material : [plain : Values, aad : Seq(Nat \cup Values)]]

\* secrets_aad: the owner and the hash of a version are bound to its ciphertext.
SecretsAad(bundle, version, content) == <<bundle, version, content>>

\* secrets.rs, with one master key: the plaintext comes back under the same data only.
Encrypt(plain, aad) == [plain |-> plain, aad |-> aad]
Decrypt(material, aad) == IF material.aad = aad THEN {material.plain} ELSE {}

\* The environment is the key of its bundle.
SecretEnv == CHOOSE k \in Keys : TRUE

\* put_secrets: the environment is live; a bundle of it is looked up in the view.
LoadBundle(c, v) ==
    /\ rreq[c].phase = "idle"
    /\ LiveOf("env") # {}
    /\ IF RowsOf("bundle") # {}
       THEN \E r \in RowsOf("bundle") :
              /\ Proceed(c, "loaded", <<Ev("bundle", "updated", r.id, SecretEnv, 0, v)>>, 0)
              /\ UNCHANGED rraced
       ELSE /\ Proceed(c, "numbered", <<Ev("bundle", "created", 0, SecretEnv, 0, v)>>, 1)
            /\ CheckedInView(c, "bundle", SecretEnv)
    /\ UNCHANGED sversions

\* put_secrets: the number of the event is read from the log.
NumberBundle(c) ==
    /\ rreq[c].phase = "loaded"
    /\ rreq[c].batch[1].table = "bundle"
    /\ rreq' = [rreq EXCEPT ![c].phase = "numbered",
                            ![c].seq = LogSeq(Len(rlog), "bundle", rreq[c].batch[1].id) + 1]
    /\ UNCHANGED <<focus, rlog, rdone, rrows, rworker, rraced, sversions>>

\* secret_bundle.created and version_set, or version_set alone.
VersionSet(e, n) ==
    IF e.kind = "created"
    THEN <<Ev("bundle", "created", n, e.key, 0, None), Ev("bundle", "updated", n, e.key, n, e.attr)>>
    ELSE <<[e EXCEPT !.ref = n]>>

\* idx_secret_versions_bundle_hash: the bundle has had this content before.
HasContent(b, v) == \E s \in sversions : s.bundle = b /\ s.content = v

\* The row of a version, and its material, written in one transaction.
NewVersion(b, n, v) ==
    [bundle |-> b, version |-> n, content |-> v, material |-> Encrypt(v, SecretsAad(b, n, v))]

\* store_secret_material, before the event is appended.
StoreSecretMaterial(c) ==
    /\ rreq[c].phase = "numbered"
    /\ LET e == rreq[c].batch[1]
           n == Cardinality(sversions) + 1
       IN  /\ ~HasContent(e.id, e.attr)
           /\ sversions' = sversions \cup
                {NewVersion(IF e.kind = "created" THEN n ELSE e.id, n, e.attr)}
           /\ rreq' = [rreq EXCEPT ![c].phase = "checked", ![c].batch = VersionSet(e, n)]
    /\ UNCHANGED <<focus, rlog, rdone, rrows, rworker, rraced>>

\* store_secret_material: the INSERT meets the index, 500.
MaterialRefused(c) ==
    /\ rreq[c].phase = "numbered"
    /\ HasContent(rreq[c].batch[1].id, rreq[c].batch[1].attr)
    /\ rreq' = [rreq EXCEPT ![c] = NoRequest]
    /\ UNCHANGED <<focus, rlog, rdone, rrows, rworker, rraced, sversions>>

\* SecretBundlesProjection
BundlesApply(rows, e) ==
    IF e.kind = "created"
    THEN rows \cup {Inserted(e)}
    ELSE {IF r.table = "bundle" /\ r.id = e.id
          THEN [r EXCEPT !.ref = e.ref, !.attr = e.attr, !.version = @ + 1] ELSE r : r \in rows}

\* get_secrets_metadata: the current version of the environment's bundle.
GetSecretsMetadata == {r \in RowsOf("bundle") : r.ref # 0}

\* get_secret_material of api/v1/nodes.rs: what a node gets for a version, if anything.
GetSecretMaterial(n) ==
    UNION {Decrypt(s.material, SecretsAad(s.bundle, s.version, s.content)) :
             s \in {t \in sversions : t.version = n}}

\* NodeAgentService::get_secret_material
GrpcGetSecretMaterial(n) == GetSecretMaterial(n)

SecretsReadBack == GetSecretsMetadata # {}

============================================================================
