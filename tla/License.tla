------------------------------ MODULE License ------------------------------
(* Offline license tokens (internal/license): what a token is worth at a     *)
(* given time, and which features it opens.                                  *)
EXTENDS Integers

CONSTANTS VendorKeys,    \* the keys compiled into the binary
          Grace          \* how long a license works after it expired

ASSUME LicenseAssumption == Grace \in Nat

FeatureMultiWorker == "multi-worker"

(* A token as Verify takes it apart.  `sound` is FALSE when it cannot be      *)
(* split, decoded or parsed; `expires` is 0 when it has no expiry date.       *)
Token(sound, signer, product, edition, features, expires) ==
    [sound |-> sound, signer |-> signer, product |-> product,
     edition |-> edition, features |-> features, expires |-> expires]

(* What the environment holds: no token, a file that cannot be read, a token. *)
Unset == [kind |-> "unset"]
Unreadable == [kind |-> "unreadable"]
Holding(token) == [kind |-> "token", token |-> token]

(* The checks of Verify, in its order. *)
Verify(token) ==
    /\ token.sound
    /\ token.signer \in VendorKeys
    /\ token.product = "harbour"
    /\ token.edition = "enterprise"

(* Mutant of Resolve: the grace period is looked at after the expiry. *)
ResolveGraceLost(token, now) ==
    IF token.expires # 0 /\ now > token.expires THEN "expired" ELSE "valid"

(* resolve: both limits are still inside. *)
Resolve(token, now) ==
    CASE token.expires # 0 /\ now > token.expires + Grace -> "expired"
      [] token.expires # 0 /\ now > token.expires /\ now <= token.expires + Grace
            -> "grace"
      [] OTHER -> "valid"

(* load: anything that is not a verified token counts as no license. *)
Load(source, now) ==
    IF source.kind = "token" /\ Verify(source.token)
    THEN Resolve(source.token, now) ELSE "none"

(* License.HasFeature and Status.HasFeature. *)
Grants(token, feature) ==
    \/ feature \in token.features
    \/ token.edition = "enterprise" /\ feature = FeatureMultiWorker

HasFeature(source, state, feature) ==
    state \in {"valid", "grace"} /\ Grants(source.token, feature)

-----------------------------------------------------------------------------
(* README.md:218-232, read as a definition: a harbour enterprise license of   *)
(* the vendor's opens scale-out up to the end of its grace period.            *)
Licensed(source, at) ==
    /\ source.kind = "token"
    /\ LET t == source.token IN
       /\ t.sound /\ t.signer \in VendorKeys
       /\ t.product = "harbour" /\ t.edition = "enterprise"
       /\ t.expires = 0 \/ at - t.expires <= Grace
=============================================================================
