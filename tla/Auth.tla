-------------------------------- MODULE Auth --------------------------------
(***************************************************************************)
(* The authentication middleware as the handlers see it: which identity a  *)
(* request carries.  The identity is a copy of the user record read from   *)
(* the store before the body is read and the handler runs; nothing         *)
(* refreshes it.                                                           *)
(***************************************************************************)
EXTENDS Driver

CONSTANT Anonymous   \* Identity::Anonymous, and the credential of an unsigned request

ASSUME AnonymousAssumption == Anonymous \notin AccessKey \cup UserInfo

Credential == AccessKey \cup {Anonymous}
Identity   == UserInfo \cup {Anonymous}

Denied(code) == [code |-> code, identity |-> Anonymous]
Granted(user) == [code |-> "Ok", identity |-> user]

(***************************************************************************)
(* verify: an unsigned request is anonymous; a signed one is refused when  *)
(* its key is unknown, its user suspended, or its key missing from the     *)
(* record the index led to.  The signature itself is taken to match.       *)
(***************************************************************************)
verify(credential) ==
    IF credential = Anonymous THEN Granted(Anonymous)
    ELSE IF KeyHolders(credential) = {} THEN Denied("InvalidAccessKeyId")
    ELSE LET info == load_user_by_access_key(credential)
         IN  IF info.suspended THEN Denied("UserSuspended")
             ELSE IF credential \notin info.access_keys THEN Denied("InvalidAccessKeyId")
             ELSE Granted(info)

\* Identity::check_cap: the admin flag passes every check.
check_cap(user, cap) == user # Anonymous /\ (user.admin \/ cap \in user.caps)

\* verify_bucket_access: the owner, and system and admin users.
verify_bucket_access(user, bucket) ==
    user # Anonymous /\ (user.system \/ user.admin \/ user.user_id = bucket.owner)

=============================================================================
