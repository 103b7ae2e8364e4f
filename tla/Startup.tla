------------------------------- MODULE Startup -------------------------------
(***************************************************************************)
(* From the environment to a running provider (main.go): the flags take    *)
(* their values from environment variables, normalizeConfig removes stray  *)
(* whitespace, RunE checks them, dials Xen Orchestra and registers with    *)
(* Omni.  Whatever fails ends the process, and the deployment starts it    *)
(* again (deploy/docker-compose.yml:5).                                    *)
(***************************************************************************)
VARIABLES
  env,      \* the environment variables, which no restart changes
  process   \* "down", or "up" once the provider runs its reconciles

vars == <<env, process>>

(* A value: its text once whitespace is removed, and where it has some.  A *)
(* "wrong" text is one its reader refuses, for a key one that is not       *)
(* base64; a blank value is "empty" with whitespace around it.             *)
Value == [text : {"empty", "right", "wrong"}, space : {"none", "around", "inside"}]
Unset == [text |-> "empty", space |-> "none"]
Right == [text |-> "right", space |-> "none"]
Variables == {"OMNI_ENDPOINT", "OMNI_SERVICE_ACCOUNT_KEY", "XOA_ENDPOINT", "XOA_HOST",
              "XOA_TOKEN", "XOA_USERNAME", "XOA_PASSWORD"}

TrimSpace(v) == IF v.space = "around" THEN [v EXCEPT !.space = "none"] ELSE v
stripWhitespace(v) == [v EXCEPT !.space = "none"]
firstNonEmpty(v, w) == IF v # Unset THEN v ELSE w

(* cfg as cobra leaves it when no flag is given.                           *)
flags(e) ==
  [omniAPIEndpoint |-> e.OMNI_ENDPOINT,
   serviceAccountKey |-> e.OMNI_SERVICE_ACCOUNT_KEY,
   xoaEndpoint |-> firstNonEmpty(e.XOA_ENDPOINT, e.XOA_HOST),
   xoaToken |-> e.XOA_TOKEN,
   xoaUsername |-> e.XOA_USERNAME, xoaPassword |-> e.XOA_PASSWORD]

(* Mutant: the key is trimmed like everything else. *)
TrimsKey(c) ==
  [c EXCEPT !.serviceAccountKey = TrimSpace(@), !.omniAPIEndpoint = TrimSpace(@),
            !.xoaEndpoint = TrimSpace(@), !.xoaToken = TrimSpace(@),
            !.xoaUsername = TrimSpace(@)]

(* The password is left as it is: whitespace may be part of it.            *)
normalizeConfig(c) ==
  [c EXCEPT !.serviceAccountKey = stripWhitespace(@), !.omniAPIEndpoint = TrimSpace(@),
            !.xoaEndpoint = TrimSpace(@), !.xoaToken = TrimSpace(@),
            !.xoaUsername = TrimSpace(@)]

(* The decoder refuses whitespace as it refuses any other stray character. *)
validateServiceAccountKey(k) == k = Unset \/ (k.text # "wrong" /\ k.space = "none")

HasPassword(c) == c.xoaUsername # Unset /\ c.xoaPassword # Unset

(* Mutant: the password is preferred. *)
PasswordFirst(c) ==
  IF HasPassword(c) THEN {c.xoaUsername, c.xoaPassword}
  ELSE {c.xoaToken} \ {Unset}

(* What the provider logs in to Xen Orchestra with.                        *)
Credentials(c) ==
  IF c.xoaToken # Unset THEN {c.xoaToken}
  ELSE IF HasPassword(c) THEN {c.xoaUsername, c.xoaPassword} ELSE {}

(* RunE goes on to dial.                                                   *)
Checked(c) ==
  /\ c.omniAPIEndpoint # Unset /\ c.xoaEndpoint # Unset
  /\ validateServiceAccountKey(c.serviceAccountKey)
  /\ Credentials(c) # {}

(* Xen Orchestra and Omni are reached and let the provider in.  Without a  *)
(* key it depends on Omni, which is assumed to.                            *)
Accepted(c) ==
  /\ {c.omniAPIEndpoint, c.xoaEndpoint} \cup Credentials(c) = {Right}
  /\ c.serviceAccountKey \in {Unset, Right}

Start ==
  /\ process = "down"
  /\ LET c == normalizeConfig(flags(env)) IN Checked(c) /\ Accepted(c)
  /\ process' = "up"
  /\ UNCHANGED env

Stop == process = "up" /\ process' = "down" /\ UNCHANGED env

-----------------------------------------------------------------------------
(* The environment as the documentation reads it.                          *)

(* Stray whitespace is forgiven around a value; in a key, anywhere.        *)
Means(v) == v.text = "right" /\ v.space # "inside"
IsSet(v) == v # Unset

(* "The provider uses Xen Orchestra credentials in this order: XOA_TOKEN,  *)
(* XOA_USERNAME and XOA_PASSWORD.  If a token is set, username/password    *)
(* values are ignored" (configuration.md:29-34).                           *)
LogsIn ==
  IF env.XOA_TOKEN.text # "empty" THEN Means(env.XOA_TOKEN)
  ELSE Means(env.XOA_USERNAME) /\ env.XOA_PASSWORD = Right

Usable ==
  /\ Means(env.OMNI_ENDPOINT) /\ env.OMNI_SERVICE_ACCOUNT_KEY.text # "wrong"
  /\ IF IsSet(env.XOA_ENDPOINT) THEN Means(env.XOA_ENDPOINT) ELSE Means(env.XOA_HOST)
  /\ LogsIn

(* The provider runs only with values that mean what they should, read in  *)
(* the documented order: not with a token it should have ignored, nor with *)
(* a password while a token is set.                                        *)
RunsOnlyUsable == process = "up" => Usable

(* A value that picked up whitespace where it is forgiven does not keep    *)
(* the provider crash-looping (main.go:173-182), and a crash of a provider *)
(* that can run does not keep it down.                                     *)
StartsUp == []<>(Usable => process = "up")
=============================================================================
