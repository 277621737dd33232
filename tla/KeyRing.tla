------------------------------- MODULE KeyRing -------------------------------
(***************************************************************************)
(* The API keys that are accepted (internal/auth).  A key is a pair: does  *)
(* it begin with "Bearer ", and what is left without that.  What clients   *)
(* and the console send loses the "Bearer " (normalizeKey), what is        *)
(* configured does not.  The list is in memory only: what the console      *)
(* changes is gone when the process ends.                                  *)
(***************************************************************************)
EXTENDS Naturals, SequencesExt

CONSTANTS
    Keys,           \* keys, without "Bearer "
    ApiKeys         \* sequences of pairs: what API_KEY may be

ASSUME ApiKeysAssumption == ApiKeys \subseteq Seq(BOOLEAN \X Keys) \ {<<>>}

VARIABLES
    configured,     \* API_KEY
    apiKeys,        \* Keyring.apiKeys; the administrator's is the first configured
    wanted,         \* ghost: the keys that were configured or added, and not deleted since
    changed         \* ghost: the keys added or deleted since the process started

keyVars == <<configured, apiKeys, wanted, changed>>

Bare(key) == <<FALSE, key>>

AdminKey == configured[1]

\* NewKeyring, at a restart: what was wanted of the process before is still wanted, but the
\* keys are those configured.
NewKeyring ==
    /\ apiKeys' = configured
    /\ changed' = {}
    /\ UNCHANGED wanted

KeysInit ==
    /\ configured \in ApiKeys
    /\ apiKeys = configured
    /\ wanted = {key \in Keys : Bare(key) \in ToSet(configured)}
    /\ changed = {}

\* Validate what a client sends, with or without "Bearer ".
Validate(key) ==
    [isValid |-> Bare(key) \in ToSet(apiKeys),
     isAdmin |-> Bare(key) \in ToSet(apiKeys) /\ Bare(key) = AdminKey]

\* Mutant: a key is added although it is there.
AddRegularKeyAgain(key) ==
    /\ apiKeys' = Append(apiKeys, Bare(key))
    /\ wanted' = wanted \cup {key}
    /\ changed' = changed \cup {key}
    /\ UNCHANGED configured

AddRegularKey(key) ==
    /\ Bare(key) \notin ToSet(apiKeys)
    /\ apiKeys' = Append(apiKeys, Bare(key))
    /\ wanted' = wanted \cup {key}
    /\ changed' = changed \cup {key}
    /\ UNCHANGED configured

DeleteRegularKey(key) ==
    /\ Bare(key) # AdminKey
    /\ \E i \in DOMAIN apiKeys :
          /\ apiKeys[i] = Bare(key) /\ \A j \in 1 .. i - 1 : apiKeys[j] # Bare(key)
          /\ apiKeys' = RemoveAt(apiKeys, i)
    /\ wanted' = wanted \ {key}
    /\ changed' = changed \cup {key}
    /\ UNCHANGED configured

-----------------------------------------------------------------------------
\* A key changed since the start is accepted as wanted, any other as configured: a change
\* does not outlive the process, after which a deleted key is accepted again and an added one
\* is not.
InForce(key) ==
    IF key \in changed THEN key \in wanted ELSE Bare(key) \in ToSet(configured)

\* While the process runs, a key that was added is accepted and one that was deleted is
\* refused, whatever else is added and deleted; the keys nobody changed since the start are
\* accepted as configured, and the administrator's is always among them and is alone in being
\* one: if API_KEY has no key twice (one deletion would leave the other) and none that begins
\* with "Bearer " (which no client can send).
KeysInForce ==
    IsInjective(configured) /\ (\A i \in DOMAIN configured : ~configured[i][1]) =>
        \A key \in Keys :
            /\ Validate(key).isValid <=> InForce(key)
            /\ Validate(key).isAdmin <=> Bare(key) = configured[1]
=============================================================================
