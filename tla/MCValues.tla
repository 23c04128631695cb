------------------------------- MODULE MCValues -------------------------------
(***************************************************************************)
(* Values shared by the instances for TLC: two accounts on one computer,    *)
(* the profile of one of them outside the folder of profiles.               *)
(***************************************************************************)
LOCAL INSTANCE SequencesExt

TwoAccounts == {"ayse", "veli"}
UsersDir == <<"c", "users">>
PublicDir == <<"c", "users", "public">>
TwoProfiles == [a \in TwoAccounts |-> IF a = "ayse" THEN <<"c", "users", "ayse">> ELSE <<"d", "veli">>]
SomePaths == {UsersDir, <<"c", "users", "ayse">>, <<"c", "users", "gone">>, <<"d">>, <<"d", "veli">>}

\* Folders as the page lists them, and one selection that picks more than the
\* path its key names.
SomeSelections == {UsersDir, <<"c", "users", "gone">>, <<"d">>, <<"loose">>}
SomeKeys == [s \in SomeSelections |->
               IF s = <<"loose">> THEN <<"c", "users", "ayse", "loose">> ELSE s]
SomePicks == [s \in SomeSelections |->
                IF s = <<"loose">> THEN SomePaths ELSE {p \in SomePaths : IsPrefix(s, p)}]

FewOwners == [f \in {"a.key", "a.key ", "v", "relative"} |->
                CASE f = "relative" -> "nobody" [] f = "v" -> "veli" [] OTHER -> "ayse"]
Trimmed == [f \in DOMAIN FewOwners |-> IF f = "a.key " THEN "a.key" ELSE f]
TwoRemotes == [r \in {1, 2} |-> IF r = 1 THEN {"a.key", "v"} ELSE {"relative"}]

=============================================================================
