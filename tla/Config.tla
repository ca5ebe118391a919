------------------------------- MODULE Config -------------------------------
(* src/config.c: the apps a JSON file describes.  A JSON value is what cJSON   *)
(* gives the code, a type and a value; a string is a word, and a path the      *)
(* words it was put together from.                                             *)
EXTENDS Naturals, Sequences, FiniteSetsExt

CONSTANTS
  Here,      \* the current directory
  Absolute,  \* the words that start with "/"
  Dirs,      \* the relative words that name a directory of the current one
  MaxEnv     \* MAX_ENV_VARS

ASSUME ConfigAssumption == Here \in Absolute /\ Dirs \cap Absolute = {} /\ MaxEnv \in Nat

Json(type, value) == [type |-> type, value |-> value]
Missing == Json("missing", "")

Get(object, key) ==
  IF object.type = "object" /\ key \in DOMAIN object.value THEN object.value[key] ELSE Missing

\* The first key wins, even if its value is of no use.
FirstOf(object, key, other) ==
  IF Get(object, key).type # "missing" THEN Get(object, key) ELSE Get(object, other)

IsText(json) == json.type = "string" /\ json.value # ""

-----------------------------------------------------------------------------
(* One app. *)

\* A relative path lies in the directory it is joined to.
Under(cwd, word) == IF word \in Absolute THEN << word >> ELSE Append(cwd, word)

\* realpath finds a directory that exists; any other path is kept as written.
CwdOf(item) ==
  LET cwd == Get(item, "cwd")
  IN CASE ~IsText(cwd)          -> << Here >>
       [] cwd.value \in Dirs    -> << Here, cwd.value >>
       [] OTHER                 -> << cwd.value >>

\* Of an array, the first element.
WatchOf(item, cwd) ==
  LET watch == Get(item, "watch")
      word  == IF watch.type = "array" /\ watch.value # << >> THEN watch.value[1] ELSE watch
  IN CASE watch.type = "bool" -> IF watch.value THEN cwd ELSE << >>
       [] IsText(word)        -> Under(cwd, word.value)
       [] OTHER               -> << >>

\* Mutant: there is always room for one more.
EnvOfAll(item) ==
  LET env == Get(item, "env")
  IN IF env.type # "object" THEN << >>
     ELSE SelectSeq(env.value, LAMBDA v : v.type \in {"string", "number"})

\* Only strings and numbers become variables, and only so many of them.
EnvOf(item) ==
  LET env  == Get(item, "env")
      kept == IF env.type # "object" THEN << >>
              ELSE SelectSeq(env.value, LAMBDA v : v.type \in {"string", "number"})
  IN SubSeq(kept, 1, Min({Len(kept), MaxEnv}))

RestartSecOf(item) ==
  LET delay == FirstOf(item, "restart_sec", "restart_delay")
  IN IF delay.type = "number" /\ delay.value >= 0 THEN delay.value ELSE 2

ScopeOf(item, default) ==
  LET scope == Get(item, "scope")
  IN IF scope.type = "string" /\ scope.value \in {"system", "user"} THEN scope.value
     ELSE default

\* A command that is not an absolute path is run by a login shell.
Script(word) == [shell |-> word \notin Absolute, command |-> word]

Proper(item) ==
  IsText(Get(item, "name")) /\ IsText(FirstOf(item, "script", "exec"))

\* Mutant: the watch is read before the directory it is relative to.
ParseItemWatchFirst(item, scope) ==
  [name |-> Get(item, "name").value,
   script |-> Script(FirstOf(item, "script", "exec").value),
   cwd |-> CwdOf(item), watch |-> WatchOf(item, << Here >>),
   env |-> Len(EnvOf(item)), restart_sec |-> RestartSecOf(item),
   scope |-> ScopeOf(item, scope), user |-> ""]

\* parse_app_item, of an item that is Proper.
ParseItem(item, scope) ==
  [name |-> Get(item, "name").value,
   script |-> Script(FirstOf(item, "script", "exec").value),
   cwd |-> CwdOf(item), watch |-> WatchOf(item, CwdOf(item)),
   env |-> Len(EnvOf(item)), restart_sec |-> RestartSecOf(item),
   scope |-> ScopeOf(item, scope), user |-> ""]

-----------------------------------------------------------------------------
(* A file: the Json it holds, or Missing when it cannot be read or parsed. *)

\* config_find_default: << >>, or the first of the known names that is there.
Candidates == << "fire.config.json", "fire.json", "ecosystem.config.json" >>

FindDefault(files) ==
  LET readable == SelectSeq(Candidates, LAMBDA name : name \in DOMAIN files)
  IN SubSeq(readable, 1, Min({Len(readable), 1}))

\* The items of a file, << >> if it has no array of them.
Items(file) ==
  LET apps == IF file.type = "array" THEN file ELSE FirstOf(file, "apps", "services")
  IN IF apps.type = "array" THEN apps.value ELSE << >>

\* Mutant: an app that is no good is left out and the others are loaded.
LoadOthers(file, scope) ==
  LET proper == SelectSeq(Items(file), Proper)
  IN [i \in DOMAIN proper |-> ParseItem(proper[i], scope)]

\* config_load: the apps, none at all if one of them is no good.
Load(file, scope) ==
  LET items == Items(file)
  IN IF \E i \in DOMAIN items : ~Proper(items[i]) THEN << >>
     ELSE [i \in DOMAIN items |-> ParseItem(items[i], scope)]
=============================================================================
