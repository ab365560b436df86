-------------------------- MODULE PostfixMakeconf --------------------------
(***************************************************************************)
(* postfix-makeconf.sh and the services around it: at every boot main.cf is *)
(* made from the configuration of the image, without the settings that the *)
(* machine has of its own, and these.  Postfix starts after it.            *)
(*                                                                         *)
(* A line of a configuration sets a key, goes on with the setting before   *)
(* it (it starts with white space), or is a note.  The shell is bash, which *)
(* the image installs as /bin/sh; sed is GNU's.                            *)
(***************************************************************************)
EXTENDS Naturals, FiniteSets, Sequences, SequencesExt

CONSTANTS
    BaseConf,       \* the lines of main.cf.base
    LocalConfs,     \* the contents main.cf.local may have
    SedMayFail      \* whether sed may end without having written anything

ConfLine ==
    [kind : { "set", "more", "note" }, key : STRING, text : STRING]

ASSUME ConfAssumption ==
    /\ BaseConf \in Seq(ConfLine)
    /\ \A conf \in LocalConfs : conf \in Seq(ConfLine)

VARIABLES
    localConf,      \* main.cf.local
    mainCf,         \* main.cf
    makeconf        \* the oneshot: "inactive", "stripped", "done"

makeconfVars == << localConf, mainCf, makeconf >>

MakeconfTypeOK ==
    /\ localConf \in LocalConfs
    /\ mainCf \in Seq(ConfLine)
    /\ makeconf \in { "inactive", "stripped", "done" }

\* The image has no main.cf.
MakeconfInit(conf) ==
    /\ localConf = conf
    /\ mainCf = << >>
    /\ makeconf = "inactive"

-----------------------------------------------------------------------------
\* Mutant of Keys: settings that are commented out are read, too.
KeysOfNotes(conf) == { line.key : line \in ToSet(conf) } \ { "" }

\* The grep and sed that read the keys of main.cf.local, also off a line that
\* goes on with a setting, when it looks like one.
Keys(conf) ==
    { line.key : line \in { l \in ToSet(conf) : l.kind # "note" } } \ { "" }

Sets(line, keys) == line.kind = "set" /\ line.key \in keys

\* The lines at which the sed script begins to remove a block.  It removes such
\* a line with the one that N appends, whatever that is: the address of the
\* inner loop looks at the begin of the pattern space, which is the key.  The
\* line that N appended begins no block of its own.
StripStarts(conf, keys) ==
    LET starts[i \in 0 .. Len(conf)] ==
            i > 0 /\ Sets(conf[i], keys) /\ ~starts[i - 1]
    IN  starts

\* On the last line N has nothing to append, and sed ends and prints it.
Stripped(conf, keys) ==
    LET starts == StripStarts(conf, keys)
        kept == { i \in DOMAIN conf :
                    ~starts[i - 1] /\ (starts[i] => i = Len(conf)) }
        Nth(n) == CHOOSE i \in kept : Cardinality({ k \in kept : k <= i }) = n
    IN  [n \in 1 .. Cardinality(kept) |-> conf[Nth(n)]]

\* sed "$sed_script" "$base_conf" >"$output"; the exit status is not looked at.
StripBase ==
    /\ makeconf = "inactive"
    /\ \/ mainCf' = Stripped(BaseConf, Keys(localConf))
       \/ SedMayFail /\ mainCf' = << >>
    /\ makeconf' = "stripped"
    /\ UNCHANGED localConf

\* cat $local_conf >>$output
AppendLocal ==
    /\ makeconf = "stripped"
    /\ mainCf' = mainCf \o localConf
    /\ makeconf' = "done"
    /\ UNCHANGED localConf

MakeconfStep == StripBase \/ AppendLocal

\* A boot starts the oneshot again, on the main.cf that is there.
MakeconfReboot ==
    /\ makeconf' = "inactive"
    /\ UNCHANGED << localConf, mainCf >>

-----------------------------------------------------------------------------
(***************************************************************************)
(* How Postfix reads a configuration (external): a setting goes on over    *)
(* the lines after it that start with white space, notes do not interrupt  *)
(* it, and the last setting of a key counts.                               *)
(***************************************************************************)

\* The lines of the setting that begins at line i.
Block(conf, i) ==
    { j \in i .. Len(conf) :
        /\ j = i \/ conf[j].kind = "more"
        /\ \A k \in i + 1 .. j : conf[k].kind # "set" }

Begins(conf, key) == { i \in DOMAIN conf : Sets(conf[i], { key }) }

\* Empty when the key is not set.
Value(conf, key) ==
    { conf[j].text :
        j \in UNION { Block(conf, i) :
                        i \in { b \in Begins(conf, key) :
                                  \A c \in Begins(conf, key) : c <= b } } }

\* Key's setting is next to one that is replaced: right after the line of a
\* replaced key, or the setting before a replaced one.
NextToReplaced(conf, key, replaced) ==
    \E i \in Begins(conf, key) :
        \/ i > 1 /\ Sets(conf[i - 1], replaced)
        \/ \E j \in i + 1 .. Len(conf) :
              /\ Sets(conf[j], replaced)
              /\ \A k \in i + 1 .. j - 1 : conf[k].kind # "set"

=============================================================================
