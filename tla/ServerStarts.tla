---------------------------- MODULE ServerStarts ----------------------------
(* The search for a Java that a creation and a start make between their     *)
(* port check and their next step (java_compatibility.py), as the machine   *)
(* changes under it.  It asks one executable after the other for its        *)
(* version and keeps nothing from one search to the next.                   *)
EXTENDS ServerPorts, SequencesExt

CONSTANTS
    Paths,      \* Java executables
    SystemJava, \* the java of the PATH
    Outputs,    \* what `java -version` may print: [form, major, open]
    Unparsable, \* a Minecraft version like 24w14a
    StartScenarios
        \* bound: by name, the servers that take part, whether their searches
        \* are followed or may end in either way at any time, their Minecraft
        \* version, the settings, the first state of the machine, and how
        \* often it changes or does not answer

(* The forms of the version string: "17.0.1", java version "1.8.0_292" and  *)
(* openjdk version "1.8.0_292".                                             *)
Forms == {"modern", "legacy", "legacyOpen"}

Machines == [Paths -> Outputs \cup {Unset}]

ASSUME StartsAssumption ==
    /\ SystemJava \in Paths /\ Unparsable \notin Nat
    /\ \A o \in Outputs : o.form \in Forms /\ o.major \in Nat /\ o.open \in BOOLEAN
    /\ \A c \in Range(StartScenarios) :
          /\ c.servers \subseteq Servers /\ c.followed \in BOOLEAN
          /\ c.versions \subseteq Nat \cup {Unparsable}
          /\ c.configured \in Seq({7, 8, 11, 16, 17, 21, 25} \X Paths)
          /\ \A i, j \in DOMAIN c.configured :  \* one path for a major
                c.configured[i][1] = c.configured[j][1] => i = j
          /\ c.jdks \in Seq(Paths)
          /\ c.machines \subseteq Machines /\ c.troubles \in Nat

VARIABLES
    scenario, \* its name, which no step changes
    version,  \* the Minecraft version of the servers
    machine,  \* what each executable prints, Unset where there is none
    troubles, \* how often the machine may still change, or not answer
    search    \* the search of a server's request: how far, what it has found,
              \* and the executables that it may rely on; Unset without one

javaVars == <<scenario, version, machine, troubles>>
startVars == <<portsVars, javaVars, search>>

(* A version a.b.c is the number 10000 a + 100 b + c.                       *)
Bands ==
    << [min |-> 0,      accepted |-> <<7>>],
       [min |-> 10710,  accepted |-> <<8, 11>>],
       [min |-> 11700,  accepted |-> <<16>>],
       [min |-> 11800,  accepted |-> <<17>>],
       [min |-> 12005,  accepted |-> <<21>>],
       [min |-> 260000, accepted |-> <<25>>] >>

(* The nearest band below, or the newest.                                   *)
Accepted ==
    IF version = Unparsable
    THEN Last(Bands).accepted
    ELSE Bands[Max({i \in DOMAIN Bands : Bands[i].min <= version})].accepted

(* _parse_java_version: the first number of "1.7.0_352" is its major, unless*)
(* java rather than openjdk prints it, or it is 1.8.                        *)
Parsed(output) ==
    [major |-> IF output.form = "legacyOpen" /\ output.major # 8 THEN 1 ELSE output.major,
     open |-> output.open]

-----------------------------------------------------------------------------
(* Where a search looks, in this order: the configured paths, the JDKs of   *)
(* the search directories, the PATH.                                        *)
Places ==
    LET configured == StartScenarios[scenario].configured
        jdks == StartScenarios[scenario].jdks
    IN  [i \in DOMAIN configured |->
            [kind |-> "configured", major |-> configured[i][1], path |-> configured[i][2]]]
        \o [i \in DOMAIN jdks |-> [kind |-> "jdk", path |-> jdks[i]]]
        \o << [kind |-> "system", path |-> SystemJava] >>

(* A place that would do for its kind, whatever else was found.             *)
Suits(place, info) ==
    CASE place.kind = "configured" -> info.major = place.major
      [] place.kind = "jdk" -> info.open
      [] place.kind = "system" -> TRUE

(* Mutant: what a configured path turns out to be is not compared.          *)
Takes_AsConfigured(found, place, info) ==
    /\ place.kind = "configured" \/ Suits(place, info)
    /\ place.kind = "jdk" => \A f \in found : f.major # info.major
    /\ place.kind = "system" => found = {}

Takes(found, place, info) ==
    /\ Suits(place, info)
    /\ place.kind = "jdk" => \A f \in found : f.major # info.major
    /\ place.kind = "system" => found = {}

(* The major under which it is kept.                                        *)
KeptAs(place, info) == IF place.kind = "configured" THEN place.major ELSE info.major

Fresh == [next |-> 1, found |-> {}, steady |-> Paths]

Trouble == troubles > 0 /\ troubles' = troubles - 1

(* The executable is asked.                                                 *)
Looks(s) ==
    /\ search[s] # Unset
    /\ search[s].next <= Len(Places)
    /\ LET place == Places[search[s].next]
           output == machine[place.path]
           info == Parsed(output)
       IN search' = [search EXCEPT ![s] =
              [next |-> @.next + 1,
               found |-> IF output # Unset /\ Takes(@.found, place, info)
                         THEN @.found \cup {[major |-> KeptAs(place, info), is |-> info.major,
                                             place |-> @.next]}
                         ELSE @.found,
               steady |-> @.steady]]
    /\ UNCHANGED <<portsVars, javaVars>>

(* An executable that fails or takes too long is skipped; where a search    *)
(* directory, or something in it, cannot be read, what remains of it is.    *)
Skips(s, last) ==
    /\ Trouble
    /\ search[s] # Unset
    /\ LET skipped == search[s].next .. last IN
       /\ skipped = {last} \/ \A i \in skipped : Places[i].kind = "jdk"
       /\ skipped # {}
       /\ search' = [search EXCEPT
              ![s].next = last + 1,
              ![s].steady = @ \ {Places[i].path : i \in skipped}]
    /\ UNCHANGED <<portsVars, scenario, version, machine>>

Searched(s) == search[s] # Unset /\ search[s].next > Len(Places)

(* The installed Java that the version prefers.                             *)
Preferred(s) ==
    {f \in search[s].found :
        \E i \in DOMAIN Accepted :
            /\ f.major = Accepted[i]
            /\ \A g \in search[s].found, j \in DOMAIN Accepted : g.major = Accepted[j] => i <= j}

(* It is validated once more.                                               *)
Chosen(s) ==
    IF Searched(s) THEN {f \in Preferred(s) : f.is \in Range(Accepted)} ELSE {}

-----------------------------------------------------------------------------
(* An executable is installed, replaced or removed.                         *)
MachineChanges(p, output) ==
    /\ Trouble
    /\ machine[p] # output
    /\ machine' = [machine EXCEPT ![p] = output]
    /\ search' = [s \in Servers |->
                     IF search[s] = Unset THEN Unset
                     ELSE [search[s] EXCEPT !.steady = @ \ {p}]]
    /\ UNCHANGED <<portsVars, scenario, version>>

(* The search is over when its request goes on or ends.                     *)
EndsSearch(s) == search' = [search EXCEPT ![s] = Unset]

Searching == IF StartScenarios[scenario].followed THEN {"create", "checked"} ELSE {}

Begins(s) ==
    search' = [search EXCEPT ![s] =
                  IF start'[s].pc = start[s].pc THEN @
                  ELSE IF start'[s].pc \in Searching THEN Fresh ELSE Unset]

(* Without a Java that was chosen a request ends, and with one it may end   *)
(* for another reason.  (An import does without a search.)                  *)
MayGoOn(s) == StartScenarios[scenario].followed => Chosen(s) # {}
MayEnd(s) == (StartScenarios[scenario].followed /\ start[s].pc = "checked") => Searched(s)

ServerStep(s) ==
    \/ OtherSteps(s) /\ Begins(s)
    \/ /\ MayGoOn(s)
       /\ Spawn(s) \/ \E p \in MaybePort : CreateInserts(s, p)
       /\ EndsSearch(s)
    \/ /\ MayEnd(s)
       /\ Refused(s) \/ CreateFails(s)
       /\ EndsSearch(s)

StartsInit ==
    /\ PortsInit
    /\ scenario \in DOMAIN StartScenarios
    /\ version \in StartScenarios[scenario].versions
    /\ machine \in StartScenarios[scenario].machines
    /\ troubles = StartScenarios[scenario].troubles
    /\ search = [s \in Servers |-> Unset]

StartsNext ==
    \/ \E s \in StartScenarios[scenario].servers :
          \/ ServerStep(s) /\ UNCHANGED javaVars
          \/ Looks(s)
          \/ \E last \in 1 .. Len(Places) : Skips(s, last)
    \/ \E p \in Paths, output \in Outputs \cup {Unset} : MachineChanges(p, output)

StartsSpec == StartsInit /\ [][StartsNext]_startVars

StartsTypeOK ==
    /\ PortsTypeOK
    /\ machine \in Machines
    /\ troubles \in Nat
    /\ \A s \in Servers : search[s] # Unset <=> start[s].pc \in Searching

-----------------------------------------------------------------------------
(* Where a search that is over could rely on finding a Java, or this major. *)
Usable(s) ==
    {i \in 1 .. Len(Places) - 1 :
        LET output == machine[Places[i].path] IN
        /\ Places[i].path \in search[s].steady
        /\ output # Unset
        /\ Suits(Places[i], Parsed(output))}

Offers(s, major) == {i \in Usable(s) : Parsed(machine[Places[i].path]).major = major}

(* However the machine changes during a search and whichever executables do *)
(* not answer: a Java that stays and that the version accepts is found, no  *)
(* Java comes before one that the version prefers or that has been          *)
(* configured, and the PATH is used only when there is nothing else.  If    *)
(* the Java that is started is still what it was, the version accepts it.   *)
(* (discover_java_installations, get_java_for_minecraft.)                   *)
BestJava ==
    \A s \in Servers : Searched(s) =>
        /\ \A i \in DOMAIN Accepted : Offers(s, Accepted[i]) # {} =>
              \E f \in Chosen(s), j \in 1 .. i : f.major = Accepted[j]
        /\ \A f \in Chosen(s) :
              LET path == Places[f.place].path IN
              /\ \A i \in Offers(s, f.major) : f.place <= i
              /\ f.place = Len(Places) => Usable(s) = {}
              /\ path \in search[s].steady =>
                    /\ machine[path] # Unset
                    /\ Parsed(machine[path]).major \in Range(Accepted)
=============================================================================
