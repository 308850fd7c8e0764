------------------------ MODULE BenchmarkControllerMC ------------------------
(***************************************************************************)
(* The instance of BenchmarkController that is checked, and, before it,    *)
(* the configurations the graphical client lets choose from                *)
(* (Configuration), over all verification files, inputs and EPs of a small *)
(* size: they are compared with what each is for.                          *)
(***************************************************************************)
EXTENDS BenchmarkController, Configuration, FiniteSets

(* The verification files of the graphical client.                         *)
FilesOfCategories ==
  LET file(category, f) == [category |-> category] @@ f
      contents == {[readable |-> FALSE, names |-> << >>]}
                  \cup {[readable |-> TRUE, names |-> [h \in hashes |-> "listed"]] :
                          hashes \in SUBSET {"h1", "h2"}}
  IN  {<<file("", a), file("experimental", b), file("extended", c)>> :
         a \in contents, b \in contents, c \in contents}

ConfigOf(hash, valid) ==
  [path |-> "c", isFile |-> TRUE, isJson |-> TRUE, readable |-> TRUE, valid |-> valid,
   hash |-> hash, name |-> "c.json", hasEP |-> TRUE, here |-> TRUE, supported |-> TRUE]

Lists(file, hash) == file.readable /\ hash \in DOMAIN file.names

(* With all verification files at hand a configuration is verified if, and *)
(* only if, the file for it lists its hash, and is in a category if, and   *)
(* only if, some file of a category does. A verification file that cannot  *)
(* be read stands for any configuration.                                   *)
ASSUME VerifiedIsListed ==
  \A files \in FilesOfCategories, hash \in {"h1", "h2", "h3"} :
    LET verdict == ValidateAndParse(ConfigOf(hash, TRUE), files) IN
    /\ (\A i \in 1 .. 3 : files[i].readable) =>
         /\ verdict.verified <=> Lists(files[1], hash)
         /\ verdict.category # "" <=> \E i \in 2 .. 3 : Lists(files[i], hash)
         /\ verdict.name = "listed" <=> \E i \in 1 .. 3 : Lists(files[i], hash)
    /\ ~files[1].readable => verdict.verified
    /\ \A i \in 2 .. 3 : ~files[i].readable => verdict.category # ""

(* A configuration nobody can vouch for is not verified.                   *)
ASSUME NoHashNoVerdict ==
  \A files \in FilesOfCategories :
    /\ ~ValidateAndParse(ConfigOf("", TRUE), files).verified
    /\ ~ValidateAndParse(ConfigOf("h1", FALSE), files).ok

(* The cards are the configurations that load, each once, and those        *)
(* without a category come first, each kind in the order of the archive.   *)
ASSUME CardsInOrder ==
  \A files \in FilesOfCategories :
    \A configs \in SeqOf({ConfigOf(h, v) : h \in {"h1", "h2"}, v \in BOOLEAN}, 2) :
      LET numbered == [i \in DOMAIN configs |-> [number |-> i] @@ configs[i]]
          cards == BaseConfigs(numbered, files)
          order(c) == CategoryOrder(ValidateAndParse(c, files).category)
      IN  /\ ToSet(cards) = {numbered[i] : i \in {j \in DOMAIN configs : configs[j].valid}}
          /\ \A i, j \in DOMAIN cards : i < j =>
               \/ order(cards[i]) < order(cards[j])
               \/ order(cards[i]) = order(cards[j]) /\ cards[i].number < cards[j].number

-----------------------------------------------------------------------------
InputLists ==
  {<<[type |-> "", paths |-> p]>> : p \in SeqOf({"f", "g"}, 2)}
  \cup {<<[type |-> "base", paths |-> p], [type |-> "extended", paths |-> q]>> :
          p \in SeqOf({"f", "g"}, 2), q \in SeqOf({"f", "g"}, 2)}

(* What the results say of the prompts is true of the inputs that were     *)
(* run; "both" runs all of them; the type the client begins with has an    *)
(* input, if any has.                                                      *)
ASSUME PromptsAreOfTheType ==
  \A lists \in InputLists :
    LET inputs == InputsOf(lists) IN
    /\ \A allowed \in {"base", "extended", "both"} :
         HasNonBasePrompts(inputs, allowed)
           <=> \E x \in ToSet(GetInputs(inputs, allowed)) : x.type # "base"
    /\ GetInputs(inputs, "both") = inputs
    /\ inputs # << >> => GetInputs(inputs, PromptType(inputs)) # << >>
    /\ ToSet(GetInputTypes(inputs)) = {x.type : x \in ToSet(inputs)}
    /\ IsInjective(GetInputTypes(inputs))

(* A path is made absolute once, and stays what it is from then on.        *)
ASSUME BaseDirIsPutOnce ==
  \A scheme \in {"", "file", "http"}, absolute \in BOOLEAN, name \in {<< >>, <<"f">>},
     base \in {"", "data"} :
    LET path == [scheme |-> scheme, absolute |-> absolute, name |-> name]
        once == PrependBaseDirIfNeeded(path, base)
    IN  /\ PrependBaseDirIfNeeded(once, base) = once
        /\ base # "" /\ path # NoPath /\ scheme # "http" => once.absolute

(* An EP that was read, written and read again is the same, and the        *)
(* backend a name stands for is in its full name.                          *)
Optional(key, value) == [k \in (IF value = "" THEN {} ELSE {key}) |-> value]

ASSUME NamesAreStable ==
  \A name \in {"RyzenAI", "CUDA", "Metal", "llama-cpp", "WindowsML", "MLX"},
     device \in {"NPU", "GPU", ""}, backend \in {"CUDA", ""} :
    LET given == Optional("device_type", device) @@ Optional("backend", backend)
        ep == ReadEP([name |-> name, config |-> given])
    IN  /\ ReadEP(ep) = ep
        /\ name \in Backends =>
             GetFullName(ep) = <<"llama-cpp", IF backend = "" THEN name ELSE backend>>

-----------------------------------------------------------------------------
(* The instance of BenchmarkController: of four configurations of the      *)
(* archive the start page has the two that load and are for this platform. *)
Archive ==
  <<ConfigOf("h1", TRUE), ConfigOf("h2", FALSE), [ConfigOf("h3", TRUE) EXCEPT !.here = FALSE],
    ConfigOf("h2", TRUE)>>

Listing ==
  LET lists(category, hash) ==
        [category |-> category, readable |-> TRUE, names |-> [h \in {hash} |-> "listed"]]
  IN  <<lists("", "h1"), lists("experimental", "h2"), lists("extended", "h1")>>

ConfigsMC == Len(BaseConfigs(Archive, Listing))

=============================================================================
