--------------------------- MODULE MCControlPlane ---------------------------
(* An installation with a local and a remote backend, one managed model and
   an automatic experience, and the commands operators may enter. *)
EXTENDS ControlPlane

Alphabet == <<"assistant", "auto", "chat", "fast", "local", "m1", "m2", "remote", "u2">>
Capabilities == {"chat", "code", "embeddings"}
Files == {"/w/a.gguf"}

List(capabilities) == [list |-> capabilities]
Has(capability) == [mapping |-> [c \in {capability} |-> TRUE]]

Document(backends, models, experiences) ==
  [version |-> 2, backends |-> backends, models |-> models, experiences |-> experiences]

Catalog ==
  Document([local |-> [kind |-> "llama.cpp"], remote |-> [kind |-> "openai-compatible"]],
           [m1 |-> [backend |-> "local", artifact |-> [kind |-> "managed"],
                    capabilities |-> Has("chat")]],
           [auto |-> [route |-> "auto"], chat |-> [capability |-> "chat"]])

Local2(artifact) ==
  [backend |-> "local", artifact |-> artifact, upstream_model |-> "u2",
   capabilities |-> Has("chat"), priority |-> 1]
HostFile == [kind |-> "host_path", path |-> "/w/a.gguf"]
HostDir == [kind |-> "host_path", path |-> "/w", filename |-> "b.gguf"]
Linked == Local2(HostFile)
Remote == [backend |-> "remote", capabilities |-> Has("embeddings")]

Apply(file) == [kind |-> "apply", file |-> file, replace |-> FALSE, dry |-> FALSE]
Models(models) == [models |-> models]

(* A linked model, then a change of one of its fields; a model that goes to
   the remote backend; a backend switched off; an experience pinned to a
   model another file has to bring. *)
AddLinked == Apply(Models([m2 |-> Linked]))
Disable == Apply(Models([m1 |-> [enabled |-> FALSE]]))
SwitchOff == Apply([backends |-> [local |-> [enabled |-> FALSE]]])
Pin == Apply([experiences |-> [assistant |-> [model |-> "m2", capability |-> "chat"]]])
Plan == [Disable EXCEPT !.dry = TRUE]
DropLocal == Apply(Models([m2 |-> Null]))
DropBase == Apply(Models([m1 |-> Null]))

Listed ==
  Document(EmptyMapping,
           [m1 |-> [capabilities |-> List({"chat", "code"})],
            m2 |-> [Linked EXCEPT !.capabilities = List({"chat"})]],
           [fast |-> [model |-> "m2"]])

(* Edits of a model's nested fields: its capabilities as a list and as a
   mapping, one field of its artifact, every kind of artifact, a model that is
   new, and one taken over from the base. *)
Change(model, field, value) == Apply(Models(model :> (field :> value)))
Nested ==
  {Change(m, "capabilities", c) : m \in {"m1", "m2"}, c \in {List({"code"}), Has("embeddings")}}
  \cup {Change("m1", "capabilities", Null)}
  \cup {Change("m2", "artifact", a) :
           a \in {[filename |-> "c.gguf"], HostDir, [kind |-> Null],
                  [kind |-> "docker_volume", volume |-> "v"],
                  [kind |-> "container_path", path |-> "/c"],
                  [kind |-> "pvc", claim_name |-> "p", sub_path |-> "s"],
                  [kind |-> "hostPath", path |-> "/h"]}}
Whole ==
  {Apply([version |-> 2] @@ Models([m2 |-> [Linked EXCEPT !.capabilities = List({"chat"})]])),
   [Apply(Models([m2 |-> Linked])) EXCEPT !.replace = TRUE],
   [Apply(Listed) EXCEPT !.replace = TRUE]}
Invalid ==
  {Apply([version |-> 3]), Apply(Models([m9 |-> Linked])), Change("m2", "artifact", Null),
   Change("m2", "capabilities", List({"Bad"})), Change("m2", "artifact", [path |-> Null])}
OtherPins ==
  {Apply([experiences |-> [fast |-> fields]]) :
     fields \in {[backend_model |-> "m2", model |-> "m1"], [backend_model |-> "m9"],
                 [route |-> "first"], [capability |-> "code"]}}

Register(model, entry, experience, capability) ==
  [kind |-> "register", model |-> model, entry |-> entry, experience |-> experience,
   capability |-> capability, dry |-> FALSE]
RegisterRemote == Register("m2", Remote, "fast", "embeddings")
RegisterChat == Register("m2", Linked, "fast", "chat")
RegisterOther == Register("m2", Remote, Null, "embeddings")

EnableMemory == [kind |-> "memory", enabled |-> "on", dry |-> FALSE]
BadMemory == [kind |-> "memory", enabled |-> "maybe", dry |-> FALSE]
FetchBase == [kind |-> "fetch", model |-> "m1", force |-> FALSE]
FetchAgain == [kind |-> "fetch", model |-> "m1", force |-> TRUE]
RemoveBase == [kind |-> "remove", model |-> "m1"]
Render == [kind |-> "render"]
Up == [kind |-> "up"]

Fresh == [s \in {} |-> Null]
Grown == Models([m2 |-> Linked]) @@ [experiences |-> [fast |-> [model |-> "m2"]]]
PlaneOverlays == {Fresh, Grown}

CONSTANTS o1, o2, o3

(* The second operator's commands are those that may meet the first's.  The
   third edits documents, one command after the other. *)
EditCommands == Nested \cup Whole \cup Invalid \cup OtherPins \cup {Disable, SwitchOff, Render}
PlaneCommands ==
  (o1 :> {AddLinked, Pin, Plan, RegisterRemote, SwitchOff, EnableMemory, BadMemory,
          FetchAgain, RemoveBase, Up})
  @@ (o2 :> {DropLocal, FetchBase, EnableMemory})
  @@ (o3 :> EditCommands)

(* The third operator's edits neither meet the others' commands nor a kill. *)
EditsApart == cmd[o3] # Null => cmd[o1] = Null /\ cmd[o2] = Null /\ crashes = 0

NullOverlays == {Grown}
NullCommands == (o1 :> {DropBase})
AcceptedOverlays == {Fresh}
AcceptedCommands == (o1 :> {RegisterChat, RegisterOther})
=============================================================================
