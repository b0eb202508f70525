---------------------------- MODULE BridgeChecks ----------------------------
(***************************************************************************)
(* What the Matter bridge looks at before it acts.  Each set names the     *)
(* checks of one decoder, validator or encoder; an input that fails one of *)
(* them, whichever, is refused as a whole and changes nothing else, and an *)
(* input with several flaws is refused by the first.                       *)
(***************************************************************************)
EXTENDS Naturals

-----------------------------------------------------------------------------
(* Files at startup.                                                       *)

\* BridgePrivateFile::Load: the path, its components, the leaf's owner and
\* mode, its size, and that it did not change while it was read.
FileChecks == {"path", "component", "owner or mode", "size", "changed"}

\* Paths and opaque names of the configuration.
NameChecks == {"relative path", "dot segment", "odd hex"}

\* Scalars of the configuration, each in its field.
ScalarChecks == {"number range", "string value", "wrong type"}

\* Objects: every key once, all of them, at most sixteen devices.
ObjectChecks == {"unknown key", "duplicate key", "missing key", "devices", "temperature bounds", "same Thing"}

\* The commissioning file's fixed layout.
CommissioningChecks == {"magic", "salt length", "discriminator", "iterations"}

\* Attestation material: sizes, certificates, vendor and product, the key.
CredentialChecks == {"size", "certificate", "vendor", "key"}

ConfigurationChecks == NameChecks \union ScalarChecks \union ObjectChecks

BootstrapChecks == FileChecks \union ConfigurationChecks \union CommissioningChecks \union CredentialChecks

\* The store's directory and its lock file.
DirectoryChecks == {"mode", "owner", "lock"}

\* store.json: bytes of a regular file, one document, its exact keys.
DocumentChecks == {"file size", "document", "keys"}

\* Keys and identities are bounded text.
TextChecks == {"utf8", "key", "identity"}

\* Values are canonical base64.
Base64Checks == {"padding", "alphabet"}

\* With the interface, which is looked up before the store is opened.
StoreChecks == {"interface"} \union DirectoryChecks \union DocumentChecks \union TextChecks \union Base64Checks

\* What the server and the platform are given must agree with the store.
ServerChecks == {"vendor", "certificate", "storage", "groups", "server", "network"}

-----------------------------------------------------------------------------
(* Requests of peers.                                                      *)

\* Capture and Access of the attribute guard.
AttributeChecks ==
    {"endpoint", "cluster", "attribute", "privilege", "timed", "version", "access"}

\* CopyScalar: a scalar of the three writable attributes.
WriteChecks == {"path", "principal", "type", "range"}

\* Command and Access of the invoke guard.
CommandChecks == {"endpoint", "cluster", "command", "timed", "access"}

\* Fields and Field: required context tags, none twice.
FieldChecks == {"not a structure", "duplicate tag", "missing tag"}

\* SceneFields: nested field sets, one value each.
SceneChecks == {"not a list", "choices"}

\* Values: ranges the SDK's decoders leave open.
ValueChecks == {"group", "name", "scene", "time"}

\* ValidateArguments: the commands of the four clusters.
ArgumentChecks == {"cluster", "command"} \union FieldChecks \union SceneChecks \union ValueChecks

\* CopyArguments: bounded before they are copied.
CopyChecks == {"depth", "nodes", "bytes"}

RequestChecks(k) ==
    CASE k = "read" -> AttributeChecks
      [] k = "write" -> AttributeChecks \union WriteChecks
      [] OTHER -> CommandChecks \union ArgumentChecks \union CopyChecks

\* Common, Arguments and Finish of the request frame.
EncodeChecks == {"scope", "arguments", "frame size"}

\* Read of an endpoint's attribute once the consumer agreed.
ReadAnswers == {"endpoint", "cluster", "no value", "attribute"}

\* Write of an attribute.
WriteAnswers == {"endpoint", "read only", "range", "persistence"}

\* ApplyWrite: the value is encoded again for the SDK's own write.
ApplyChecks == {"encode", "decode"}

NativeRefusals(k) == IF k = "read" THEN ReadAnswers ELSE ApplyChecks \union WriteAnswers

\* Completed of the renderer: the command must still be there.
RenderChecks == {"command", "response"}

\* The reply: one, on the request's own path.
ReplyChecks == {"path", "encoding"}

-----------------------------------------------------------------------------
(* Frames of the consumer.                                                 *)

\* The scalar parser of results, probes and closes.
FrameChecks == {"key", "value", "generation", "outcome", "missing key"}

\* The parser of observations.
ObservationChecks == {"key", "thing", "endpoint", "value"}

\* Sizes, control bytes, and identities that do not grow.
LineChecks == {"size", "control byte", "identity"}

InputChecks == FrameChecks \union ObservationChecks \union LineChecks
=============================================================================
