------------------------- MODULE EndpointAttributes -------------------------
(***************************************************************************)
(* pkg/model/types.go: an endpoint becomes the attributes of a Cloud Map   *)
(* instance, and an instance becomes an endpoint again.                    *)
(*                                                                         *)
(* Attributes are a function from keys to texts.  Numbers are formatted and*)
(* parsed: Itoa(n) is the text of a number.  An id, which the code writes  *)
(* as one text, is the tuple it is made of.                                *)
(***************************************************************************)
EXTENDS Naturals

CONSTANTS Itoa(_),      \* strconv.Itoa and FormatInt
          PortNumbers,  \* the port numbers in use
          Times         \* creation timestamps in use

(* Different numbers have different texts.                                 *)
ASSUME CodecAssumption ==
  /\ PortNumbers \subseteq 0..(2^16 - 1) /\ Times \subseteq Nat
  /\ \A m, n \in PortNumbers \cup Times : Itoa(m) = Itoa(n) => m = n

-----------------------------------------------------------------------------
(* The values of f take precedence over those of g.                        *)
Over(f, g) == [k \in DOMAIN f \cup DOMAIN g |-> IF k \in DOMAIN f THEN f[k] ELSE g[k]]
Only(f, keys) == [k \in DOMAIN f \cap keys |-> f[k]]

FormatBool(b) == IF b THEN "true" ELSE "false"
TrueTexts == {"1", "t", "T", "TRUE", "true", "True"}
FalseTexts == {"0", "f", "F", "FALSE", "false", "False"}

IpAttr(addressType) == CASE addressType = "IPv4" -> {"AWS_INSTANCE_IPV4"}
                         [] addressType = "IPv6" -> {"AWS_INSTANCE_IPV6"}
                         [] OTHER -> {}

FieldAttributes(e) ==
  [CLUSTER_ID |-> e.clusterId,
   CLUSTERSET_ID |-> e.clusterSetId,
   AWS_INSTANCE_PORT |-> Itoa(e.endpointPort.port),
   ENDPOINT_PROTOCOL |-> e.endpointPort.protocol,
   ENDPOINT_PORT_NAME |-> e.endpointPort.name,
   SERVICE_PORT_NAME |-> e.servicePort.name,
   SERVICE_PORT |-> Itoa(e.servicePort.port),
   SERVICE_TARGET_PORT |-> e.servicePort.targetPort,
   SERVICE_PROTOCOL |-> e.servicePort.protocol,
   SERVICE_TYPE |-> e.serviceType,
   SERVICE_EXPORT_CREATION_TIMESTAMP |-> Itoa(e.created),
   READY |-> FormatBool(e.ready),
   HOSTNAME |-> e.hostname,
   NODENAME |-> e.nodename]

(* The extra attributes of an endpoint come last and win.                  *)
GetCloudMapAttributes(e) ==
  Over(e.attributes, Over([k \in IpAttr(e.addressType) |-> e.ip], FieldAttributes(e)))

(* Attributes without which an instance is no endpoint.                    *)
Required == {"CLUSTER_ID", "CLUSTERSET_ID", "AWS_INSTANCE_PORT", "ENDPOINT_PROTOCOL",
  "ENDPOINT_PORT_NAME", "SERVICE_PORT_NAME", "SERVICE_PORT", "SERVICE_TARGET_PORT",
  "SERVICE_PROTOCOL", "SERVICE_TYPE", "SERVICE_EXPORT_CREATION_TIMESTAMP", "READY"}

Known == Required \cup {"AWS_INSTANCE_IPV4", "AWS_INSTANCE_IPV6", "HOSTNAME", "NODENAME"}

Parses(text, numbers) == \E n \in numbers : Itoa(n) = text
Parsed(text, numbers) == CHOOSE n \in numbers : Itoa(n) = text

(* NewEndpointFromInstance succeeds.                                       *)
IsEndpoint(a) ==
  /\ Required \subseteq DOMAIN a
  /\ Parses(a["AWS_INSTANCE_PORT"], PortNumbers) /\ Parses(a["SERVICE_PORT"], PortNumbers)
  /\ Parses(a["SERVICE_EXPORT_CREATION_TIMESTAMP"], Times)
  /\ a["READY"] \in TrueTexts \cup FalseTexts

Optional(a, key) == IF key \in DOMAIN a THEN a[key] ELSE ""

EndpointPortFromAttr(a) ==
  [name |-> a["ENDPOINT_PORT_NAME"], targetPort |-> "",
   port |-> Parsed(a["AWS_INSTANCE_PORT"], PortNumbers), protocol |-> a["ENDPOINT_PROTOCOL"]]

ServicePortFromAttr(a) ==
  [name |-> a["SERVICE_PORT_NAME"], targetPort |-> a["SERVICE_TARGET_PORT"],
   port |-> Parsed(a["SERVICE_PORT"], PortNumbers), protocol |-> a["SERVICE_PROTOCOL"]]

(* Mutated form: the optional attributes are read and not removed.         *)
RemainingWithOptional(a) == Only(a, (DOMAIN a \ Known) \cup {"HOSTNAME", "NODENAME"})

(* What no field is made of stays an attribute.                            *)
Remaining(a) == Only(a, DOMAIN a \ Known)

(* The endpoint.  With two addresses the IPv4 one counts.                  *)
NewEndpointFromInstance(id, a) ==
  LET v4 == "AWS_INSTANCE_IPV4" \in DOMAIN a
      v6 == "AWS_INSTANCE_IPV6" \in DOMAIN a
  IN [id |-> id,
      ip |-> IF v4 THEN a["AWS_INSTANCE_IPV4"] ELSE Optional(a, "AWS_INSTANCE_IPV6"),
      addressType |-> IF v4 THEN "IPv4" ELSE IF v6 THEN "IPv6" ELSE "",
      endpointPort |-> EndpointPortFromAttr(a), servicePort |-> ServicePortFromAttr(a),
      clusterId |-> a["CLUSTER_ID"], clusterSetId |-> a["CLUSTERSET_ID"],
      serviceType |-> a["SERVICE_TYPE"],
      created |-> Parsed(a["SERVICE_EXPORT_CREATION_TIMESTAMP"], Times),
      ready |-> a["READY"] \in TrueTexts,
      hostname |-> Optional(a, "HOSTNAME"), nodename |-> Optional(a, "NODENAME"),
      attributes |-> Remaining(a)]
=============================================================================
