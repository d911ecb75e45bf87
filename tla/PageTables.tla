----------------------------- MODULE PageTables -----------------------------
(***************************************************************************)
(* What the console's pages keep in the query cache and what their          *)
(* mutations do to it: for each panel the queries it shows, each with the   *)
(* server's facts it tells, and its mutations, each with the facts it       *)
(* changes and the queries it invalidates or refetches once it has          *)
(* succeeded.  PageQueries says what becomes of them.                       *)
(*                                                                         *)
(* A key is a query's first component, and the kind for an object's YAML;   *)
(* the pages are about one instance, namespace, domain, directory or        *)
(* object.  Queries that no mutation of these panels is about are left out, *)
(* and so is what a controller does after the server has answered.          *)
(***************************************************************************)
EXTENDS TLC

Mut(writes, refreshes) == [writes |-> writes, refreshes |-> refreshes]

-----------------------------------------------------------------------------
(* The managed mesh                                                         *)

MeshInstances ==
  [reads |-> "mesh-instances" :> {"mesh instance", "mesh instances", "mesh snapshots"},
   does |-> [saveMut |-> Mut({"mesh instance", "mesh instances"},
                             {"mesh-instances", "mesh-summary"})]]

\* The instance's head: discover gathers what the tabs below it show.
MeshInstance ==
  [reads |-> "mesh-discover" :> {"mesh instance", "mesh nodes", "mesh users", "mesh keys",
                                 "mesh key notes", "mesh snapshots"},
   does |-> [delMut |-> Mut({"mesh instances"}, {"mesh-instances", "mesh-summary"}),
             collectSilentMut |-> Mut({"mesh snapshots"},
                                      {"mesh-traffic", "mesh-discover", "mesh-instances"})]]

MeshNodes ==
  LET invalidate == {"mesh-discover", "mesh-overview", "mesh-summary"} IN
  [reads |-> MeshInstance.reads,
   does |-> [m \in {"routesMut", "renameMut", "nodeMut", "cleanMut"} |->
               Mut({"mesh nodes"}, invalidate)]]

MeshKeys ==
  [reads |-> MeshInstance.reads,
   does |-> [m \in {"createMut", "expireMut", "deleteMut", "keyCleanMut", "noteMut"} |->
               IF m = "noteMut" THEN Mut({"mesh key notes"}, {})
               ELSE Mut({"mesh keys"}, {"mesh-discover"})]]

MeshPolicy ==
  [reads |-> "mesh-policy" :> {"mesh policy"},
   does |-> [saveMut |-> Mut({"mesh policy"}, {"mesh-policy", "mesh-discover"})]]

MeshTraffic ==
  [reads |-> "mesh-traffic" :> {"mesh snapshots"},
   does |-> [collectMut |-> Mut({"mesh snapshots"}, {"mesh-traffic", "mesh-instances"})]]

MeshServices ==
  [reads |-> MeshInstance.reads,
   does |-> [createUser |-> Mut({"mesh users"}, {"mesh-discover"})]]

\* The mesh dashboard and the console's hub ask for the same summary under two keys.
MeshDashboard ==
  [reads |-> "mesh-summary-dashboard" :> {"mesh instances", "mesh nodes"}, does |-> <<>>]

\* The hub counts what other pages list, under keys of its own.
HubCounts ==
  "k8s-summary-hub" :> {"pods", "services"}
  @@ "app-center-cloud-vm-instances-hub" :> {"cloud vms"}
  @@ "app-center-dns-domains-hub" :> {"dns domains"}
  @@ "ops-alerts-hub" :> {"alerts"}
  @@ "ops-monitoring-panels-hub" :> {"charts"}

Hub ==
  [reads |-> HubCounts
             @@ "mesh-summary" :> {"mesh instances", "mesh nodes"}
             @@ "authentik-summary" :> {"ak instances", "ak users", "ak apps", "ak providers"},
   does |-> <<>>]

AppCenterDashboard ==
  [reads |-> "app-center-cloud-vm-instances" :> {"cloud vms"}
             @@ "app-center-dns-accounts-dash" :> {"dns accounts"}
             @@ "app-center-dns-domains-dash" :> {"dns domains"},
   does |-> <<>>]

-----------------------------------------------------------------------------
(* Authentik                                                                *)

AuthentikInstances ==
  [reads |-> "authentik-instances" :> {"ak instances"},
   does |-> [saveMut |-> Mut({"ak instances"}, {"authentik-instances", "authentik-summary"})]]

AuthentikInstance ==
  [reads |-> "authentik-status" :> {"ak users", "ak apps", "ak providers"},
   does |-> [delMut |-> Mut({"ak instances"}, {"authentik-instances"})]]

AuthentikUsers ==
  LET invalidate == {"authentik-users", "authentik-status"} IN
  [reads |-> "authentik-users" :> {"ak users"},
   does |-> [m \in {"createMut", "activeMut", "delMut", "updateMut"} |->
               Mut({"ak users"}, invalidate)]]

\* Creating an application creates its provider.
AuthentikApps ==
  LET invalidate == {"authentik-apps", "authentik-providers", "authentik-status"} IN
  [reads |-> "authentik-apps" :> {"ak apps"} @@ "authentik-providers" :> {"ak providers"}
             @@ "authentik-users" :> {"ak users"} @@ "authentik-bindings" :> {"ak bindings"},
   does |-> [createMut |-> Mut({"ak apps", "ak providers"}, invalidate),
             updateMut |-> Mut({"ak apps"}, invalidate),
             delAppMut |-> Mut({"ak apps"}, invalidate),
             bindMut   |-> Mut({"ak bindings"}, {"authentik-bindings"}),
             unbindMut |-> Mut({"ak bindings"}, {"authentik-bindings"})]]

AuthentikProviders ==
  LET invalidate == {"authentik-providers", "authentik-status"} IN
  [reads |-> "authentik-providers" :> {"ak providers"},
   does |-> [m \in {"createMut", "updateMut", "delMut"} |-> Mut({"ak providers"}, invalidate)]]

-----------------------------------------------------------------------------
(* DNS: the lists of domains and of tasks name the account and the domain   *)

DnsAccounts ==
  [reads |-> "dns-accounts" :> {"dns accounts"},
   does |-> [saveMut   |-> Mut({"dns accounts"}, {"dns-accounts"}),
             deleteMut |-> Mut({"dns accounts"}, {"dns-accounts"}),
             syncDomainsMut |-> Mut({"dns domains"}, {"dns-domains"})]]

DnsDomains ==
  [reads |-> "dns-domains" :> {"dns domains", "dns accounts"}
             @@ "dns-accounts" :> {"dns accounts"},
   does |-> [m \in {"saveMut", "deleteMut"} |-> Mut({"dns domains"}, {"dns-domains"})]]

DnsRecords ==
  [reads |-> "dns-domains" :> {"dns domains", "dns accounts"}
             @@ "dns-records" :> {"dns records"},
   does |-> [m \in {"syncMut", "saveMut", "deleteMut", "toggleMut"} |->
               Mut({"dns records"}, {"dns-records"})]]

DnsFailover ==
  [reads |-> "dns-failover" :> {"dns failover", "dns domains"}
             @@ "dns-domains" :> {"dns domains", "dns accounts"},
   does |-> [m \in {"saveMut", "deleteMut"} |-> Mut({"dns failover"}, {"dns-failover"})]]

DnsScheduled ==
  [reads |-> "dns-scheduled" :> {"dns scheduled", "dns domains"}
             @@ "dns-domains" :> {"dns domains", "dns accounts"},
   does |-> [m \in {"saveMut", "deleteMut"} |-> Mut({"dns scheduled"}, {"dns-scheduled"})]]

DnsCerts ==
  [reads |-> "dns-certs" :> {"dns certs"},
   does |-> [saveMut       |-> Mut({"dns certs"}, {"dns-certs"}),
             deleteMut     |-> Mut({"dns certs"}, {"dns-certs"}),
             patchBaotaMut |-> Mut({"dns certs"}, {"dns-certs"}),
             pushBaotaMut  |-> Mut({}, {"dns-certs"})]]

-----------------------------------------------------------------------------
(* The application center: Kafka and OpenSearch                             *)

KafkaTopics ==
  [reads |-> "kafka-topics" :> {"kafka topics"},
   does |-> [m \in {"createTopicMut", "delTopicMut"} |-> Mut({"kafka topics"}, {"kafka-topics"})]]

\* One mutation posts an ACL, then a quota, and refreshes both when both have succeeded.
KafkaAccess ==
  [reads |-> "kafka-acls" :> {"kafka acls"} @@ "kafka-quotas" :> {"kafka quotas"},
   does |-> [aclBundleMut |-> Mut({"kafka acls", "kafka quotas"}, {"kafka-acls", "kafka-quotas"}),
             delAclMut |-> Mut({"kafka acls"}, {"kafka-acls"})]]

KafkaThrottle ==
  [reads |-> "kafka-quotas" :> {"kafka quotas"} @@ "kafka-topic-throttle" :> {"kafka throttles"},
   does |-> [topicThrottleMut |-> Mut({"kafka throttles"}, {"kafka-topic-throttle"}),
             quotaMut         |-> Mut({"kafka quotas"}, {"kafka-quotas"})]]

KafkaPerf ==
  LET invalidate == {"kafka-perf-report", "kafka-perf-jobs"} IN
  [reads |-> "kafka-perf-jobs" :> {"kafka perf"} @@ "kafka-perf-report" :> {"kafka perf"},
   does |-> [m \in {"perfStartMut", "perfDeleteMut"} |-> Mut({"kafka perf"}, invalidate)]]

KafkaTemplates ==
  [reads |-> "app-center-kafka-templates" :> {"kafka templates"},
   does |-> [m \in {"saveTpl", "delTpl"} |->
               Mut({"kafka templates"}, {"app-center-kafka-templates"})]]

\* Pruning deletes indices; putting settings changes one.
OpenSearchIndices ==
  [reads |-> "opensearch-indices" :> {"os indices", "os settings"}
             @@ "opensearch-index-detail" :> {"os settings"}
             @@ "opensearch-cluster-health" :> {"os indices", "os settings"},
   does |-> [putSettingsMut |-> Mut({"os settings"},
                                    {"opensearch-index-detail", "opensearch-indices"}),
             delIdxMut |-> Mut({"os indices"}, {"opensearch-indices"}),
             pruneMut  |-> Mut({"os indices"}, {"opensearch-indices"})]]

OpenSearchTemplates ==
  [reads |-> "app-center-opensearch-templates" :> {"os templates"},
   does |-> [m \in {"saveTplMut", "delTplMut"} |->
               Mut({"os templates"}, {"app-center-opensearch-templates"})]]

RedisTemplates ==
  [reads |-> "app-center-redis-templates" :> {"redis templates"},
   does |-> [m \in {"saveMut", "delMut"} |->
               Mut({"redis templates"}, {"app-center-redis-templates"})]]

CloudVms ==
  [reads |-> "app-center-cloud-vm-instances" :> {"cloud vms"},
   does |-> [createMut |-> Mut({"cloud vms"}, {"app-center-cloud-vm-instances"})]]

\* Deleting goes back to the list and refreshes nothing; the list is refreshed when the
\* page finds that the host is ready.
CloudVm ==
  LET key == "app-center-cloud-vm-instance" IN
  [reads |-> key :> {"cloud vm"},
   does |-> [saveInitMut             |-> Mut({"cloud vm"}, {key}),
             saveRootPasswordOnlyMut |-> Mut({"cloud vm"}, {key}),
             doResetRootPassword     |-> Mut({"cloud vm"}, {key}),
             scaleMut      |-> Mut({"cloud vm"}, {key, "app-center-cloud-vm-instances"}),
             executeDelete |-> Mut({"cloud vm", "cloud vms"}, {}),
             becomesReady  |-> Mut({}, {"app-center-cloud-vm-instances"})]]

-----------------------------------------------------------------------------
(* The cluster's objects                                                    *)

CustomResources ==
  [reads |-> "k8s-cr-instances" :> {"k8s objects"},
   does |-> [createMut |-> Mut({"k8s objects"}, {"k8s-cr-instances"})]]

CustomResource ==
  [reads |-> "k8s-cr-one" :> {"k8s object"},
   does |-> [saveMut |-> Mut({"k8s object"}, {"k8s-cr-one"}),
             delMut  |-> Mut({"k8s objects"}, {"k8s-cr-instances"})]]

\* The list of one kind of objects, which tells what they are and how many.
ObjectList(key, kind, all) ==
  [reads |-> key :> {kind, all},
   does |-> [m \in {"applyMut", "deleteMut"} |->
               Mut({kind, all}, {key, "k8s-namespaces-stats"})]]

\* An object's page: the list it is found in, and its YAML.
ObjectDetail(key, kind, all, yaml) ==
  [reads |-> key :> {kind, all} @@ yaml :> {kind},
   does |-> [applyMut |-> Mut({kind}, {key, "k8s-namespaces-stats", yaml})]]

Namespaces ==
  [reads |-> "k8s-namespaces-stats" :> {"pods", "deployments", "services", "pvcs"},
   does |-> <<>>]

ClusterOverview == [reads |-> "k8s-summary" :> {"pods", "services"}, does |-> <<>>]

Ingresses == ObjectList("k8s-ingresses", "ingress", "ingresses")
Services == ObjectList("k8s-services", "service", "services")
ConfigMaps == ObjectList("k8s-configmaps", "configmap", "configmaps")
Secrets == ObjectList("k8s-secrets", "secret", "secrets")
Deployments == ObjectList("k8s-deployments", "deployment", "deployments")
Pods == ObjectList("k8s-pods", "pod", "pods")

Pvcs ==
  [ObjectList("k8s-pvcs", "pvc", "pvcs") EXCEPT !.does = @
     @@ "pvcExpandMut" :> Mut({"pvc"}, {"k8s-pvcs", "k8s-namespaces-stats"})]

IngressDetail ==
  ObjectDetail("k8s-ingresses", "ingress", "ingresses", "k8s-object-yaml Ingress")
ServiceDetail ==
  ObjectDetail("k8s-services", "service", "services", "k8s-object-yaml Service")
ConfigMapDetail ==
  ObjectDetail("k8s-configmaps", "configmap", "configmaps", "k8s-object-yaml ConfigMap")

\* One tab shows the object's YAML, the other its data.
SecretDetail ==
  [ObjectDetail("k8s-secrets", "secret", "secrets", "k8s-object-yaml Secret") EXCEPT
     !.reads = @ @@ "k8s-secret-data" :> {"secret"}]

\* A restart is an annotation; the pods follow later.
DeploymentDetail ==
  LET yaml == "k8s-object-yaml Deployment" IN
  [reads |-> "k8s-deployments" :> {"deployment", "deployments"} @@ yaml :> {"deployment"}
             @@ "k8s-pods" :> {"pod", "pods"},
   does |-> [m \in {"restartPodsMut", "applyMut"} |->
               Mut({"deployment"},
                   {"k8s-deployments", "k8s-pods", "k8s-namespaces-stats", yaml})]]

PodDetail ==
  [reads |-> "k8s-pod" :> {"pod"},
   does |-> [deleteMut |-> Mut({"pod", "pods"}, {"k8s-pods", "k8s-summary"})]]

\* Ingresses again, under a key of its own, and the objects of the Gateway API.
RouteManager ==
  [reads |-> "route-mgr-ingresses" :> {"ingress", "ingresses"}
             @@ "route-mgr-gwapi" :> {"gateway objects"},
   does |-> [m \in {"applyMut", "deleteMut"} |->
               Mut({"ingress", "ingresses", "gateway objects"},
                   {"route-mgr-ingresses", "route-mgr-gwapi"})]]

Rbac ==
  [reads |-> "k8s-rbac" :> {"rbac"},
   does |-> [createMut |-> Mut({"rbac"}, {"k8s-rbac"})]]

PvcFiles ==
  [reads |-> "k8s-pvc-list" :> {"pvc files"},
   does |-> [m \in {"saveMut", "delMut", "mkdirMut", "renameMut", "uploadMut"} |->
               Mut({"pvc files"}, {"k8s-pvc-list"})]]

-----------------------------------------------------------------------------
(* The platform itself                                                      *)

PlatformUsers ==
  [reads |-> "admin-users" :> {"users"},
   does |-> [m \in {"saveMut", "delMut", "totpProvisionMut", "totpDisableMut"} |->
               Mut({"users"}, {"admin-users"})]]

DocsMedia ==
  [reads |-> "docs-media" :> {"media"} @@ "docs-attachment-storage" :> {"attachment storage"},
   does |-> [saveMut    |-> Mut({"attachment storage"}, {"docs-attachment-storage"}),
             clearKvMut |-> Mut({"attachment storage"}, {"docs-attachment-storage"}),
             delMut     |-> Mut({"media"}, {"docs-media"}),
             uploadMut  |-> Mut({"media"}, {"docs-media"})]]

Notifications ==
  [reads |-> "host-egress-notification" :> {"host alerts"}
             @@ "ops-cluster-advisory" :> {"advisory bell"},
   does |-> [m \in {"securityLoginReadMut", "remoteLoginReadMut", "adminIpBanReadMut",
                    "clusterAdvisoryBellReadMut"} |->
               IF m = "clusterAdvisoryBellReadMut"
               THEN Mut({"advisory bell"}, {"ops-cluster-advisory"})
               ELSE Mut({"host alerts"}, {"host-egress-notification"})]]

CloudHosts ==
  [reads |-> "cloud-hosts" :> {"cloud hosts"} @@ "cloud-hosts-metrics" :> {"cloud hosts"},
   does |-> [m \in {"saveMut", "delMut"} |->
               Mut({"cloud hosts"}, {"cloud-hosts", "cloud-hosts-metrics"})]]

CloudHostSftp ==
  [reads |-> "cloud-host-sftp-list" :> {"host files"},
   does |-> [uploadMut |-> Mut({"host files"}, {"cloud-host-sftp-list"})]]

CosObjects ==
  [reads |-> "tencent-cloud-cos-objects" :> {"cos objects"},
   does |-> [m \in {"uploadMut", "deleteMut"} |->
               Mut({"cos objects"}, {"tencent-cloud-cos-objects"})]]

Alerts ==
  [reads |-> "ops-alerts" :> {"alerts"},
   does |-> [m \in {"regenWebhookMut", "saveMut"} |-> Mut({"alerts"}, {"ops-alerts"})]]

Monitoring ==
  [reads |-> "ops-monitoring-panels" :> {"charts"},
   does |-> [savePanelsMut |-> Mut({"charts"}, {"ops-monitoring-panels"})]]

-----------------------------------------------------------------------------
ConsolePanels ==
  [MeshInstances |-> MeshInstances, MeshInstance |-> MeshInstance, MeshNodes |-> MeshNodes,
   MeshKeys |-> MeshKeys, MeshPolicy |-> MeshPolicy, MeshTraffic |-> MeshTraffic,
   MeshServices |-> MeshServices, MeshDashboard |-> MeshDashboard, Hub |-> Hub,
   AppCenterDashboard |-> AppCenterDashboard,
   AuthentikInstances |-> AuthentikInstances, AuthentikInstance |-> AuthentikInstance,
   AuthentikUsers |-> AuthentikUsers, AuthentikApps |-> AuthentikApps,
   AuthentikProviders |-> AuthentikProviders,
   DnsAccounts |-> DnsAccounts, DnsDomains |-> DnsDomains, DnsRecords |-> DnsRecords,
   DnsFailover |-> DnsFailover, DnsScheduled |-> DnsScheduled, DnsCerts |-> DnsCerts,
   KafkaTopics |-> KafkaTopics, KafkaAccess |-> KafkaAccess, KafkaPerf |-> KafkaPerf,
   KafkaThrottle |-> KafkaThrottle,
   KafkaTemplates |-> KafkaTemplates, OpenSearchIndices |-> OpenSearchIndices,
   OpenSearchTemplates |-> OpenSearchTemplates, RedisTemplates |-> RedisTemplates,
   CloudVms |-> CloudVms, CloudVm |-> CloudVm,
   CustomResources |-> CustomResources, CustomResource |-> CustomResource,
   Namespaces |-> Namespaces, ClusterOverview |-> ClusterOverview,
   Ingresses |-> Ingresses, Services |-> Services, ConfigMaps |-> ConfigMaps,
   Secrets |-> Secrets, Deployments |-> Deployments, Pods |-> Pods, Pvcs |-> Pvcs,
   IngressDetail |-> IngressDetail, ServiceDetail |-> ServiceDetail,
   ConfigMapDetail |-> ConfigMapDetail, SecretDetail |-> SecretDetail,
   DeploymentDetail |-> DeploymentDetail, PodDetail |-> PodDetail,
   RouteManager |-> RouteManager, Rbac |-> Rbac, PvcFiles |-> PvcFiles,
   PlatformUsers |-> PlatformUsers, DocsMedia |-> DocsMedia,
   Notifications |-> Notifications, CloudHosts |-> CloudHosts,
   CloudHostSftp |-> CloudHostSftp, CosObjects |-> CosObjects,
   Alerts |-> Alerts, Monitoring |-> Monitoring]

(* The queries whose answers the API keeps in Redis for a while             *)
(* (apiResponseCacheTTL), which no mutation removes.                        *)
ApiCached == {"k8s-summary", "k8s-summary-hub", "k8s-rbac", "k8s-namespaces-stats",
              "route-mgr-ingresses"}

(* What the server keeps in the platform KV.                                *)
PlatformKVFacts == {"mesh instance", "mesh instances", "mesh snapshots", "mesh key notes",
                    "ak instances", "cloud hosts", "attachment storage", "host alerts",
                    "advisory bell", "alerts", "charts"}

ListMuts == {"applyMut", "deleteMut"}

(* What the code leaves behind: the mutations <<<<panel, name>>, query>> after  *)
(* which nothing refreshes a query that tells what they have changed.       *)
ConsoleForgotten ==
    ({<<"MeshInstances", "saveMut">>, <<"MeshTraffic", "collectMut">>, <<"MeshKeys", "noteMut">>}
       \X {"mesh-discover"})
    \union (({<<"MeshInstances", "saveMut">>, <<"MeshInstance", "delMut">>}
             \union ({"MeshNodes"} \X DOMAIN MeshNodes.does)) \X {"mesh-summary-dashboard"})
    \union ((({"AuthentikUsers"} \X DOMAIN AuthentikUsers.does)
             \union ({"AuthentikApps"} \X {"createMut", "updateMut", "delAppMut"})
             \union ({"AuthentikProviders"} \X DOMAIN AuthentikProviders.does)
             \union {<<"AuthentikInstance", "delMut">>}) \X {"authentik-summary"})
    \union (({"DnsAccounts"} \X {"saveMut", "deleteMut"})
             \X {"dns-domains", "app-center-dns-accounts-dash"})
    \union (({<<"DnsAccounts", "syncDomainsMut">>, <<"DnsDomains", "saveMut">>,
              <<"DnsDomains", "deleteMut">>})
             \X {"dns-failover", "dns-scheduled",
                 "app-center-dns-domains-hub", "app-center-dns-domains-dash"})
    \union (({"OpenSearchIndices"} \X DOMAIN OpenSearchIndices.does)
             \X {"opensearch-cluster-health"})
    \union ({<<"CloudVms", "createMut">>, <<"CloudVm", "executeDelete">>}
             \X {"app-center-cloud-vm-instances-hub"})
    \union ({<<"CloudVm", "executeDelete">>}
             \X {"app-center-cloud-vm-instance", "app-center-cloud-vm-instances"})
    \union (({"Ingresses"} \X ListMuts) \X {"route-mgr-ingresses", "k8s-object-yaml Ingress"})
    \union {<<<<"IngressDetail", "applyMut">>, "route-mgr-ingresses">>}
    \union (({"RouteManager"} \X ListMuts) \X {"k8s-ingresses", "k8s-object-yaml Ingress"})
    \union (({"Services"} \X ListMuts)
             \X {"k8s-object-yaml Service", "k8s-summary", "k8s-summary-hub"})
    \union (({"ConfigMaps"} \X ListMuts) \X {"k8s-object-yaml ConfigMap"})
    \union (({"Secrets"} \X ListMuts) \X {"k8s-object-yaml Secret"})
    \union ((({"Secrets"} \X ListMuts) \union {<<"SecretDetail", "applyMut">>})
             \X {"k8s-secret-data"})
    \union (({"Deployments"} \X ListMuts) \X {"k8s-object-yaml Deployment"})
    \union (({"Pods"} \X ListMuts) \X {"k8s-pod", "k8s-summary", "k8s-summary-hub"})
    \union ({<<"PodDetail", "deleteMut">>}
             \X {"k8s-pod", "k8s-namespaces-stats", "k8s-summary-hub"})
    \union (({"Alerts"} \X DOMAIN Alerts.does) \X {"ops-alerts-hub"})
    \union {<<<<"Monitoring", "savePanelsMut">>, "ops-monitoring-panels-hub">>}
=============================================================================
