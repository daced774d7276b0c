SPECIFICATION Spec
CONSTANTS
  server = server
  clients = clients
  clients_ssl = clients_ssl
  x1 = x1
  i1 = i1
  cloud1 = cloud1
  EngineListeners = {server}
  IDEListeners = {clients, clients_ssl}
  SSLListeners = {clients_ssl}
  EngineConns = {x1}
  IDEConns = {i1}
  CloudConns = {cloud1}
  MaxSignals = 0
PROPERTY UnreadableReplyReported
CHECK_DEADLOCK FALSE
